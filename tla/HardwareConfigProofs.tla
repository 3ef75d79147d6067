------------------------ MODULE HardwareConfigProofs ------------------------
(***************************************************************************)
(* Theorems of HardwareConfig, for every dump, hardware definition,        *)
(* template, list of configurations and number of faults:                  *)
(*                                                                         *)
(*   HWInvariant              what is stored carries the commands of its   *)
(*                            own resolved chain;                          *)
(*   TransitionsIsolated      ProfileIsolation;                            *)
(*   CachedCommandsAsOrdered  CachedAsOrdered;                             *)
(*   InitConditionsHold       InitHolds of a profile with one              *)
(*                            configuration;                               *)
(*   InitConditionsOfAll      InitHolds, when configurations name          *)
(*                            different profiles.                          *)
(*                                                                         *)
(* What an application does is a list of steps made by joining lists, and  *)
(* what it writes is a list of maps written one over another.  So the      *)
(* module first says what joining (FlattenSeq, concat, \o) and writing     *)
(* over (laterWins, over) do to slices of every length, by induction on    *)
(* the length; then what every list of steps writes, whatever fails (run); *)
(* then which lists the handlers make.                                     *)
(***************************************************************************)
EXTENDS HardwareConfig, SequenceLemmas, SequenceTheorems, FiniteSetTheorems

-----------------------------------------------------------------------------
(* Slices. *)

\* A slice is a function on an interval from 1.
LEMMA SliceFacts ==
  ASSUME NEW s, IsSlice(s)
  PROVE  /\ Len(s) \in Nat /\ DOMAIN s = 1..Len(s)
         /\ s = [i \in 1..Len(s) |-> s[i]]
<1>1. s \in Seq(ToSet(s))
  BY DEF IsSlice
<1>2. Len(s) \in Nat /\ s \in [1..Len(s) -> ToSet(s)] /\ DOMAIN s = 1..Len(s)
  BY <1>1, LenProperties
<1> QED BY <1>2

\* Every function on an interval from 1 is a slice.
LEMMA SliceIntro ==
  ASSUME NEW n \in Nat, NEW s, DOMAIN s = 1..n, s = [i \in DOMAIN s |-> s[i]]
  PROVE  IsSlice(s) /\ Len(s) = n
<1>1. s \in [1..n -> ToSet(s)]
  BY DEF ToSet
<1>2. s \in Seq(ToSet(s))
  BY <1>1, SeqDef
<1>3. Len(s) = n
  BY <1>1
<1> QED BY <1>2, <1>3 DEF IsSlice

\* A function with the domain of a slice is one.
LEMMA MapSlice ==
  ASSUME NEW s, IsSlice(s), NEW t, DOMAIN t = DOMAIN s, t = [i \in DOMAIN t |-> t[i]]
  PROVE  IsSlice(t) /\ Len(t) = Len(s)
BY SliceFacts, SliceIntro

\* The empty slice has no index.
LEMMA EmptySlice == IsSlice(<<>>) /\ Len(<<>>) = 0 /\ DOMAIN <<>> = {}
<1>1. DOMAIN <<>> = {} /\ Len(<<>>) = 0
  BY EmptySeq
<1>2. <<>> \in Seq(ToSet(<<>>))
  BY EmptySeq
<1> QED BY <1>1, <1>2 DEF IsSlice

\* A slice without an index is empty, and any other has a last one.
LEMMA EmptyIsOnly ==
  ASSUME NEW s, IsSlice(s)
  PROVE  (s = <<>> <=> DOMAIN s = {}) /\ (s # <<>> => Len(s) \in Nat \ {0})
<1>1. s \in Seq(ToSet(s))
  BY DEF IsSlice
<1>2. s # <<>> => Len(s) \in Nat \ {0}
  BY <1>1, EmptySeq
<1>3. s # <<>> => 1 \in DOMAIN s
  BY <1>2, SliceFacts
<1> QED BY <1>2, <1>3, EmptySlice

\* A slice of one element.
LEMMA OneSlice ==
  ASSUME NEW x
  PROVE  IsSlice(<<x>>) /\ Len(<<x>>) = 1 /\ DOMAIN <<x>> = {1} /\ <<x>>[1] = x
<1>1. DOMAIN <<x>> = 1..1 /\ <<x>> = [i \in 1..1 |-> <<x>>[i]] /\ <<x>>[1] = x
  OBVIOUS
<1>2. IsSlice(<<x>>) /\ Len(<<x>>) = 1
  BY <1>1, SliceIntro
<1> QED BY <1>1, <1>2

\* Two slices appended: the indices and the elements of the whole.
LEMMA JoinSlices ==
  ASSUME NEW a, IsSlice(a), NEW b, IsSlice(b)
  PROVE  /\ IsSlice(a \o b) /\ Len(a \o b) = Len(a) + Len(b)
         /\ DOMAIN (a \o b) = 1..(Len(a) + Len(b))
         /\ \A i \in 1..(Len(a) + Len(b)) :
              (a \o b)[i] = IF i <= Len(a) THEN a[i] ELSE b[i - Len(a)]
<1> DEFINE S == ToSet(a) \cup ToSet(b)
           c == a \o b
<1>1. a \in Seq(S) /\ b \in Seq(S)
  BY SeqMonotonic DEF IsSlice
<1>2. c \in Seq(S) /\ Len(c) = Len(a) + Len(b)
  BY <1>1, ConcatProperties
<1>3. \A i \in 1..(Len(a) + Len(b)) : c[i] = IF i <= Len(a) THEN a[i] ELSE b[i - Len(a)]
  BY <1>1, ConcatProperties
<1>4. Len(c) \in Nat /\ DOMAIN c = 1..Len(c) /\ c = [i \in DOMAIN c |-> c[i]]
  BY <1>2, LenProperties
<1>5. IsSlice(c)
  BY <1>4, SliceIntro
<1> QED BY <1>2, <1>3, <1>4, <1>5

\* Every element of either part is in the whole, and the other way round.
LEMMA JoinParts ==
  ASSUME NEW a, IsSlice(a), NEW b, IsSlice(b)
  PROVE  /\ \A i \in DOMAIN a : i \in DOMAIN (a \o b) /\ (a \o b)[i] = a[i]
         /\ \A i \in DOMAIN b : i + Len(a) \in DOMAIN (a \o b) /\ (a \o b)[i + Len(a)] = b[i]
         /\ \A j \in DOMAIN (a \o b) :
              j \in DOMAIN a \/ (j - Len(a) \in DOMAIN b /\ (j - Len(a)) + Len(a) = j)
<1> DEFINE c == a \o b
<1>1. /\ DOMAIN c = 1..(Len(a) + Len(b))
      /\ \A i \in 1..(Len(a) + Len(b)) : c[i] = IF i <= Len(a) THEN a[i] ELSE b[i - Len(a)]
  BY JoinSlices
<1>2. Len(a) \in Nat /\ DOMAIN a = 1..Len(a) /\ Len(b) \in Nat /\ DOMAIN b = 1..Len(b)
  BY SliceFacts
<1> HIDE DEF c
<1>3. \A i \in DOMAIN a : i \in DOMAIN c /\ c[i] = a[i]
  BY <1>1, <1>2
<1>4. \A i \in DOMAIN b : i + Len(a) \in DOMAIN c /\ c[i + Len(a)] = b[i]
  BY <1>1, <1>2
<1>5. \A j \in DOMAIN c : j \in DOMAIN a \/ (j - Len(a) \in DOMAIN b /\ (j - Len(a)) + Len(a) = j)
  BY <1>1, <1>2
<1> QED BY <1>3, <1>4, <1>5 DEF c

\* Appending nothing.
LEMMA JoinEmpty ==
  ASSUME NEW a, IsSlice(a)
  PROVE  a \o <<>> = a /\ <<>> \o a = a
BY ConcatEmptySeq DEF IsSlice

\* Slices with the same elements are equal.
LEMMA SameSlice ==
  ASSUME NEW a, IsSlice(a), NEW b, IsSlice(b), Len(a) = Len(b),
         \A i \in 1..Len(a) : a[i] = b[i]
  PROVE  a = b
<1> DEFINE n == Len(a)
<1>1. a = [i \in 1..n |-> a[i]] /\ b = [i \in 1..n |-> b[i]]
  BY SliceFacts
<1>2. \A i \in 1..n : a[i] = b[i]
  OBVIOUS
<1> HIDE DEF n
<1> QED BY <1>1, <1>2

\* The first k elements, whether or not s has as many.
prefix(s, k) == [i \in 1..k |-> s[i]]

\* A prefix is a slice of its length.
LEMMA PrefixFacts ==
  ASSUME NEW s, NEW k \in Nat
  PROVE  /\ IsSlice(prefix(s, k)) /\ Len(prefix(s, k)) = k
         /\ DOMAIN prefix(s, k) = 1..k
         /\ \A i \in 1..k : prefix(s, k)[i] = s[i]
<1>1. DOMAIN prefix(s, k) = 1..k /\ prefix(s, k) = [i \in DOMAIN prefix(s, k) |-> prefix(s, k)[i]]
  BY DEF prefix
<1>2. \A i \in 1..k : prefix(s, k)[i] = s[i]
  BY DEF prefix
<1> QED BY <1>1, <1>2, SliceIntro

\* A slice is its own longest prefix.
LEMMA PrefixOfAll ==
  ASSUME NEW s, IsSlice(s)
  PROVE  prefix(s, Len(s)) = s
BY SliceFacts DEF prefix

\* The prefix without elements.
LEMMA PrefixEmpty ==
  ASSUME NEW s
  PROVE  prefix(s, 0) = <<>>
<1>1. IsSlice(prefix(s, 0)) /\ DOMAIN prefix(s, 0) = {}
  BY PrefixFacts
<1> QED BY <1>1, EmptyIsOnly

\* A prefix grows by the element after it.
LEMMA PrefixStep ==
  ASSUME NEW s, NEW k \in Nat
  PROVE  prefix(s, k + 1) = prefix(s, k) \o <<s[k + 1]>>
<1> DEFINE a == prefix(s, k)
           b == <<s[k + 1]>>
           c == prefix(s, k + 1)
<1>1. IsSlice(a) /\ Len(a) = k /\ \A i \in 1..k : a[i] = s[i]
  BY PrefixFacts
<1>2. IsSlice(b) /\ Len(b) = 1 /\ b[1] = s[k + 1]
  BY OneSlice
<1>3. IsSlice(c) /\ Len(c) = k + 1 /\ \A i \in 1..(k + 1) : c[i] = s[i]
  <2>1. k + 1 \in Nat
    OBVIOUS
  <2> QED BY <2>1, PrefixFacts
<1> HIDE DEF a, b, c
<1>4. IsSlice(a \o b) /\ Len(a \o b) = k + 1
      /\ \A i \in 1..(k + 1) : (a \o b)[i] = IF i <= k THEN a[i] ELSE b[i - k]
  <2>1. Len(a) + Len(b) = k + 1
    BY <1>1, <1>2
  <2>2. /\ IsSlice(a \o b) /\ Len(a \o b) = Len(a) + Len(b)
        /\ \A i \in 1..(Len(a) + Len(b)) :
             (a \o b)[i] = IF i <= Len(a) THEN a[i] ELSE b[i - Len(a)]
    BY <1>1, <1>2, JoinSlices
  <2> QED BY <1>1, <2>1, <2>2, Zenon
<1>5. \A i \in 1..(k + 1) : (a \o b)[i] = c[i]
  <2> TAKE i \in 1..(k + 1)
  <2>1. CASE i <= k
    BY <1>1, <1>3, <1>4, <2>1
  <2>2. CASE i = k + 1
    <3>1. ~(i <= k) /\ i - k = 1
      BY <2>2
    <3>2. (a \o b)[i] = b[1]
      BY <1>4, <3>1
    <3>3. c[i] = s[k + 1]
      BY <1>3, <2>2
    <3> QED BY <1>2, <3>2, <3>3
  <2>3. i <= k \/ i = k + 1
    OBVIOUS
  <2> QED BY <2>1, <2>2, <2>3, Zenon
<1>6. a \o b = c
  BY <1>3, <1>4, <1>5, SameSlice
<1> QED BY <1>6 DEF a, b, c

-----------------------------------------------------------------------------
(* Flattening: the recursive function of FlattenSeq exists, and what it is  *)
(* one element further.                                                    *)

\* g is the recursion that FlattenSeq of the slices ss unfolds to, up to m.
Flattens(g, ss, m) ==
  g = [i \in 1..m |-> IF i = 1 THEN ss[i] ELSE g[i - 1] \o ss[i]]

\* A recursion that reaches m extends to m + 1.
LEMMA FlattensStep ==
  ASSUME NEW ss, NEW m \in Nat, NEW g, Flattens(g, ss, m)
  PROVE  \E h : Flattens(h, ss, m + 1)
<1> DEFINE v == IF m + 1 = 1 THEN ss[m + 1] ELSE g[m] \o ss[m + 1]
           h == [i \in 1..(m + 1) |-> IF i = m + 1 THEN v ELSE g[i]]
           k == [i \in 1..(m + 1) |-> IF i = 1 THEN ss[i] ELSE h[i - 1] \o ss[i]]
<1>1. \A i \in 1..m : h[i] = g[i]
  OBVIOUS
<1>2. h[m + 1] = v
  OBVIOUS
<1>3. \A i \in 1..(m + 1) : h[i] = IF i = 1 THEN ss[i] ELSE h[i - 1] \o ss[i]
  <2> HIDE DEF v, h
  <2> TAKE i \in 1..(m + 1)
  <2>1. CASE i \in 1..m
    <3>1. g[i] = IF i = 1 THEN ss[i] ELSE g[i - 1] \o ss[i]
      BY <2>1 DEF Flattens
    <3>2. i # 1 => i - 1 \in 1..m
      BY <2>1
    <3> QED BY <1>1, <2>1, <3>1, <3>2
  <2>2. CASE i = m + 1
    <3>1. i # 1 => m \in 1..m /\ i - 1 = m
      BY <2>2
    <3> QED BY <1>1, <1>2, <2>2, <3>1 DEF v
  <2> QED BY <2>1, <2>2
<1>4. h = k
  <2>1. h = [i \in 1..(m + 1) |-> h[i]]
    OBVIOUS
  <2> HIDE DEF h
  <2>2. \A i \in 1..(m + 1) : k[i] = h[i]
    BY <1>3
  <2>3. k = [i \in 1..(m + 1) |-> k[i]]
    OBVIOUS
  <2> QED BY <2>1, <2>2, <2>3, Zenon
<1> QED BY <1>4 DEF Flattens

\* It exists for every length.
LEMMA FlattensExists ==
  ASSUME NEW ss, NEW m \in Nat
  PROVE  \E g : Flattens(g, ss, m)
<1> DEFINE T == {n \in Nat : \E g : Flattens(g, ss, n)}
<1>1. 0 \in T
  <2>1. Flattens([i \in {} |-> <<>>], ss, 0)
    BY DEF Flattens
  <2> QED BY <2>1
<1>2. \A n \in Nat : n \in T => n + 1 \in T
  BY FlattensStep
<1> HIDE DEF T
<1>3. m \in T
  BY <1>1, <1>2, NatSetInduction
<1> QED BY <1>3 DEF T

\* The recursion has one solution.
LEMMA FlattensUnique ==
  ASSUME NEW ss, NEW tt, NEW m \in Nat, NEW n \in Nat, m <= n,
         \A i \in 1..m : ss[i] = tt[i],
         NEW g, Flattens(g, ss, m), NEW h, Flattens(h, tt, n)
  PROVE  \A i \in 1..m : g[i] = h[i]
<1> DEFINE T == {k \in Nat : k \in 1..m => g[k] = h[k]}
<1>1. 0 \in T
  OBVIOUS
<1>2. ASSUME NEW k \in Nat, k \in T PROVE k + 1 \in T
  <2>1. SUFFICES ASSUME k + 1 \in 1..m PROVE g[k + 1] = h[k + 1]
    OBVIOUS
  <2>2. /\ g[k + 1] = IF k + 1 = 1 THEN ss[k + 1] ELSE g[k] \o ss[k + 1]
        /\ h[k + 1] = IF k + 1 = 1 THEN tt[k + 1] ELSE h[k] \o tt[k + 1]
    <3>1. k + 1 \in 1..n /\ (k + 1) - 1 = k
      BY <2>1
    <3> QED BY <2>1, <3>1 DEF Flattens
  <2>3. k + 1 # 1 => k \in 1..m
    BY <2>1
  <2> QED BY <1>2, <2>1, <2>2, <2>3
<1> HIDE DEF T
<1>3. Nat \subseteq T
  BY <1>1, <1>2, NatSetInduction
<1>4. \A i \in 1..m : i \in Nat
  OBVIOUS
<1> QED BY <1>3, <1>4 DEF T

\* The recursion FlattenSeq chooses.
flattened(ss, m) == CHOOSE g : Flattens(g, ss, m)

\* FlattenSeq is the last value of the recursion.
LEMMA FlattenIs ==
  ASSUME NEW ss, IsSlice(ss)
  PROVE  /\ ss = <<>> => FlattenSeq(ss) = <<>>
         /\ ss # <<>> => FlattenSeq(ss) = flattened(ss, Len(ss))[Len(ss)]
<1>1. ss = <<>> <=> Len(ss) = 0
  BY EmptySlice, EmptyIsOnly
<1>2. CASE ss = <<>>
  BY <1>1, <1>2 DEF FlattenSeq
<1>3. CASE ss # <<>>
  BY <1>1, <1>3 DEF FlattenSeq, flattened, Flattens
<1> QED BY <1>2, <1>3

\* Flattening nothing, and one slice more.
LEMMA FlattenEmpty == FlattenSeq(<<>>) = <<>>
BY FlattenIs, EmptySlice

\* One slice more is appended to what the slices before it make.
LEMMA FlattenStep ==
  ASSUME NEW ss, NEW k \in Nat, \A i \in 1..(k + 1) : IsSlice(ss[i])
  PROVE  FlattenSeq(prefix(ss, k + 1)) = FlattenSeq(prefix(ss, k)) \o ss[k + 1]
<1> DEFINE p == prefix(ss, k + 1)
           q == prefix(ss, k)
           g == flattened(p, k + 1)
           h == flattened(q, k)
<1>0. k + 1 \in Nat
  OBVIOUS
<1>1. Flattens(g, p, k + 1) /\ Flattens(h, q, k)
  BY <1>0, FlattensExists DEF flattened
<1>2. /\ IsSlice(p) /\ Len(p) = k + 1 /\ \A i \in 1..(k + 1) : p[i] = ss[i]
      /\ IsSlice(q) /\ Len(q) = k /\ \A i \in 1..k : q[i] = ss[i]
  BY <1>0, PrefixFacts
<1>3. p # <<>> /\ (k # 0 => q # <<>>) /\ (k = 0 => q = <<>>)
  BY <1>2, EmptySlice, EmptyIsOnly, PrefixEmpty
<1>4. FlattenSeq(p) = g[k + 1] /\ (k # 0 => FlattenSeq(q) = h[k]) /\ (k = 0 => FlattenSeq(q) = <<>>)
  BY <1>2, <1>3, FlattenIs
<1> HIDE DEF g, h, p, q
<1>5. g[k + 1] = IF k + 1 = 1 THEN p[k + 1] ELSE g[(k + 1) - 1] \o p[k + 1]
  <2>1. k + 1 \in 1..(k + 1)
    OBVIOUS
  <2>2. \A i \in 1..(k + 1) : g[i] = IF i = 1 THEN p[i] ELSE g[i - 1] \o p[i]
    BY <1>1 DEF Flattens
  <2> QED BY <2>1, <2>2, Zenon
<1>6. k # 0 => g[k] = h[k]
  <2>1. \A i \in 1..k : q[i] = p[i]
    BY <1>2
  <2>2. \A i \in 1..k : h[i] = g[i]
    BY <1>0, <1>1, <2>1, FlattensUnique
  <2> QED BY <2>2
<1>7. p[k + 1] = ss[k + 1]
  BY <1>2
<1>8. CASE k = 0
  <2>1. FlattenSeq(p) = ss[k + 1]
    BY <1>4, <1>5, <1>7, <1>8
  <2>2. <<>> \o ss[k + 1] = ss[k + 1]
    BY JoinEmpty
  <2> QED BY <1>4, <1>8, <2>1, <2>2 DEF p, q
<1>9. CASE k # 0
  <2>1. k + 1 # 1 /\ (k + 1) - 1 = k
    BY <1>9
  <2>2. FlattenSeq(p) = h[k] \o ss[k + 1]
    BY <1>4, <1>5, <1>6, <1>7, <1>9, <2>1
  <2> QED BY <1>4, <1>9, <2>2 DEF p, q
<1> QED BY <1>8, <1>9

\* A flattened slice of slices is a slice of their elements.
LEMMA FlattenFacts ==
  ASSUME NEW ss, IsSlice(ss), \A i \in DOMAIN ss : IsSlice(ss[i])
  PROVE  /\ IsSlice(FlattenSeq(ss))
         /\ \A n \in DOMAIN FlattenSeq(ss) :
              \E i \in DOMAIN ss : \E j \in DOMAIN ss[i] : FlattenSeq(ss)[n] = ss[i][j]
         /\ \A i \in DOMAIN ss : \A j \in DOMAIN ss[i] :
              \E n \in DOMAIN FlattenSeq(ss) : FlattenSeq(ss)[n] = ss[i][j]
<1> DEFINE F(k) == FlattenSeq(prefix(ss, k))
           In(k) == \A n \in DOMAIN F(k) :
                      \E i \in 1..k : \E j \in DOMAIN ss[i] : F(k)[n] = ss[i][j]
           All(k) == \A i \in 1..k : \A j \in DOMAIN ss[i] :
                       \E n \in DOMAIN F(k) : F(k)[n] = ss[i][j]
           T == {k \in Nat : k <= Len(ss) => IsSlice(F(k)) /\ In(k) /\ All(k)}
<1>1. Len(ss) \in Nat /\ DOMAIN ss = 1..Len(ss)
  BY SliceFacts
<1>2. 0 \in T
  <2>1. F(0) = <<>>
    BY PrefixEmpty, FlattenEmpty
  <2> QED BY <2>1, EmptySlice
<1>3. ASSUME NEW k \in Nat, k \in T PROVE k + 1 \in T
  <2>1. SUFFICES ASSUME k + 1 <= Len(ss) PROVE IsSlice(F(k + 1)) /\ In(k + 1) /\ All(k + 1)
    OBVIOUS
  <2>2. IsSlice(F(k)) /\ In(k) /\ All(k)
    BY <1>1, <1>3, <2>1
  <2>3. \A i \in 1..(k + 1) : IsSlice(ss[i])
    BY <1>1, <2>1
  <2> DEFINE a == F(k)
             b == ss[k + 1]
             c == F(k + 1)
  <2>4. c = a \o b
    BY <2>3, FlattenStep
  <2>5. IsSlice(b)
    BY <2>3
  <2>6. In(k) /\ All(k) /\ IsSlice(a)
    BY <2>2
  <2>7. /\ IsSlice(c)
        /\ \A i \in DOMAIN a : i \in DOMAIN c /\ c[i] = a[i]
        /\ \A i \in DOMAIN b : i + Len(a) \in DOMAIN c /\ c[i + Len(a)] = b[i]
        /\ \A j \in DOMAIN c : j \in DOMAIN a \/ (j - Len(a) \in DOMAIN b /\ (j - Len(a)) + Len(a) = j)
    <3> HIDE DEF a, b, c
    <3>1. /\ IsSlice(a \o b)
          /\ \A i \in DOMAIN a : i \in DOMAIN (a \o b) /\ (a \o b)[i] = a[i]
          /\ \A i \in DOMAIN b : i + Len(a) \in DOMAIN (a \o b) /\ (a \o b)[i + Len(a)] = b[i]
          /\ \A j \in DOMAIN (a \o b) :
               j \in DOMAIN a \/ (j - Len(a) \in DOMAIN b /\ (j - Len(a)) + Len(a) = j)
      <4>1. IsSlice(a) /\ IsSlice(b)
        BY <2>5, <2>6
      <4>2. IsSlice(a \o b)
        BY <4>1, JoinSlices
      <4>3. \A i \in DOMAIN a : i \in DOMAIN (a \o b) /\ (a \o b)[i] = a[i]
        BY <4>1, JoinParts
      <4>4. \A i \in DOMAIN b : i + Len(a) \in DOMAIN (a \o b) /\ (a \o b)[i + Len(a)] = b[i]
        BY <4>1, JoinParts
      <4>5. \A j \in DOMAIN (a \o b) :
               j \in DOMAIN a \/ (j - Len(a) \in DOMAIN b /\ (j - Len(a)) + Len(a) = j)
        BY <4>1, JoinParts
      <4> QED BY <4>2, <4>3, <4>4, <4>5
    <3> QED BY <2>4, <3>1
  <2> HIDE DEF F
  <2>8. ASSUME NEW n \in DOMAIN c
        PROVE  \E i \in 1..(k + 1) : \E j \in DOMAIN ss[i] : c[n] = ss[i][j]
    <3>1. CASE n \in DOMAIN a
      <4>1. PICK i \in 1..k : \E j \in DOMAIN ss[i] : a[n] = ss[i][j]
        BY <2>6, <3>1
      <4>2. i \in 1..(k + 1)
        OBVIOUS
      <4> QED BY <2>7, <3>1, <4>1, <4>2
    <3>2. CASE n - Len(a) \in DOMAIN b /\ (n - Len(a)) + Len(a) = n
      <4>1. c[n] = b[n - Len(a)]
        BY <2>7, <3>2
      <4>2. k + 1 \in 1..(k + 1)
        OBVIOUS
      <4> QED BY <3>2, <4>1, <4>2
    <3> QED BY <2>7, <3>1, <3>2
  <2>9. ASSUME NEW i \in 1..(k + 1), NEW j \in DOMAIN ss[i]
        PROVE  \E n \in DOMAIN c : c[n] = ss[i][j]
    <3>1. CASE i \in 1..k
      <4>1. PICK n \in DOMAIN a : a[n] = ss[i][j]
        BY <2>6, <3>1
      <4> QED BY <2>7, <4>1
    <3>2. CASE i = k + 1
      BY <2>7, <3>2
    <3> QED BY <3>1, <3>2
  <2> QED BY <2>7, <2>8, <2>9
<1> HIDE DEF T
<1>4. Len(ss) \in T
  BY <1>1, <1>2, <1>3, NatSetInduction
<1>5. IsSlice(F(Len(ss))) /\ In(Len(ss)) /\ All(Len(ss))
  BY <1>1, <1>4 DEF T
<1> QED BY <1>1, <1>5, PrefixOfAll

-----------------------------------------------------------------------------
(* Maps written one after another. *)

\* Of the maps that have a key there is a last one.
LEMMA LastWithFacts ==
  ASSUME NEW fs, IsSlice(fs), NEW l, \E i \in DOMAIN fs : l \in DOMAIN fs[i]
  PROVE  /\ lastWith(fs, l) \in DOMAIN fs /\ l \in DOMAIN fs[lastWith(fs, l)]
         /\ \A j \in DOMAIN fs : l \in DOMAIN fs[j] => j <= lastWith(fs, l)
<1> DEFINE at == {i \in DOMAIN fs : l \in DOMAIN fs[i]}
<1>1. Len(fs) \in Nat /\ at \subseteq 1..Len(fs) /\ at # {}
  BY SliceFacts
<1>2. \E i \in at : \A j \in at : j <= i
  BY <1>1, GreatestIndex
<1>3. lastWith(fs, l) \in at /\ \A j \in at : j <= lastWith(fs, l)
  BY <1>2 DEF lastWith
<1> QED BY <1>3

\* A key is written when some map has it.
LEMMA LaterWinsDomain ==
  ASSUME NEW fs, NEW l
  PROVE  l \in DOMAIN laterWins(fs) <=> \E i \in DOMAIN fs : l \in DOMAIN fs[i]
BY DEF laterWins

\* The value is the one of the last map that has the key.
LEMMA LaterWinsIs ==
  ASSUME NEW fs, IsSlice(fs), NEW k \in DOMAIN fs, NEW l \in DOMAIN fs[k],
         \A j \in DOMAIN fs : j > k => l \notin DOMAIN fs[j]
  PROVE  l \in DOMAIN laterWins(fs) /\ laterWins(fs)[l] = fs[k][l]
<1> DEFINE i == lastWith(fs, l)
<1>1. i \in DOMAIN fs /\ l \in DOMAIN fs[i] /\ k <= i
  BY LastWithFacts
<1>2. i \in Int /\ k \in Int
  BY <1>1, SliceFacts
<1>3. i = k
  BY <1>1, <1>2
<1>4. l \in DOMAIN laterWins(fs) /\ laterWins(fs)[l] = fs[i][l]
  BY DEF laterWins
<1> QED BY <1>3, <1>4

\* A key that is written has the value of a map after which none has it.
LEMMA LaterWinsFrom ==
  ASSUME NEW fs, IsSlice(fs), NEW l \in DOMAIN laterWins(fs)
  PROVE  \E k \in DOMAIN fs :
           /\ l \in DOMAIN fs[k] /\ laterWins(fs)[l] = fs[k][l]
           /\ \A j \in DOMAIN fs : j > k => l \notin DOMAIN fs[j]
<1> DEFINE i == lastWith(fs, l)
<1>1. /\ i \in DOMAIN fs /\ l \in DOMAIN fs[i]
      /\ \A j \in DOMAIN fs : l \in DOMAIN fs[j] => j <= i
  BY LaterWinsDomain, LastWithFacts
<1>2. \A j \in DOMAIN fs : j \in Int
  BY SliceFacts
<1>3. laterWins(fs)[l] = fs[i][l]
  BY LaterWinsDomain DEF laterWins
<1> HIDE DEF i
<1>4. \A j \in DOMAIN fs : j > i => l \notin DOMAIN fs[j]
  BY <1>1, <1>2
<1> QED BY <1>1, <1>3, <1>4

\* The maps written one after another are a map.
LEMMA LaterWinsIsFunction ==
  ASSUME NEW fs
  PROVE  laterWins(fs) = [l \in DOMAIN laterWins(fs) |-> laterWins(fs)[l]]
BY DEF laterWins

\* The keys and values of a map written into another.
LEMMA OverFacts ==
  ASSUME NEW f, NEW g
  PROVE  /\ DOMAIN over(f, g) = DOMAIN f \cup DOMAIN g
         /\ over(f, g) = [l \in DOMAIN over(f, g) |-> over(f, g)[l]]
         /\ \A l \in DOMAIN over(f, g) :
              over(f, g)[l] = IF l \in DOMAIN f THEN f[l] ELSE g[l]
BY DEF over

\* A key of the map written last has its value.
LEMMA OverWins ==
  ASSUME NEW f, NEW g, NEW l \in DOMAIN f
  PROVE  l \in DOMAIN over(f, g) /\ over(f, g)[l] = f[l]
BY DEF over

\* Maps with the same keys and values are equal.
LEMMA SameMap ==
  ASSUME NEW f, NEW g, f = [l \in DOMAIN f |-> f[l]], g = [l \in DOMAIN g |-> g[l]],
         DOMAIN f = DOMAIN g, \A l \in DOMAIN f : f[l] = g[l]
  PROVE  f = g
<1> DEFINE D == DOMAIN f
<1>1. f = [l \in D |-> f[l]] /\ g = [l \in D |-> g[l]] /\ \A l \in D : f[l] = g[l]
  OBVIOUS
<1> HIDE DEF D
<1> QED BY <1>1

\* What one list of maps leaves, and then another.
LEMMA LaterWinsJoin ==
  ASSUME NEW a, IsSlice(a), NEW b, IsSlice(b)
  PROVE  laterWins(a \o b) = over(laterWins(b), laterWins(a))
<1> DEFINE c == a \o b
           v == over(laterWins(b), laterWins(a))
<1>1. IsSlice(c) /\ DOMAIN c = 1..(Len(a) + Len(b))
  BY JoinSlices
<1>2. Len(a) \in Nat /\ DOMAIN a = 1..Len(a) /\ Len(b) \in Nat /\ DOMAIN b = 1..Len(b)
  BY SliceFacts
<1>3. \A i \in DOMAIN a : i \in DOMAIN c /\ c[i] = a[i]
  BY JoinParts
<1>4. \A i \in DOMAIN b : i + Len(a) \in DOMAIN c /\ c[i + Len(a)] = b[i]
  BY JoinParts
<1>5. \A j \in DOMAIN c : j \in DOMAIN a \/ (j - Len(a) \in DOMAIN b /\ (j - Len(a)) + Len(a) = j)
  BY JoinParts
<1> HIDE DEF c
<1>6. ASSUME NEW l
      PROVE  /\ l \in DOMAIN laterWins(b) => l \in DOMAIN laterWins(c) /\ laterWins(c)[l] = laterWins(b)[l]
             /\ l \in DOMAIN laterWins(a) /\ l \notin DOMAIN laterWins(b) =>
                  l \in DOMAIN laterWins(c) /\ laterWins(c)[l] = laterWins(a)[l]
             /\ l \in DOMAIN laterWins(c) => l \in DOMAIN laterWins(b) \/ l \in DOMAIN laterWins(a)
  <2>1. CASE l \in DOMAIN laterWins(b)
    <3>1. PICK k \in DOMAIN b : /\ l \in DOMAIN b[k] /\ laterWins(b)[l] = b[k][l]
                                /\ \A j \in DOMAIN b : j > k => l \notin DOMAIN b[j]
      BY <2>1, LaterWinsFrom
    <3>2. k + Len(a) \in DOMAIN c /\ c[k + Len(a)] = b[k]
      BY <1>4
    <3>3. ASSUME NEW j \in DOMAIN c, j > k + Len(a) PROVE l \notin DOMAIN c[j]
      <4>1. j - Len(a) \in DOMAIN b /\ j - Len(a) > k /\ (j - Len(a)) + Len(a) = j
        BY <1>1, <1>2, <3>3
      <4>2. c[j] = b[j - Len(a)]
        BY <1>4, <4>1
      <4> QED BY <3>1, <4>1, <4>2
    <3>4. l \in DOMAIN laterWins(c) /\ laterWins(c)[l] = c[k + Len(a)][l]
      <4> DEFINE m == k + Len(a)
      <4>1. m \in DOMAIN c /\ l \in DOMAIN c[m] /\ \A j \in DOMAIN c : j > m => l \notin DOMAIN c[j]
        BY <3>1, <3>2, <3>3
      <4> HIDE DEF m
      <4>2. l \in DOMAIN laterWins(c) /\ laterWins(c)[l] = c[m][l]
        BY <1>1, <4>1, LaterWinsIs
      <4> QED BY <4>2 DEF m
    <3> QED BY <2>1, <3>1, <3>2, <3>4
  <2>2. CASE l \in DOMAIN laterWins(a) /\ l \notin DOMAIN laterWins(b)
    <3>1. PICK k \in DOMAIN a : /\ l \in DOMAIN a[k] /\ laterWins(a)[l] = a[k][l]
                                /\ \A j \in DOMAIN a : j > k => l \notin DOMAIN a[j]
      BY <2>2, LaterWinsFrom
    <3>2. k \in DOMAIN c /\ c[k] = a[k]
      BY <1>3
    <3>3. ASSUME NEW j \in DOMAIN c, j > k PROVE l \notin DOMAIN c[j]
      <4>1. CASE j \in DOMAIN a
        BY <1>3, <3>1, <3>3, <4>1
      <4>2. CASE j - Len(a) \in DOMAIN b /\ (j - Len(a)) + Len(a) = j
        <5>1. c[j] = b[j - Len(a)]
          BY <1>4, <4>2
        <5> QED BY <2>2, <4>2, <5>1, LaterWinsDomain
      <4> QED BY <1>5, <4>1, <4>2
    <3>4. l \in DOMAIN laterWins(c) /\ laterWins(c)[l] = c[k][l]
      <4>1. k \in DOMAIN c /\ l \in DOMAIN c[k] /\ \A j \in DOMAIN c : j > k => l \notin DOMAIN c[j]
        BY <3>1, <3>2, <3>3
      <4> QED BY <1>1, <4>1, LaterWinsIs
    <3> QED BY <2>2, <3>1, <3>2, <3>4
  <2>3. CASE l \notin DOMAIN laterWins(a) /\ l \notin DOMAIN laterWins(b)
    <3>1. ASSUME NEW j \in DOMAIN c PROVE l \notin DOMAIN c[j]
      <4>1. CASE j \in DOMAIN a
        BY <1>3, <2>3, <4>1, LaterWinsDomain
      <4>2. CASE j - Len(a) \in DOMAIN b /\ (j - Len(a)) + Len(a) = j
        <5>1. c[j] = b[j - Len(a)]
          BY <1>4, <4>2
        <5> QED BY <2>3, <4>2, <5>1, LaterWinsDomain
      <4> QED BY <1>5, <4>1, <4>2
    <3> QED BY <2>3, <3>1, LaterWinsDomain
  <2> QED BY <2>1, <2>2, <2>3
<1>7. DOMAIN laterWins(c) = DOMAIN v /\ \A l \in DOMAIN v : laterWins(c)[l] = v[l]
  <2>1. /\ DOMAIN v = DOMAIN laterWins(b) \cup DOMAIN laterWins(a)
        /\ \A l \in DOMAIN v : v[l] = IF l \in DOMAIN laterWins(b) THEN laterWins(b)[l] ELSE laterWins(a)[l]
    BY DEF over
  <2> HIDE DEF v
  <2>2. \A l : l \in DOMAIN laterWins(c) <=> l \in DOMAIN v
    BY <1>6, <2>1
  <2>3. \A l \in DOMAIN v : laterWins(c)[l] = v[l]
    BY <1>6, <2>1
  <2>4. DOMAIN laterWins(c) = DOMAIN v
    BY <2>2
  <2> QED BY <2>3, <2>4
<1>8. laterWins(c) = v
  <2>1. laterWins(c) = [l \in DOMAIN laterWins(c) |-> laterWins(c)[l]]
    BY LaterWinsIsFunction
  <2>2. v = [l \in DOMAIN v |-> v[l]]
    BY OverFacts
  <2> HIDE DEF v
  <2> QED BY <1>7, <2>1, <2>2, SameMap
<1> QED BY <1>8 DEF c

\* No map writes no key.
LEMMA LaterWinsEmpty == DOMAIN laterWins(<<>>) = {}
BY EmptySlice, LaterWinsDomain

\* One map alone.
LEMMA LaterWinsOne ==
  ASSUME NEW f, f = [l \in DOMAIN f |-> f[l]]
  PROVE  laterWins(<<f>>) = f
<1> DEFINE s == <<f>>
<1>1. IsSlice(s) /\ DOMAIN s = {1} /\ s[1] = f
  BY OneSlice
<1> HIDE DEF s
<1>2. ASSUME NEW l \in DOMAIN f PROVE l \in DOMAIN laterWins(s) /\ laterWins(s)[l] = f[l]
  BY <1>1, LaterWinsIs
<1>3. \A l \in DOMAIN laterWins(s) : l \in DOMAIN f
  BY <1>1, LaterWinsDomain
<1>4. DOMAIN laterWins(s) = DOMAIN f
  BY <1>2, <1>3
<1>5. laterWins(s) = [l \in DOMAIN laterWins(s) |-> laterWins(s)[l]]
  BY LaterWinsIsFunction
<1>6. laterWins(s) = f
  BY <1>2, <1>4, <1>5, SameMap
<1> QED BY <1>6 DEF s

\* Every prefix of a slice of slices flattens to a slice.
LEMMA FlattenedSlice ==
  ASSUME NEW ss, IsSlice(ss), \A i \in DOMAIN ss : IsSlice(ss[i]), NEW k \in Nat, k <= Len(ss)
  PROVE  IsSlice(FlattenSeq(prefix(ss, k)))
<1> DEFINE p == prefix(ss, k)
<1>1. /\ IsSlice(p) /\ DOMAIN p = 1..k /\ \A i \in 1..k : p[i] = ss[i]
      /\ Len(ss) \in Nat /\ DOMAIN ss = 1..Len(ss)
  BY PrefixFacts, SliceFacts
<1> HIDE DEF p
<1>2. \A i \in DOMAIN p : IsSlice(p[i])
  BY <1>1
<1>3. IsSlice(FlattenSeq(p))
  BY <1>1, <1>2, FlattenFacts
<1> QED BY <1>3 DEF p

\* Maps written group by group.
LEMMA LaterWinsFlatten ==
  ASSUME NEW ss, IsSlice(ss), \A i \in DOMAIN ss : IsSlice(ss[i])
  PROVE  laterWins(FlattenSeq(ss)) = laterWins([i \in DOMAIN ss |-> laterWins(ss[i])])
<1> DEFINE ws == [i \in DOMAIN ss |-> laterWins(ss[i])]
           F(k) == FlattenSeq(prefix(ss, k))
           T == {k \in Nat : k <= Len(ss) => laterWins(F(k)) = laterWins(prefix(ws, k))}
<1>1. Len(ss) \in Nat /\ DOMAIN ss = 1..Len(ss)
  BY SliceFacts
<1>2. IsSlice(ws) /\ Len(ws) = Len(ss) /\ \A i \in DOMAIN ss : ws[i] = laterWins(ss[i])
  BY MapSlice
<1> HIDE DEF ws
<1>3. 0 \in T
  <2>1. F(0) = <<>> /\ prefix(ws, 0) = <<>>
    BY PrefixEmpty, FlattenEmpty
  <2> QED BY <2>1
<1>4. ASSUME NEW k \in Nat, k \in T PROVE k + 1 \in T
  <2>1. SUFFICES ASSUME k + 1 <= Len(ss) PROVE laterWins(F(k + 1)) = laterWins(prefix(ws, k + 1))
    OBVIOUS
  <2>2. laterWins(F(k)) = laterWins(prefix(ws, k))
    BY <1>1, <1>4, <2>1
  <2>3. k <= Len(ss) /\ k + 1 \in DOMAIN ss /\ \A i \in 1..(k + 1) : IsSlice(ss[i])
    BY <1>1, <2>1
  <2>4. F(k + 1) = F(k) \o ss[k + 1] /\ IsSlice(F(k))
    BY <2>3, FlattenStep, FlattenedSlice
  <2>5. laterWins(F(k + 1)) = over(laterWins(ss[k + 1]), laterWins(F(k)))
    BY <2>3, <2>4, LaterWinsJoin
  <2>6. prefix(ws, k + 1) = prefix(ws, k) \o <<ws[k + 1]>> /\ IsSlice(prefix(ws, k))
        /\ IsSlice(<<ws[k + 1]>>)
    BY PrefixStep, PrefixFacts, OneSlice
  <2>7. laterWins(prefix(ws, k + 1)) = over(laterWins(<<ws[k + 1]>>), laterWins(prefix(ws, k)))
    BY <2>6, LaterWinsJoin
  <2>8. ws[k + 1] = laterWins(ss[k + 1])
    BY <1>2, <2>3
  <2>9. laterWins(<<laterWins(ss[k + 1])>>) = laterWins(ss[k + 1])
    BY LaterWinsIsFunction, LaterWinsOne
  <2> HIDE DEF F
  <2> QED BY <2>2, <2>5, <2>7, <2>8, <2>9
<1> HIDE DEF T
<1>5. Len(ss) \in T
  BY <1>1, <1>3, <1>4, NatSetInduction
<1>6. laterWins(F(Len(ss))) = laterWins(prefix(ws, Len(ss)))
  BY <1>1, <1>5 DEF T
<1>7. laterWins(FlattenSeq(ss)) = laterWins(ws)
  BY <1>2, <1>6, PrefixOfAll
<1> QED BY <1>7 DEF ws

\* A map over a flattened slice.
LEMMA MapFlatten ==
  ASSUME NEW ss, IsSlice(ss), \A i \in DOMAIN ss : IsSlice(ss[i]), NEW e
  PROVE  [n \in DOMAIN FlattenSeq(ss) |-> e[FlattenSeq(ss)[n]]]
           = FlattenSeq([i \in DOMAIN ss |-> [j \in DOMAIN ss[i] |-> e[ss[i][j]]]])
<1> DEFINE ms == [i \in DOMAIN ss |-> [j \in DOMAIN ss[i] |-> e[ss[i][j]]]]
           F(k) == FlattenSeq(prefix(ss, k))
           G(k) == FlattenSeq(prefix(ms, k))
           T == {k \in Nat : k <= Len(ss) =>
                   DOMAIN G(k) = DOMAIN F(k) /\ \A n \in DOMAIN F(k) : G(k)[n] = e[F(k)[n]]}
<1>1. Len(ss) \in Nat /\ DOMAIN ss = 1..Len(ss)
  BY SliceFacts
<1>2. IsSlice(ms) /\ Len(ms) = Len(ss) /\ DOMAIN ms = DOMAIN ss
  BY MapSlice
<1>3. ASSUME NEW i \in DOMAIN ss
      PROVE  /\ IsSlice(ms[i]) /\ DOMAIN ms[i] = DOMAIN ss[i] /\ Len(ms[i]) = Len(ss[i])
             /\ \A j \in DOMAIN ss[i] : ms[i][j] = e[ss[i][j]]
  <2> DEFINE m == [j \in DOMAIN ss[i] |-> e[ss[i][j]]]
  <2>1. ms[i] = m
    OBVIOUS
  <2>2. DOMAIN m = DOMAIN ss[i] /\ m = [j \in DOMAIN m |-> m[j]] /\ \A j \in DOMAIN ss[i] : m[j] = e[ss[i][j]]
    OBVIOUS
  <2> HIDE DEF m, ms
  <2>3. IsSlice(m) /\ Len(m) = Len(ss[i])
    BY <2>2, MapSlice
  <2> QED BY <2>1, <2>2, <2>3
<1> HIDE DEF ms
<1>4. 0 \in T
  <2>1. F(0) = <<>> /\ G(0) = <<>>
    BY PrefixEmpty, FlattenEmpty
  <2> QED BY <2>1, EmptySlice
<1>5. ASSUME NEW k \in Nat, k \in T PROVE k + 1 \in T
  <2> DEFINE a == F(k)
             b == ss[k + 1]
             c == F(k + 1)
             x == G(k)
             y == ms[k + 1]
             z == G(k + 1)
  <2>1. SUFFICES ASSUME k + 1 <= Len(ss)
                 PROVE  DOMAIN z = DOMAIN c /\ \A n \in DOMAIN c : z[n] = e[c[n]]
    OBVIOUS
  <2>2. DOMAIN x = DOMAIN a /\ \A n \in DOMAIN a : x[n] = e[a[n]]
    BY <1>1, <1>5, <2>1
  <2>3. k <= Len(ss) /\ k + 1 \in DOMAIN ss /\ \A i \in 1..(k + 1) : IsSlice(ss[i]) /\ IsSlice(ms[i])
    BY <1>1, <1>3, <2>1
  <2>4. c = a \o b /\ IsSlice(a) /\ IsSlice(b)
    BY <2>3, FlattenStep, FlattenedSlice
  <2>5. z = x \o y /\ IsSlice(x) /\ IsSlice(y)
    BY <1>2, <1>3, <2>3, FlattenStep, FlattenedSlice
  <2>6. DOMAIN y = DOMAIN b /\ Len(y) = Len(b) /\ \A j \in DOMAIN b : y[j] = e[b[j]]
    BY <1>3, <2>3
  <2> HIDE DEF a, b, c, x, y, z
  <2>7. Len(x) = Len(a)
    BY <2>2, <2>4, <2>5, SliceFacts, SliceIntro
  <2>8. DOMAIN (a \o b) = 1..(Len(a) + Len(b)) /\ DOMAIN (x \o y) = 1..(Len(a) + Len(b))
    BY <2>4, <2>5, <2>6, <2>7, JoinSlices
  <2>9. \A i \in DOMAIN a : (a \o b)[i] = a[i] /\ (x \o y)[i] = e[a[i]]
    BY <2>2, <2>4, <2>5, JoinParts
  <2>10. \A i \in DOMAIN b : (a \o b)[i + Len(a)] = b[i] /\ (x \o y)[i + Len(a)] = e[b[i]]
    BY <2>4, <2>5, <2>6, <2>7, JoinParts
  <2>11. \A n \in DOMAIN (a \o b) : n \in DOMAIN a \/ (n - Len(a) \in DOMAIN b /\ (n - Len(a)) + Len(a) = n)
    BY <2>4, JoinParts
  <2>12. ASSUME NEW n \in DOMAIN (a \o b) PROVE (x \o y)[n] = e[(a \o b)[n]]
    <3>1. CASE n \in DOMAIN a
      BY <2>9, <3>1
    <3>2. CASE n - Len(a) \in DOMAIN b /\ (n - Len(a)) + Len(a) = n
      BY <2>10, <3>2
    <3> QED BY <2>11, <3>1, <3>2
  <2> QED BY <2>4, <2>5, <2>8, <2>12
<1> HIDE DEF T
<1>6. Len(ss) \in T
  BY <1>1, <1>4, <1>5, NatSetInduction
<1> DEFINE f == FlattenSeq(ss)
           g == FlattenSeq(ms)
<1>7. DOMAIN g = DOMAIN f /\ \A n \in DOMAIN f : g[n] = e[f[n]]
  <2>1. DOMAIN G(Len(ss)) = DOMAIN F(Len(ss)) /\ \A n \in DOMAIN F(Len(ss)) : G(Len(ss))[n] = e[F(Len(ss))[n]]
    BY <1>1, <1>6 DEF T
  <2> QED BY <1>2, <2>1, PrefixOfAll
<1>8. IsSlice(g)
  BY <1>2, <1>3, FlattenFacts
<1> HIDE DEF f, g
<1>9. g = [n \in DOMAIN f |-> e[f[n]]]
  <2>1. g = [n \in DOMAIN g |-> g[n]]
    BY <1>8, SliceFacts
  <2> QED BY <1>7, <2>1
<1> QED BY <1>9 DEF f, g, ms

\* SetToSeq lists a finite set.
LEMMA SetToSeqFacts ==
  ASSUME NEW S, IsFiniteSet(S)
  PROVE  /\ IsSlice(SetToSeq(S))
         /\ \A i \in DOMAIN SetToSeq(S) : SetToSeq(S)[i] \in S
         /\ \A x \in S : \E i \in DOMAIN SetToSeq(S) : SetToSeq(S)[i] = x
<1> DEFINE n == Cardinality(S)
           s == SetToSeq(S)
<1>1. n \in Nat /\ ExistsBijection(1..n, S)
  BY FS_CardinalityType
<1>2. PICK f \in Bijection(1..n, S) : TRUE
  BY <1>1 DEF ExistsBijection
<1>3. f \in [1..n -> S] /\ IsInjective(f)
  BY <1>2 DEF Bijection, Injection, IsInjective
<1>4. s \in [1..n -> S] /\ IsInjective(s)
  BY <1>3 DEF SetToSeq
<1> HIDE DEF s, n
<1>5. IsFiniteSet(1..n) /\ Cardinality(1..n) = n
  <2>1. 0 \in Int /\ 1 \in Int /\ n \in Int
    BY <1>1
  <2>2. IsFiniteSet(1..n) /\ Cardinality(1..n) = IF 1 > n THEN 0 ELSE n - 1 + 1
    BY <2>1, FS_Interval
  <2> QED BY <1>1, <2>2
<1>6. s \in Injection(1..n, S)
  BY <1>4 DEF Injection, IsInjective
<1>7. s \in Surjection(1..n, S)
  BY <1>5, <1>6, FS_Injection DEF n
<1>8. \A x \in S : \E i \in 1..n : s[i] = x
  BY <1>7 DEF Surjection
<1>9. DOMAIN s = 1..n /\ s = [i \in DOMAIN s |-> s[i]]
  BY <1>4
<1>10. IsSlice(s)
  BY <1>1, <1>9, SliceIntro
<1> QED BY <1>4, <1>8, <1>9, <1>10 DEF s

\* The image of a finite set is finite.
LEMMA FiniteImage ==
  ASSUME NEW S, IsFiniteSet(S), NEW f
  PROVE  IsFiniteSet({f[x] : x \in S})
<1> DEFINE T == {f[x] : x \in S}
           g == [x \in S |-> f[x]]
<1>1. g \in Surjection(S, T)
  BY DEF Surjection
<1> HIDE DEF g, T
<1>2. IsFiniteSet(T)
  BY <1>1, FS_Surjection
<1> QED BY <1>2 DEF T

\* Two lists of maps with different keys, written alternately.
LEMMA LaterWinsApart ==
  ASSUME NEW a, IsSlice(a), NEW b, IsSlice(b), DOMAIN a = DOMAIN b,
         \A i, j \in DOMAIN a : DOMAIN a[i] \cap DOMAIN b[j] = {}
  PROVE  laterWins([i \in DOMAIN a |-> over(a[i], b[i])]) = over(laterWins(a), laterWins(b))
<1> DEFINE c == [i \in DOMAIN a |-> over(a[i], b[i])]
           u == laterWins(c)
           v == over(laterWins(a), laterWins(b))
<1>1. DOMAIN c = DOMAIN a /\ c = [i \in DOMAIN c |-> c[i]]
      /\ \A i \in DOMAIN a : c[i] = over(a[i], b[i])
  OBVIOUS
<1>2. IsSlice(c)
  BY <1>1, MapSlice
<1>3. \A i \in DOMAIN a : /\ DOMAIN c[i] = DOMAIN a[i] \cup DOMAIN b[i]
                          /\ \A l \in DOMAIN a[i] : c[i][l] = a[i][l]
                          /\ \A l \in DOMAIN b[i] : c[i][l] = b[i][l]
  BY <1>1 DEF over
<1> HIDE DEF c
<1>4. \A l : l \in DOMAIN u <=> \E i \in DOMAIN c : l \in DOMAIN c[i]
  BY LaterWinsDomain
<1>5. \A l : l \in DOMAIN laterWins(a) <=> \E i \in DOMAIN a : l \in DOMAIN a[i]
  BY LaterWinsDomain
<1>6. \A l : l \in DOMAIN laterWins(b) <=> \E i \in DOMAIN b : l \in DOMAIN b[i]
  BY LaterWinsDomain
<1>7. /\ DOMAIN v = DOMAIN laterWins(a) \cup DOMAIN laterWins(b)
      /\ \A l \in DOMAIN laterWins(a) : v[l] = laterWins(a)[l]
      /\ \A l \in DOMAIN laterWins(b) : l \notin DOMAIN laterWins(a) => v[l] = laterWins(b)[l]
      /\ v = [l \in DOMAIN v |-> v[l]]
  BY DEF over
<1>8. u = [l \in DOMAIN u |-> u[l]]
  BY LaterWinsIsFunction
<1> HIDE DEF u, v
<1>9. DOMAIN u = DOMAIN v
  <2>1. ASSUME NEW l \in DOMAIN u PROVE l \in DOMAIN v
    BY <1>1, <1>3, <1>4, <1>5, <1>6, <1>7
  <2>2. ASSUME NEW l \in DOMAIN v PROVE l \in DOMAIN u
    BY <1>1, <1>3, <1>4, <1>5, <1>6, <1>7
  <2> QED BY <2>1, <2>2
<1>10. ASSUME NEW l \in DOMAIN u PROVE u[l] = v[l]
  <2>1. PICK k \in DOMAIN c : /\ l \in DOMAIN c[k] /\ u[l] = c[k][l]
                              /\ \A j \in DOMAIN c : j > k => l \notin DOMAIN c[j]
    BY <1>2, LaterWinsFrom DEF u
  <2>2. CASE l \in DOMAIN a[k]
    <3>1. k \in DOMAIN a /\ \A j \in DOMAIN a : j > k => l \notin DOMAIN a[j]
      BY <1>1, <1>3, <2>1
    <3>2. l \in DOMAIN laterWins(a) /\ laterWins(a)[l] = a[k][l]
      BY <2>2, <3>1, LaterWinsIs
    <3> QED BY <1>1, <1>3, <1>7, <2>1, <2>2, <3>2
  <2>3. CASE l \in DOMAIN b[k]
    <3>1. k \in DOMAIN b /\ \A j \in DOMAIN b : j > k => l \notin DOMAIN b[j]
      BY <1>1, <1>3, <2>1
    <3>2. l \in DOMAIN laterWins(b) /\ laterWins(b)[l] = b[k][l]
      BY <2>3, <3>1, LaterWinsIs
    <3>3. l \notin DOMAIN laterWins(a)
      BY <1>1, <1>5, <2>1, <2>3
    <3> QED BY <1>1, <1>3, <1>7, <2>1, <2>3, <3>2, <3>3
  <2> QED BY <1>1, <1>3, <2>1, <2>2, <2>3
<1>11. u = v
  BY <1>7, <1>8, <1>9, <1>10, SameMap
<1> QED BY <1>11 DEF u, v, c

-----------------------------------------------------------------------------
(* Executing steps: the recursive function of run.                          *)

\* One step of every outcome so far.
performAll(outcomes, step) == UNION {perform(p, step) : p \in outcomes}

\* What is possible after each of the first m steps.
Runs(g, o, steps, m) ==
  g = [k \in 0..m |-> IF k = 0 THEN {o} ELSE performAll(g[k - 1], steps[k])]

\* The recursion of run has a solution.
LEMMA RunsExists ==
  ASSUME NEW o, NEW steps, NEW m \in Nat
  PROVE  \E g : Runs(g, o, steps, m)
<1> DEFINE T == {n \in Nat : \E g : Runs(g, o, steps, n)}
<1>1. 0 \in T
  <2> DEFINE g == [k \in {0} |-> {o}]
             h == [k \in 0..0 |-> IF k = 0 THEN {o} ELSE performAll(g[k - 1], steps[k])]
  <2>1. 0..0 = {0}
    OBVIOUS
  <2>2. \A k \in {0} : h[k] = {o}
    BY <2>1
  <2>3. DOMAIN h = {0} /\ h = [k \in DOMAIN h |-> h[k]]
    BY <2>1
  <2> HIDE DEF h
  <2>4. h = g
    BY <2>2, <2>3
  <2> QED BY <2>4 DEF Runs, h
<1>2. ASSUME NEW n \in Nat, n \in T PROVE n + 1 \in T
  <2>1. PICK g : Runs(g, o, steps, n)
    BY <1>2
  <2> DEFINE v == performAll(g[n], steps[n + 1])
             h == [k \in 0..(n + 1) |-> IF k = n + 1 THEN v ELSE g[k]]
             f == [k \in 0..(n + 1) |-> IF k = 0 THEN {o} ELSE performAll(h[k - 1], steps[k])]
  <2>2. (\A k \in 0..n : h[k] = g[k]) /\ h[n + 1] = v
    OBVIOUS
  <2>3. h = [k \in 0..(n + 1) |-> h[k]] /\ f = [k \in 0..(n + 1) |-> f[k]]
    OBVIOUS
  <2>4. \A k \in 0..(n + 1) : f[k] = IF k = 0 THEN {o} ELSE performAll(h[k - 1], steps[k])
    OBVIOUS
  <2> HIDE DEF v, h, f
  <2>5. ASSUME NEW k \in 0..(n + 1) PROVE f[k] = h[k]
    <3>1. CASE k \in 0..n
      <4>1. g[k] = IF k = 0 THEN {o} ELSE performAll(g[k - 1], steps[k])
        BY <2>1, <3>1 DEF Runs
      <4>2. k # 0 => k - 1 \in 0..n
        BY <3>1
      <4> QED BY <2>2, <2>4, <3>1, <4>1, <4>2
    <3>2. CASE k = n + 1
      <4>1. n \in 0..n /\ k # 0 /\ k - 1 = n
        BY <3>2
      <4> QED BY <2>2, <2>4, <3>2, <4>1 DEF v
    <3> QED BY <3>1, <3>2
  <2>6. f = h
    BY <2>3, <2>5, Zenon
  <2>7. Runs(h, o, steps, n + 1)
    BY <2>6 DEF Runs, f
  <2> QED BY <2>7
<1> HIDE DEF T
<1>3. m \in T
  BY <1>1, <1>2, NatSetInduction
<1> QED BY <1>3 DEF T

\* run is the last value of the recursion.
LEMMA RunsIs ==
  ASSUME NEW o, NEW steps, Len(steps) \in Nat
  PROVE  \E g : Runs(g, o, steps, Len(steps)) /\ run(o, steps) = g[Len(steps)]
<1> DEFINE g == CHOOSE h : Runs(h, o, steps, Len(steps))
<1>1. run(o, steps) = g[Len(steps)]
  BY DEF run, Runs, performAll
<1>2. Runs(g, o, steps, Len(steps))
  BY RunsExists
<1> QED BY <1>1, <1>2

\* One step after the other.
LEMMA RunsFacts ==
  ASSUME NEW g, NEW o, NEW steps, NEW m \in Nat, Runs(g, o, steps, m)
  PROVE  /\ g[0] = {o}
         /\ \A k \in Nat : k < m => g[k + 1] = performAll(g[k], steps[k + 1])
<1>1. g[0] = {o}
  <2>1. 0 \in 0..m
    OBVIOUS
  <2> QED BY <2>1 DEF Runs
<1>2. ASSUME NEW k \in Nat, k < m
      PROVE  g[k + 1] = performAll(g[k], steps[k + 1])
  <2>1. k + 1 \in 0..m /\ k + 1 # 0 /\ (k + 1) - 1 = k
    BY <1>2
  <2> QED BY <2>1 DEF Runs
<1> QED BY <1>1, <1>2

-----------------------------------------------------------------------------
(* A user's sources and conditions are merged one after the other.          *)

\* The sources after each of the first m of the user.
MergesSources(g, base, users, m) ==
  g = [k \in 0..m |-> IF k = 0 THEN base ELSE mergeUserSource(g[k - 1], users[k])]

\* The recursion of mergeUserSources has a solution.
LEMMA MergesSourcesExists ==
  ASSUME NEW base, NEW users, NEW m \in Nat
  PROVE  \E g : MergesSources(g, base, users, m)
<1> DEFINE T == {n \in Nat : \E g : MergesSources(g, base, users, n)}
<1>1. 0 \in T
  <2> DEFINE g == [k \in {0} |-> base]
             h == [k \in 0..0 |-> IF k = 0 THEN base ELSE mergeUserSource(g[k - 1], users[k])]
  <2>1. 0..0 = {0}
    OBVIOUS
  <2>2. \A k \in {0} : h[k] = base
    BY <2>1
  <2>3. DOMAIN h = {0} /\ h = [k \in DOMAIN h |-> h[k]]
    BY <2>1
  <2> HIDE DEF h
  <2>4. h = g
    BY <2>2, <2>3
  <2> QED BY <2>4 DEF MergesSources, h
<1>2. ASSUME NEW n \in Nat, n \in T PROVE n + 1 \in T
  <2>1. PICK g : MergesSources(g, base, users, n)
    BY <1>2
  <2> DEFINE v == mergeUserSource(g[n], users[n + 1])
             h == [k \in 0..(n + 1) |-> IF k = n + 1 THEN v ELSE g[k]]
             f == [k \in 0..(n + 1) |-> IF k = 0 THEN base ELSE mergeUserSource(h[k - 1], users[k])]
  <2>2. (\A k \in 0..n : h[k] = g[k]) /\ h[n + 1] = v
    OBVIOUS
  <2>3. h = [k \in 0..(n + 1) |-> h[k]] /\ f = [k \in 0..(n + 1) |-> f[k]]
    OBVIOUS
  <2>4. \A k \in 0..(n + 1) : f[k] = IF k = 0 THEN base ELSE mergeUserSource(h[k - 1], users[k])
    OBVIOUS
  <2> HIDE DEF v, h, f
  <2>5. ASSUME NEW k \in 0..(n + 1) PROVE f[k] = h[k]
    <3>1. CASE k \in 0..n
      <4>1. g[k] = IF k = 0 THEN base ELSE mergeUserSource(g[k - 1], users[k])
        BY <2>1, <3>1 DEF MergesSources
      <4>2. k # 0 => k - 1 \in 0..n
        BY <3>1
      <4> QED BY <2>2, <2>4, <3>1, <4>1, <4>2
    <3>2. CASE k = n + 1
      <4>1. n \in 0..n /\ k # 0 /\ k - 1 = n
        BY <3>2
      <4> QED BY <2>2, <2>4, <3>2, <4>1 DEF v
    <3> QED BY <3>1, <3>2
  <2>6. f = h
    BY <2>3, <2>5, Zenon
  <2>7. MergesSources(h, base, users, n + 1)
    BY <2>6 DEF MergesSources, f
  <2> QED BY <2>7
<1> HIDE DEF T
<1>3. m \in T
  BY <1>1, <1>2, NatSetInduction
<1> QED BY <1>3 DEF T

\* mergeUserSources is the last value of the recursion.
LEMMA MergesSourcesIs ==
  ASSUME NEW base, NEW users, Len(users) \in Nat
  PROVE  \E g : MergesSources(g, base, users, Len(users)) /\ mergeUserSources(base, users) = g[Len(users)]
<1> DEFINE g == CHOOSE h : MergesSources(h, base, users, Len(users))
<1>1. mergeUserSources(base, users) = g[Len(users)]
  BY DEF mergeUserSources, MergesSources
<1>2. MergesSources(g, base, users, Len(users))
  BY MergesSourcesExists
<1> QED BY <1>1, <1>2

\* One source after the other.
LEMMA MergesSourcesFacts ==
  ASSUME NEW g, NEW base, NEW users, NEW m \in Nat, MergesSources(g, base, users, m)
  PROVE  /\ g[0] = base
         /\ \A k \in Nat : k < m => g[k + 1] = mergeUserSource(g[k], users[k + 1])
<1>1. g[0] = base
  <2>1. 0 \in 0..m
    OBVIOUS
  <2> QED BY <2>1 DEF MergesSources
<1>2. ASSUME NEW k \in Nat, k < m
      PROVE  g[k + 1] = mergeUserSource(g[k], users[k + 1])
  <2>1. k + 1 \in 0..m /\ k + 1 # 0 /\ (k + 1) - 1 = k
    BY <1>2
  <2> QED BY <2>1 DEF MergesSources
<1> QED BY <1>1, <1>2

\* The conditions after each of the first m of the user.
MergesConditions(g, base, users, m) ==
  g = [k \in 0..m |-> IF k = 0 THEN base ELSE mergeUserCondition(g[k - 1], users[k])]

\* The recursion of mergeUserConditions has a solution.
LEMMA MergesConditionsExists ==
  ASSUME NEW base, NEW users, NEW m \in Nat
  PROVE  \E g : MergesConditions(g, base, users, m)
<1> DEFINE T == {n \in Nat : \E g : MergesConditions(g, base, users, n)}
<1>1. 0 \in T
  <2> DEFINE g == [k \in {0} |-> base]
             h == [k \in 0..0 |-> IF k = 0 THEN base ELSE mergeUserCondition(g[k - 1], users[k])]
  <2>1. 0..0 = {0}
    OBVIOUS
  <2>2. \A k \in {0} : h[k] = base
    BY <2>1
  <2>3. DOMAIN h = {0} /\ h = [k \in DOMAIN h |-> h[k]]
    BY <2>1
  <2> HIDE DEF h
  <2>4. h = g
    BY <2>2, <2>3
  <2> QED BY <2>4 DEF MergesConditions, h
<1>2. ASSUME NEW n \in Nat, n \in T PROVE n + 1 \in T
  <2>1. PICK g : MergesConditions(g, base, users, n)
    BY <1>2
  <2> DEFINE v == mergeUserCondition(g[n], users[n + 1])
             h == [k \in 0..(n + 1) |-> IF k = n + 1 THEN v ELSE g[k]]
             f == [k \in 0..(n + 1) |-> IF k = 0 THEN base ELSE mergeUserCondition(h[k - 1], users[k])]
  <2>2. (\A k \in 0..n : h[k] = g[k]) /\ h[n + 1] = v
    OBVIOUS
  <2>3. h = [k \in 0..(n + 1) |-> h[k]] /\ f = [k \in 0..(n + 1) |-> f[k]]
    OBVIOUS
  <2>4. \A k \in 0..(n + 1) : f[k] = IF k = 0 THEN base ELSE mergeUserCondition(h[k - 1], users[k])
    OBVIOUS
  <2> HIDE DEF v, h, f
  <2>5. ASSUME NEW k \in 0..(n + 1) PROVE f[k] = h[k]
    <3>1. CASE k \in 0..n
      <4>1. g[k] = IF k = 0 THEN base ELSE mergeUserCondition(g[k - 1], users[k])
        BY <2>1, <3>1 DEF MergesConditions
      <4>2. k # 0 => k - 1 \in 0..n
        BY <3>1
      <4> QED BY <2>2, <2>4, <3>1, <4>1, <4>2
    <3>2. CASE k = n + 1
      <4>1. n \in 0..n /\ k # 0 /\ k - 1 = n
        BY <3>2
      <4> QED BY <2>2, <2>4, <3>2, <4>1 DEF v
    <3> QED BY <3>1, <3>2
  <2>6. f = h
    BY <2>3, <2>5, Zenon
  <2>7. MergesConditions(h, base, users, n + 1)
    BY <2>6 DEF MergesConditions, f
  <2> QED BY <2>7
<1> HIDE DEF T
<1>3. m \in T
  BY <1>1, <1>2, NatSetInduction
<1> QED BY <1>3 DEF T

\* mergeUserConditions is the last value of the recursion.
LEMMA MergesConditionsIs ==
  ASSUME NEW base, NEW users, Len(users) \in Nat
  PROVE  \E g : MergesConditions(g, base, users, Len(users)) /\ mergeUserConditions(base, users) = g[Len(users)]
<1> DEFINE g == CHOOSE h : MergesConditions(h, base, users, Len(users))
<1>1. mergeUserConditions(base, users) = g[Len(users)]
  BY DEF mergeUserConditions, MergesConditions
<1>2. MergesConditions(g, base, users, Len(users))
  BY MergesConditionsExists
<1> QED BY <1>1, <1>2

\* One condition after the other.
LEMMA MergesConditionsFacts ==
  ASSUME NEW g, NEW base, NEW users, NEW m \in Nat, MergesConditions(g, base, users, m)
  PROVE  /\ g[0] = base
         /\ \A k \in Nat : k < m => g[k + 1] = mergeUserCondition(g[k], users[k + 1])
<1>1. g[0] = base
  <2>1. 0 \in 0..m
    OBVIOUS
  <2> QED BY <2>1 DEF MergesConditions
<1>2. ASSUME NEW k \in Nat, k < m
      PROVE  g[k + 1] = mergeUserCondition(g[k], users[k + 1])
  <2>1. k + 1 \in 0..m /\ k + 1 # 0 /\ (k + 1) - 1 = k
    BY <1>2
  <2> QED BY <2>1 DEF MergesConditions
<1> QED BY <1>1, <1>2

\* A record with the fields of an outcome and no other.
IsOutcome(p) == p = outcome(p.hw, p.status, p.n)

\* What a step writes when nothing fails.
effect(step) ==
  IF step.do = "files" THEN laterWins(prefix(step.cmds, Len(step.cmds)))
  ELSE pinWrites(step.cmds)

\* A step's effect is a map.
LEMMA EffectIsFunction ==
  ASSUME NEW step
  PROVE  effect(step) = [l \in DOMAIN effect(step) |-> effect(step)[l]]
<1>1. CASE step.do = "files"
  <2>1. effect(step) = laterWins(prefix(step.cmds, Len(step.cmds)))
    BY <1>1 DEF effect
  <2> QED BY <2>1, LaterWinsIsFunction
<1>2. CASE step.do # "files"
  <2>1. effect(step) = pinWrites(step.cmds)
    BY <1>2 DEF effect
  <2> QED BY <2>1 DEF pinWrites
<1> QED BY <1>1, <1>2

\* The outcomes of writing files and of a batch of pins: nothing is left out
\* unless the call fails or meets a fault.
LEMMA FilesFacts ==
  ASSUME NEW p, IsOutcome(p), p.n \in Nat, p.status = "ok", NEW cmds,
         NEW q \in applyCachedSysFSCommands(p, cmds)
  PROVE  /\ IsOutcome(q) /\ q.n \in Nat /\ q.n >= p.n
         /\ q.status = "ok" => q.hw = over(laterWins(prefix(cmds, Len(cmds))), p.hw)
         /\ \A l : (\A i \in DOMAIN cmds : l \notin DOMAIN cmds[i]) /\ IsSlice(cmds) =>
              /\ l \in DOMAIN q.hw <=> l \in DOMAIN p.hw
              /\ l \in DOMAIN p.hw => q.hw[l] = p.hw[l]
<1> DEFINE upTo(k) == over(laterWins([i \in 1..k |-> cmds[i]]), p.hw)
<1>1. \/ q = outcome(upTo(Len(cmds)), "ok", p.n)
      \/ \E k \in 0..(Len(cmds) - 1) : q = outcome(upTo(k), "failed", p.n + 1)
  BY DEF applyCachedSysFSCommands
<1> HIDE DEF upTo
<1>2. IsOutcome(q) /\ q.n \in Nat /\ q.n >= p.n
  BY <1>1 DEF IsOutcome, outcome
<1>3. ASSUME q.status = "ok" PROVE q.hw = over(laterWins(prefix(cmds, Len(cmds))), p.hw)
  <2>1. q.hw = upTo(Len(cmds))
    BY <1>1, <1>3 DEF outcome
  <2> QED BY <2>1 DEF upTo, prefix
<1>4. ASSUME NEW l, \A i \in DOMAIN cmds : l \notin DOMAIN cmds[i], IsSlice(cmds)
      PROVE  /\ l \in DOMAIN q.hw <=> l \in DOMAIN p.hw
             /\ l \in DOMAIN p.hw => q.hw[l] = p.hw[l]
  <2>1. Len(cmds) \in Nat /\ DOMAIN cmds = 1..Len(cmds)
    BY <1>4, SliceFacts
  <2>2. PICK k \in 0..Len(cmds) : q.hw = upTo(k)
    BY <1>1, <2>1 DEF outcome
  <2> DEFINE c == [i \in 1..k |-> cmds[i]]
  <2>3. \A i \in DOMAIN c : l \notin DOMAIN c[i]
    BY <1>4, <2>1
  <2> HIDE DEF c
  <2>4. l \notin DOMAIN laterWins(c)
    BY <2>3, LaterWinsDomain
  <2>5. q.hw = over(laterWins(c), p.hw)
    BY <2>2 DEF c, upTo
  <2> QED BY <2>4, <2>5 DEF over
<1> QED BY <1>2, <1>3, <1>4

\* Sending pin commands: an outcome without a new fault has them all
\* written, and no outcome touches a field none of them carries.
LEMMA PinsFacts ==
  ASSUME NEW p, IsOutcome(p), p.n \in Nat, p.status = "ok", NEW cmds,
         NEW q \in BatchPinSet(p, cmds)
  PROVE  /\ IsOutcome(q) /\ q.n \in Nat /\ q.n >= p.n
         /\ q.status = "ok" /\ q.n = p.n => q.hw = over(pinWrites(cmds), p.hw)
         /\ \A l : l \notin pinFields(cmds) =>
              /\ l \in DOMAIN q.hw <=> l \in DOMAIN p.hw
              /\ l \in DOMAIN p.hw => q.hw[l] = p.hw[l]
<1>1. \/ q = outcome(writePins(p.hw, cmds), "ok", p.n)
      \/ \E sent \in SUBSET cmds : \E s \in {"ok", "failed"} :
           q = outcome(writePins(p.hw, sent), s, p.n + 1)
  BY DEF BatchPinSet
<1>2. IsOutcome(q) /\ q.n \in Nat /\ q.n >= p.n
  BY <1>1 DEF IsOutcome, outcome
<1>3. q.status = "ok" /\ q.n = p.n => q.hw = over(pinWrites(cmds), p.hw)
  BY <1>1 DEF outcome, writePins
<1>4. ASSUME NEW l, l \notin pinFields(cmds)
      PROVE  /\ l \in DOMAIN q.hw <=> l \in DOMAIN p.hw
             /\ l \in DOMAIN p.hw => q.hw[l] = p.hw[l]
  <2>1. PICK sent \in SUBSET cmds : q.hw = over(pinWrites(sent), p.hw)
    BY <1>1 DEF outcome, writePins
  <2>2. l \notin DOMAIN pinWrites(sent)
    BY <1>4 DEF pinWrites, pinFields
  <2> QED BY <2>1, <2>2 DEF over
<1> QED BY <1>2, <1>3, <1>4

\* One step: faults are only counted up, and a step that meets none and does
\* not fail writes its effect on what a call that did not fail left.
LEMMA PerformFacts ==
  ASSUME NEW p, IsOutcome(p), p.n \in Nat, NEW step, NEW q \in perform(p, step)
  PROVE  /\ IsOutcome(q) /\ q.n \in Nat /\ q.n >= p.n
         /\ step.do # "resume" /\ q.status = "ok" /\ q.n = p.n =>
              p.status = "ok" /\ step.do \in {"files", "pins"} /\ q.hw = over(effect(step), p.hw)
         /\ \A l : /\ step.do = "files" => /\ IsSlice(step.cmds)
                                           /\ \A i \in DOMAIN step.cmds : l \notin DOMAIN step.cmds[i]
                   /\ step.do = "pins" => l \notin pinFields(step.cmds)
                   => /\ l \in DOMAIN q.hw <=> l \in DOMAIN p.hw
                      /\ l \in DOMAIN p.hw => q.hw[l] = p.hw[l]
<1>1. CASE step.do = "resume"
  BY <1>1 DEF perform, IsOutcome, outcome
<1>2. CASE step.do # "resume" /\ p.status # "ok"
  BY <1>2 DEF perform
<1>3. CASE p.status = "ok" /\ step.do = "files"
  <2>1. q \in applyCachedSysFSCommands(p, step.cmds)
    BY <1>3 DEF perform
  <2>2. /\ IsOutcome(q) /\ q.n \in Nat /\ q.n >= p.n
        /\ q.status = "ok" => q.hw = over(laterWins(prefix(step.cmds, Len(step.cmds))), p.hw)
        /\ \A l : (\A i \in DOMAIN step.cmds : l \notin DOMAIN step.cmds[i]) /\ IsSlice(step.cmds) =>
             /\ l \in DOMAIN q.hw <=> l \in DOMAIN p.hw
             /\ l \in DOMAIN p.hw => q.hw[l] = p.hw[l]
    BY <1>3, <2>1, FilesFacts
  <2>3. effect(step) = laterWins(prefix(step.cmds, Len(step.cmds)))
    BY <1>3 DEF effect
  <2> QED BY <1>3, <2>2, <2>3
<1>4. CASE p.status = "ok" /\ step.do = "pins"
  <2>1. q \in BatchPinSet(p, step.cmds)
    BY <1>4 DEF perform
  <2>2. /\ IsOutcome(q) /\ q.n \in Nat /\ q.n >= p.n
        /\ q.status = "ok" /\ q.n = p.n => q.hw = over(pinWrites(step.cmds), p.hw)
        /\ \A l : l \notin pinFields(step.cmds) =>
             /\ l \in DOMAIN q.hw <=> l \in DOMAIN p.hw
             /\ l \in DOMAIN p.hw => q.hw[l] = p.hw[l]
    BY <1>4, <2>1, PinsFacts
  <2>3. effect(step) = pinWrites(step.cmds)
    BY <1>4 DEF effect
  <2> QED BY <1>4, <2>2, <2>3
<1>5. CASE step.do \notin {"resume", "files", "pins"} /\ p.status = "ok"
  <2>1. q = [p EXCEPT !.status = "failed"] \/ q = [p EXCEPT !.status = "panicked"]
    BY <1>5 DEF perform
  <2>2. q.hw = p.hw /\ q.n = p.n /\ q.status # "ok" /\ IsOutcome(q)
    BY <2>1 DEF IsOutcome, outcome
  <2> QED BY <1>5, <2>2
<1> QED BY <1>1, <1>2, <1>3, <1>4, <1>5

\* An application that succeeds without a fault performed every step, and the
\* hardware holds what they leave.
LEMMA RunClean ==
  ASSUME NEW steps, IsSlice(steps), NEW h, NEW n \in Nat,
         \A i \in DOMAIN steps : steps[i].do # "resume",
         NEW q \in run(outcome(h, "ok", n), steps), q.status = "ok", q.n = n
  PROVE  /\ \A i \in DOMAIN steps : steps[i].do \in {"files", "pins"}
         /\ \A l \in DOMAIN laterWins([i \in DOMAIN steps |-> effect(steps[i])]) :
              l \in DOMAIN q.hw /\ q.hw[l] = laterWins([i \in DOMAIN steps |-> effect(steps[i])])[l]
<1> DEFINE o == outcome(h, "ok", n)
           w == [i \in DOMAIN steps |-> effect(steps[i])]
<1>1. Len(steps) \in Nat /\ DOMAIN steps = 1..Len(steps)
  BY SliceFacts
<1>g. PICK g : Runs(g, o, steps, Len(steps)) /\ run(o, steps) = g[Len(steps)]
  BY <1>1, RunsIs
<1>2. /\ run(o, steps) = g[Len(steps)] /\ g[0] = {o}
      /\ \A k \in Nat : k < Len(steps) => g[k + 1] = performAll(g[k], steps[k + 1])
  BY <1>1, <1>g, RunsFacts
<1>3. IsSlice(w) /\ Len(w) = Len(steps) /\ \A i \in DOMAIN steps : w[i] = effect(steps[i])
  BY MapSlice
<1> HIDE DEF w
<1> DEFINE W(k) == laterWins(prefix(w, k))
           Clean(k, p) ==
             /\ \A i \in 1..k : steps[i].do \in {"files", "pins"}
             /\ \A l \in DOMAIN W(k) : l \in DOMAIN p.hw /\ p.hw[l] = W(k)[l]
           Ok(k, p) == /\ IsOutcome(p) /\ p.n \in Nat /\ p.n >= n
                       /\ p.status = "ok" /\ p.n = n => Clean(k, p)
           T == {k \in Nat : k <= Len(steps) => \A p \in g[k] : Ok(k, p)}
<1>4. 0 \in T
  <2>1. DOMAIN W(0) = {}
    BY PrefixEmpty, LaterWinsEmpty
  <2> HIDE DEF W
  <2>2. IsOutcome(o) /\ o.n = n
    BY DEF IsOutcome, outcome
  <2>3. \A p \in g[0] : p = o
    BY <1>2
  <2>4. 0 \in Nat /\ 1..0 = {} /\ n >= n
    OBVIOUS
  <2>5. Clean(0, o)
    BY <2>1, <2>4
  <2> HIDE DEF o, Clean
  <2> QED BY <2>2, <2>3, <2>4, <2>5
<1>5. ASSUME NEW k \in Nat, k \in T PROVE k + 1 \in T
  <2>1. SUFFICES ASSUME k + 1 <= Len(steps), NEW q1 \in g[k + 1] PROVE Ok(k + 1, q1)
    OBVIOUS
  <2>2. k < Len(steps) /\ k <= Len(steps) /\ k + 1 \in DOMAIN steps
    BY <1>1, <2>1
  <2>3. PICK p \in g[k] : q1 \in perform(p, steps[k + 1])
    BY <1>2, <2>2 DEF performAll
  <2>4. Ok(k, p)
    BY <1>5, <2>2
  <2> DEFINE s == steps[k + 1]
  <2>5. s.do # "resume" /\ w[k + 1] = effect(s)
    BY <1>3, <2>2
  <2>6. DOMAIN W(k + 1) = DOMAIN effect(s) \cup DOMAIN W(k) /\ W(k + 1) = over(effect(s), W(k))
    <3>1. prefix(w, k + 1) = prefix(w, k) \o <<effect(s)>>
      BY <2>5, PrefixStep
    <3>2. IsSlice(prefix(w, k)) /\ IsSlice(<<effect(s)>>)
      BY PrefixFacts, OneSlice
    <3>3. laterWins(<<effect(s)>>) = effect(s)
      <4>1. effect(s) = [l \in DOMAIN effect(s) |-> effect(s)[l]]
        BY EffectIsFunction
      <4> QED BY <4>1, LaterWinsOne
    <3>4. laterWins(prefix(w, k) \o <<effect(s)>>) = over(laterWins(<<effect(s)>>), laterWins(prefix(w, k)))
      BY <3>2, LaterWinsJoin
    <3>5. W(k + 1) = over(effect(s), W(k))
      BY <3>1, <3>3, <3>4
    <3> QED BY <3>5 DEF over
  <2> HIDE DEF W, s
  <2>7. /\ IsOutcome(q1) /\ q1.n \in Nat /\ q1.n >= p.n
        /\ q1.status = "ok" /\ q1.n = p.n =>
             p.status = "ok" /\ s.do \in {"files", "pins"} /\ q1.hw = over(effect(s), p.hw)
    <3>1. IsOutcome(p) /\ p.n \in Nat /\ q1 \in perform(p, s)
      BY <2>3, <2>4 DEF s
    <3> HIDE DEF Ok
    <3>2. /\ IsOutcome(q1) /\ q1.n \in Nat /\ q1.n >= p.n
          /\ s.do # "resume" /\ q1.status = "ok" /\ q1.n = p.n =>
               p.status = "ok" /\ s.do \in {"files", "pins"} /\ q1.hw = over(effect(s), p.hw)
      BY <3>1, PerformFacts
    <3> QED BY <2>5, <3>2
  <2>8. ASSUME q1.status = "ok", q1.n = n PROVE Clean(k + 1, q1)
    <3>1. p.n \in Nat /\ p.n >= n /\ (p.status = "ok" /\ p.n = n => Clean(k, p))
      BY <2>4
    <3> HIDE DEF Ok, Clean
    <3>2. q1.n = p.n /\ p.n = n
      BY <2>7, <2>8, <3>1
    <3>3. /\ p.status = "ok" /\ s.do \in {"files", "pins"}
          /\ q1.hw = over(effect(s), p.hw) /\ Clean(k, p)
      BY <2>7, <2>8, <3>1, <3>2
    <3>4. \A i \in 1..(k + 1) : i \in 1..k \/ i = k + 1
      OBVIOUS
    <3>5. \A i \in 1..(k + 1) : steps[i].do \in {"files", "pins"}
      BY <3>3, <3>4 DEF s, Clean
    <3>6. ASSUME NEW l \in DOMAIN W(k + 1) PROVE l \in DOMAIN q1.hw /\ q1.hw[l] = W(k + 1)[l]
      <4>1. l \in DOMAIN W(k) => l \in DOMAIN p.hw /\ p.hw[l] = W(k)[l]
        BY <3>3 DEF Clean
      <4> QED BY <2>6, <3>3, <3>6, <4>1 DEF over
    <3> QED BY <3>5, <3>6 DEF Clean
  <2>9. IsOutcome(q1) /\ q1.n \in Nat /\ q1.n >= n
    <3>1. p.n \in Nat /\ p.n >= n
      BY <2>4
    <3> QED BY <2>7, <3>1
  <2> HIDE DEF Clean
  <2> QED BY <2>8, <2>9
<1> HIDE DEF T
<1>6. Len(steps) \in T
  BY <1>1, <1>4, <1>5, NatSetInduction
<1>7. Clean(Len(steps), q)
  <2>1. Ok(Len(steps), q)
    <3>1. Len(steps) <= Len(steps) /\ q \in g[Len(steps)]
      BY <1>1, <1>2
    <3> HIDE DEF Ok
    <3> QED BY <1>6, <3>1 DEF T
  <2> HIDE DEF Clean
  <2> QED BY <2>1
<1>8. prefix(w, Len(steps)) = w
  BY <1>3, PrefixOfAll
<1> QED BY <1>1, <1>7, <1>8 DEF w

\* A location none of the steps writes keeps its value.
LEMMA RunWrites ==
  ASSUME NEW steps, IsSlice(steps), NEW o, IsOutcome(o), o.n \in Nat, NEW l,
         \A i \in DOMAIN steps :
           /\ steps[i].do = "files" =>
                /\ IsSlice(steps[i].cmds)
                /\ \A j \in DOMAIN steps[i].cmds : l \notin DOMAIN steps[i].cmds[j]
           /\ steps[i].do = "pins" => l \notin pinFields(steps[i].cmds),
         NEW q \in run(o, steps)
  PROVE  /\ l \in DOMAIN q.hw <=> l \in DOMAIN o.hw
         /\ l \in DOMAIN o.hw => q.hw[l] = o.hw[l]
         /\ q.n \in Nat
<1>1. Len(steps) \in Nat /\ DOMAIN steps = 1..Len(steps)
  BY SliceFacts
<1>g. PICK g : Runs(g, o, steps, Len(steps)) /\ run(o, steps) = g[Len(steps)]
  BY <1>1, RunsIs
<1>2. /\ run(o, steps) = g[Len(steps)] /\ g[0] = {o}
      /\ \A k \in Nat : k < Len(steps) => g[k + 1] = performAll(g[k], steps[k + 1])
  BY <1>1, <1>g, RunsFacts
<1> DEFINE Kept(p) == /\ l \in DOMAIN p.hw <=> l \in DOMAIN o.hw
                      /\ l \in DOMAIN o.hw => p.hw[l] = o.hw[l]
                      /\ IsOutcome(p) /\ p.n \in Nat
           T == {k \in Nat : k <= Len(steps) => \A p \in g[k] : Kept(p)}
<1>3. 0 \in T
  BY <1>2
<1>4. ASSUME NEW k \in Nat, k \in T PROVE k + 1 \in T
  <2>1. SUFFICES ASSUME k + 1 <= Len(steps), NEW q1 \in g[k + 1] PROVE Kept(q1)
    OBVIOUS
  <2>2. k < Len(steps) /\ k <= Len(steps) /\ k + 1 \in DOMAIN steps
    BY <1>1, <2>1
  <2>3. PICK p \in g[k] : q1 \in perform(p, steps[k + 1])
    BY <1>2, <2>2 DEF performAll
  <2>4. Kept(p)
    BY <1>4, <2>2
  <2>5. IsOutcome(p) /\ p.n \in Nat
    BY <2>4
  <2>6. /\ IsOutcome(q1) /\ q1.n \in Nat
        /\ \A m : /\ steps[k + 1].do = "files" =>
                       /\ IsSlice(steps[k + 1].cmds)
                       /\ \A i \in DOMAIN steps[k + 1].cmds : m \notin DOMAIN steps[k + 1].cmds[i]
                  /\ steps[k + 1].do = "pins" => m \notin pinFields(steps[k + 1].cmds)
                  => /\ m \in DOMAIN q1.hw <=> m \in DOMAIN p.hw
                     /\ m \in DOMAIN p.hw => q1.hw[m] = p.hw[m]
    BY <2>3, <2>5, PerformFacts
  <2>7. /\ l \in DOMAIN q1.hw <=> l \in DOMAIN p.hw
        /\ l \in DOMAIN p.hw => q1.hw[l] = p.hw[l]
    BY <2>2, <2>6
  <2> QED BY <2>4, <2>6, <2>7
<1> HIDE DEF T
<1>5. Len(steps) \in T
  BY <1>1, <1>3, <1>4, NatSetInduction
<1>6. Kept(q)
  <2>1. Len(steps) <= Len(steps) /\ q \in g[Len(steps)]
    BY <1>1, <1>2
  <2> HIDE DEF Kept
  <2> QED BY <1>5, <2>1 DEF T
<1> QED BY <1>6

\* Faults are only counted up.
LEMMA RunFaults ==
  ASSUME NEW steps, IsSlice(steps), NEW o, IsOutcome(o), o.n \in Nat, NEW q \in run(o, steps)
  PROVE  q.n \in Nat
<1>1. Len(steps) \in Nat /\ DOMAIN steps = 1..Len(steps)
  BY SliceFacts
<1>g. PICK g : Runs(g, o, steps, Len(steps)) /\ run(o, steps) = g[Len(steps)]
  BY <1>1, RunsIs
<1>2. /\ run(o, steps) = g[Len(steps)] /\ g[0] = {o}
      /\ \A k \in Nat : k < Len(steps) => g[k + 1] = performAll(g[k], steps[k + 1])
  BY <1>1, <1>g, RunsFacts
<1> DEFINE T == {k \in Nat : k <= Len(steps) => \A p \in g[k] : IsOutcome(p) /\ p.n \in Nat}
<1>3. 0 \in T
  BY <1>2
<1>4. ASSUME NEW k \in Nat, k \in T PROVE k + 1 \in T
  <2>1. SUFFICES ASSUME k + 1 <= Len(steps), NEW r \in g[k + 1] PROVE IsOutcome(r) /\ r.n \in Nat
    OBVIOUS
  <2>2. k < Len(steps) /\ k <= Len(steps)
    BY <1>1, <2>1
  <2>3. PICK p \in g[k] : r \in perform(p, steps[k + 1])
    BY <1>2, <2>2 DEF performAll
  <2>4. IsOutcome(p) /\ p.n \in Nat
    BY <1>4, <2>2
  <2> QED BY <2>3, <2>4, PerformFacts
<1> HIDE DEF T
<1>5. Len(steps) \in T
  BY <1>1, <1>3, <1>4, NatSetInduction
<1>6. Len(steps) <= Len(steps) /\ q \in g[Len(steps)]
  BY <1>1, <1>2
<1> QED BY <1>5, <1>6 DEF T

-----------------------------------------------------------------------------
(* The resolved chain: its sources and conditions are slices.               *)

\* The library's sequences are slices.
LEMMA SeqIsSlice ==
  ASSUME NEW S, NEW s \in Seq(S)
  PROVE  IsSlice(s)
<1>1. Len(s) \in Nat /\ s \in [1..Len(s) -> S] /\ DOMAIN s = 1..Len(s)
  BY LenProperties
<1>2. s = [i \in DOMAIN s |-> s[i]]
  BY <1>1
<1> QED BY <1>1, <1>2, SliceIntro

\* Appending one element.
LEMMA AppendSlice ==
  ASSUME NEW s, IsSlice(s), NEW x
  PROVE  /\ IsSlice(Append(s, x)) /\ DOMAIN Append(s, x) = 1..(Len(s) + 1)
         /\ \A i \in DOMAIN Append(s, x) : Append(s, x)[i] = IF i <= Len(s) THEN s[i] ELSE x
<1> DEFINE S == ToSet(s) \cup {x}
<1>1. Len(s) \in Nat /\ DOMAIN s = 1..Len(s) /\ s = [i \in 1..Len(s) |-> s[i]]
  BY SliceFacts
<1>2. s \in Seq(S)
  <2>1. \A i \in 1..Len(s) : s[i] \in S
    BY <1>1 DEF ToSet
  <2>2. s \in [1..Len(s) -> S]
    BY <1>1, <2>1
  <2> QED BY <1>1, <2>2
<1> HIDE DEF S
<1>3. x \in S
  BY DEF S
<1>4. /\ Append(s, x) \in Seq(S) /\ Len(Append(s, x)) = Len(s) + 1
      /\ \A i \in 1..Len(s) : Append(s, x)[i] = s[i]
      /\ Append(s, x)[Len(s) + 1] = x
  BY <1>2, <1>3, AppendProperties
<1>5. IsSlice(Append(s, x))
  BY <1>4, SeqIsSlice
<1>6. DOMAIN Append(s, x) = 1..(Len(s) + 1)
  BY <1>4, <1>5, SliceFacts
<1>7. ASSUME NEW i \in 1..(Len(s) + 1)
      PROVE  Append(s, x)[i] = IF i <= Len(s) THEN s[i] ELSE x
  <2>1. i \in 1..Len(s) \/ i = Len(s) + 1
    BY <1>1
  <2>2. CASE i \in 1..Len(s)
    BY <1>1, <1>4, <2>2
  <2>3. CASE i = Len(s) + 1
    BY <1>1, <1>4, <2>3
  <2> QED BY <2>1, <2>2, <2>3
<1> QED BY <1>5, <1>6, <1>7

\* Merging a user's sources yields a slice.
LEMMA MergeSourcesSlice ==
  ASSUME NEW base, IsSlice(base), NEW users, IsSlice(users)
  PROVE  IsSlice(mergeUserSources(base, users))
<1>1. Len(users) \in Nat
  BY SliceFacts
<1>2. PICK g : MergesSources(g, base, users, Len(users))
               /\ mergeUserSources(base, users) = g[Len(users)]
  BY <1>1, MergesSourcesIs
<1>3. /\ g[0] = base
      /\ \A k \in Nat : k < Len(users) => g[k + 1] = mergeUserSource(g[k], users[k + 1])
  BY <1>1, <1>2, MergesSourcesFacts
<1> DEFINE T == {k \in Nat : k <= Len(users) => IsSlice(g[k])}
<1>4. 0 \in T
  BY <1>3
<1>5. ASSUME NEW s, IsSlice(s), NEW u PROVE IsSlice(mergeUserSource(s, u))
  <2> DEFINE at == {i \in DOMAIN s : IF u.name # "" THEN s[i].name = u.name ELSE s[i].type = u.type}
             t == [i \in DOMAIN s |-> IF i \in at /\ \A j \in at : i <= j
                                      THEN mergeSourceConfig(s[i], u) ELSE s[i]]
  <2>1. mergeUserSource(s, u) = Append(s, u) \/ mergeUserSource(s, u) = t
    BY DEF mergeUserSource
  <2>2. DOMAIN t = DOMAIN s /\ t = [i \in DOMAIN t |-> t[i]]
    OBVIOUS
  <2> HIDE DEF t
  <2>3. IsSlice(t)
    BY <1>5, <2>2, MapSlice
  <2>4. IsSlice(Append(s, u))
    BY <1>5, AppendSlice
  <2> QED BY <2>1, <2>3, <2>4
<1>6. ASSUME NEW k \in Nat, k \in T PROVE k + 1 \in T
  <2>1. SUFFICES ASSUME k + 1 <= Len(users) PROVE IsSlice(g[k + 1])
    OBVIOUS
  <2>2. k < Len(users) /\ k <= Len(users)
    BY <1>1, <2>1
  <2> QED BY <1>3, <1>5, <1>6, <2>2
<1> HIDE DEF T
<1>7. Len(users) \in T
  BY <1>1, <1>4, <1>6, NatSetInduction
<1>8. Len(users) <= Len(users)
  BY <1>1
<1> QED BY <1>2, <1>7, <1>8 DEF T

\* A slice of conditions.
AreConditions(s) == IsSlice(s) /\ \A i \in DOMAIN s : IsCondition(s[i])

\* Merging a user's conditions yields conditions.
LEMMA MergeConditionsFacts ==
  ASSUME NEW base, AreConditions(base), NEW users, AreConditions(users)
  PROVE  AreConditions(mergeUserConditions(base, users))
<1>1. Len(users) \in Nat /\ DOMAIN users = 1..Len(users)
  BY SliceFacts DEF AreConditions
<1>2. PICK g : MergesConditions(g, base, users, Len(users))
               /\ mergeUserConditions(base, users) = g[Len(users)]
  BY <1>1, MergesConditionsIs
<1>3. /\ g[0] = base
      /\ \A k \in Nat : k < Len(users) => g[k + 1] = mergeUserCondition(g[k], users[k + 1])
  BY <1>1, <1>2, MergesConditionsFacts
<1> DEFINE T == {k \in Nat : k <= Len(users) => AreConditions(g[k])}
<1>4. 0 \in T
  BY <1>3
<1>5. ASSUME NEW s, AreConditions(s), NEW u, IsCondition(u)
      PROVE  AreConditions(mergeUserCondition(s, u))
  <2> DEFINE at == {i \in DOMAIN s : s[i].name = u.name}
             t == [i \in DOMAIN s |-> IF i \in at /\ \A j \in at : i <= j THEN u ELSE s[i]]
  <2>1. mergeUserCondition(s, u) = Append(s, u) \/ mergeUserCondition(s, u) = t
    BY DEF mergeUserCondition
  <2>2. /\ DOMAIN t = DOMAIN s /\ t = [i \in DOMAIN t |-> t[i]]
        /\ \A i \in DOMAIN t : t[i] = u \/ t[i] = s[i]
    OBVIOUS
  <2> HIDE DEF t
  <2>3. AreConditions(t)
    BY <1>5, <2>2, MapSlice DEF AreConditions
  <2>4. AreConditions(Append(s, u))
    <3>1. Len(s) \in Nat /\ DOMAIN s = 1..Len(s)
      BY <1>5, SliceFacts DEF AreConditions
    <3>2. /\ IsSlice(Append(s, u)) /\ DOMAIN Append(s, u) = 1..(Len(s) + 1)
          /\ \A i \in DOMAIN Append(s, u) : Append(s, u)[i] = IF i <= Len(s) THEN s[i] ELSE u
      BY <1>5, AppendSlice DEF AreConditions
    <3>3. \A i \in 1..(Len(s) + 1) : i <= Len(s) => i \in DOMAIN s
      BY <3>1
    <3> QED BY <1>5, <3>2, <3>3 DEF AreConditions
  <2> QED BY <2>1, <2>3, <2>4
<1>6. ASSUME NEW k \in Nat, k \in T PROVE k + 1 \in T
  <2>1. SUFFICES ASSUME k + 1 <= Len(users) PROVE AreConditions(g[k + 1])
    OBVIOUS
  <2>2. k < Len(users) /\ k <= Len(users) /\ k + 1 \in DOMAIN users
    BY <1>1, <2>1
  <2>3. IsCondition(users[k + 1])
    BY <2>2 DEF AreConditions
  <2> QED BY <1>3, <1>5, <1>6, <2>2, <2>3
<1> HIDE DEF T
<1>7. Len(users) \in T
  BY <1>1, <1>4, <1>6, NatSetInduction
<1>8. Len(users) <= Len(users)
  BY <1>1
<1> QED BY <1>2, <1>7, <1>8 DEF T

\* Resolving a template's variables in a condition yields a condition.
LEMMA ResolvedConditionFacts ==
  ASSUME NEW c, IsCondition(c), NEW vars
  PROVE  IsCondition(deepCopyAndResolveCondition(c, vars))
<1> DEFINE ss == [i \in DOMAIN c.states |-> resolveState(c.states[i], vars)]
           r == [c EXCEPT !.states = ss]
<1>1. deepCopyAndResolveCondition(c, vars) = r
  BY DEF deepCopyAndResolveCondition
<1>2. /\ {"name", "triggers", "states"} \subseteq DOMAIN c /\ IsSlice(c.states)
      /\ \A i \in DOMAIN c.states :
           /\ {"dpll", "pin", "period"} \subseteq DOMAIN c.states[i]
           /\ IsFiniteSet(c.states[i].dpll) /\ IsFiniteSet(c.states[i].pin)
           /\ IsFiniteSet(c.states[i].period)
  BY DEF IsCondition
<1>3. DOMAIN ss = DOMAIN c.states /\ ss = [i \in DOMAIN ss |-> ss[i]]
      /\ \A i \in DOMAIN ss : ss[i] = resolveState(c.states[i], vars)
  OBVIOUS
<1> HIDE DEF ss
<1>4. DOMAIN r = DOMAIN c /\ r.states = ss
  BY <1>2
<1> HIDE DEF r
<1>5. IsSlice(ss)
  BY <1>2, <1>3, MapSlice
<1>6. ASSUME NEW i \in DOMAIN ss
      PROVE  /\ {"dpll", "pin", "period"} \subseteq DOMAIN ss[i]
             /\ IsFiniteSet(ss[i].dpll) /\ IsFiniteSet(ss[i].pin) /\ IsFiniteSet(ss[i].period)
  <2> DEFINE s == c.states[i]
             f == [d \in s.dpll |-> resolvePin(d, vars)]
             D == {resolvePin(d, vars) : d \in s.dpll}
  <2>1. {f[d] : d \in s.dpll} = D
    OBVIOUS
  <2>2. /\ {"dpll", "pin", "period"} \subseteq DOMAIN s
        /\ IsFiniteSet(s.dpll) /\ IsFiniteSet(s.pin) /\ IsFiniteSet(s.period)
    BY <1>2, <1>3, <1>6
  <2>3. ss[i] = [s EXCEPT !.dpll = D]
    BY <1>3, <1>6 DEF resolveState
  <2> HIDE DEF s, f, D
  <2>4. IsFiniteSet(D)
    <3>1. IsFiniteSet({f[d] : d \in s.dpll})
      BY <2>2, FiniteImage
    <3> QED BY <2>1, <3>1
  <2>5. DOMAIN ss[i] = DOMAIN s /\ ss[i].dpll = D /\ ss[i].pin = s.pin /\ ss[i].period = s.period
    BY <2>2, <2>3
  <2> QED BY <2>2, <2>4, <2>5
<1> QED BY <1>1, <1>2, <1>4, <1>5, <1>6 DEF IsCondition

\* A template's sources and conditions, resolved for a subsystem.
LEMMA TemplateFacts ==
  ASSUME NEW s, NEW clockType, NEW map
  PROVE  /\ IsSlice(templateSources(s, templateOf(s, clockType, map)))
         /\ AreConditions(templateConditions(s, templateOf(s, clockType, map)))
<1> DEFINE ts == templateOf(s, clockType, map)
           t == The(ts)
           vars == templateVars(s, t)
           a == [i \in DOMAIN t.sources |->
                   deepCopyAndResolveSourceConfig(t.sources[i], vars, s.ports)]
           b == [i \in DOMAIN t.conditions |-> deepCopyAndResolveCondition(t.conditions[i], vars)]
<1>1. CASE ts = {}
  <2>1. templateSources(s, ts) = <<>> /\ templateConditions(s, ts) = <<>>
    BY <1>1 DEF templateSources, templateConditions
  <2> QED BY <2>1, EmptySlice DEF AreConditions
<1>2. CASE ts # {}
  <2>1. templateSources(s, ts) = a /\ templateConditions(s, ts) = b
    BY <1>2 DEF templateSources, templateConditions
  <2>2. IsBehavior(t)
    <3>1. PICK x : ts = {RemapBehaviorProfileLabels(x, map)} /\ IsBehavior(x)
      <4>1. /\ s.hwDef \in DOMAIN Templates /\ clockType \in DOMAIN Templates[s.hwDef]
            /\ ts = {RemapBehaviorProfileLabels(Templates[s.hwDef][clockType], map)}
        BY <1>2 DEF templateOf, LoadBehaviorProfile
      <4> QED BY <4>1, TemplatesAssumption
    <3>2. t = RemapBehaviorProfileLabels(x, map)
      BY <3>1 DEF The
    <3>3. {"sources", "conditions"} \subseteq DOMAIN x
      BY <3>1 DEF IsBehavior
    <3>4. DOMAIN t = DOMAIN x /\ t.sources = x.sources /\ t.conditions = x.conditions
      BY <3>2, <3>3 DEF RemapBehaviorProfileLabels
    <3> QED BY <3>1, <3>3, <3>4 DEF IsBehavior
  <2>3. IsSlice(t.sources) /\ IsSlice(t.conditions) /\ \A i \in DOMAIN t.conditions : IsCondition(t.conditions[i])
    BY <2>2 DEF IsBehavior
  <2>4. /\ DOMAIN a = DOMAIN t.sources /\ a = [i \in DOMAIN a |-> a[i]]
        /\ DOMAIN b = DOMAIN t.conditions /\ b = [i \in DOMAIN b |-> b[i]]
        /\ \A i \in DOMAIN b : b[i] = deepCopyAndResolveCondition(t.conditions[i], vars)
    OBVIOUS
  <2> HIDE DEF a, b, t, vars
  <2>5. IsSlice(a) /\ IsSlice(b)
    BY <2>3, <2>4, MapSlice
  <2>6. \A i \in DOMAIN b : IsCondition(b[i])
    BY <2>3, <2>4, ResolvedConditionFacts
  <2> QED BY <2>1, <2>5, <2>6 DEF AreConditions
<1> QED BY <1>1, <1>2

\* A clock chain with a structure and a behaviour.
IsChain(chain) ==
  "structure" \in DOMAIN chain /\ IsSlice(chain.structure) /\ IsBehavior(chain)

\* Deriving the behaviour keeps the structure and gives slices.
LEMMA DeriveBehaviorFacts ==
  ASSUME NEW chain, IsChain(chain), NEW clockType, NEW map
  PROVE  IsChain(deriveBehavior(chain, clockType, map))
<1> DEFINE a == [i \in DOMAIN chain.structure |->
                   templateSources(chain.structure[i], templateOf(chain.structure[i], clockType, map))]
           b == [i \in DOMAIN chain.structure |->
                   templateConditions(chain.structure[i], templateOf(chain.structure[i], clockType, map))]
           sources == mergeUserSources(FlattenSeq(a), chain.sources)
           conditions == mergeUserConditions(FlattenSeq(b), chain.conditions)
           r == [chain EXCEPT !.sources = sources, !.conditions = conditions]
<1>1. deriveBehavior(chain, clockType, map) = r
  BY DEF deriveBehavior, concat
<1>2. /\ "structure" \in DOMAIN chain /\ IsSlice(chain.structure)
      /\ {"sources", "conditions"} \subseteq DOMAIN chain
      /\ IsSlice(chain.sources) /\ AreConditions(chain.conditions)
  BY DEF IsChain, IsBehavior, AreConditions
<1>3. /\ DOMAIN a = DOMAIN chain.structure /\ a = [i \in DOMAIN a |-> a[i]]
      /\ DOMAIN b = DOMAIN chain.structure /\ b = [i \in DOMAIN b |-> b[i]]
  OBVIOUS
<1>4. \A i \in DOMAIN a : IsSlice(a[i])
  BY TemplateFacts
<1>5. \A i \in DOMAIN b : AreConditions(b[i])
  BY TemplateFacts
<1> HIDE DEF a, b
<1>6. IsSlice(FlattenSeq(a))
  <2>1. IsSlice(a)
    BY <1>2, <1>3, MapSlice
  <2> QED BY <1>4, <2>1, FlattenFacts
<1>7. AreConditions(FlattenSeq(b))
  <2>1. IsSlice(b)
    BY <1>2, <1>3, MapSlice
  <2>2. /\ IsSlice(FlattenSeq(b))
        /\ \A n \in DOMAIN FlattenSeq(b) :
             \E i \in DOMAIN b : \E j \in DOMAIN b[i] : FlattenSeq(b)[n] = b[i][j]
    BY <1>5, <2>1, FlattenFacts DEF AreConditions
  <2> QED BY <1>5, <2>2 DEF AreConditions
<1>8. IsSlice(sources)
  BY <1>2, <1>6, MergeSourcesSlice
<1>9. AreConditions(conditions)
  BY <1>2, <1>7, MergeConditionsFacts
<1> HIDE DEF sources, conditions
<1>10. /\ DOMAIN r = DOMAIN chain /\ r.sources = sources /\ r.conditions = conditions
       /\ r.structure = chain.structure
  BY <1>2
<1> HIDE DEF r
<1> QED BY <1>1, <1>2, <1>8, <1>9, <1>10 DEF IsChain, IsBehavior, AreConditions

\* ResolveClockChain replaces the structure before it derives the behaviour.
LEMMA ResolveClockChainFacts ==
  ASSUME NEW config, IsConfig(config), NEW p, NEW defs, NEW map,
         NEW chain \in ResolveClockChain(config, p, defs, map)
  PROVE  IsChain(chain)
<1>1. PICK derived : /\ derived = [i \in DOMAIN config.chain.structure |-> derived[i]]
                     /\ chain = deriveBehavior([config.chain EXCEPT !.structure = derived], config.type, map)
  BY DEF ResolveClockChain
<1> DEFINE c == [config.chain EXCEPT !.structure = derived]
<1>2. /\ "structure" \in DOMAIN config.chain /\ IsSlice(config.chain.structure)
      /\ IsBehavior(config.chain) /\ {"sources", "conditions"} \subseteq DOMAIN config.chain
  BY DEF IsConfig, IsBehavior
<1>3. DOMAIN derived = DOMAIN config.chain.structure /\ derived = [i \in DOMAIN derived |-> derived[i]]
  BY <1>1
<1>4. IsSlice(derived)
  BY <1>2, <1>3, MapSlice
<1>5. /\ DOMAIN c = DOMAIN config.chain /\ c.structure = derived
      /\ c.sources = config.chain.sources /\ c.conditions = config.chain.conditions
  BY <1>2
<1>6. chain = deriveBehavior(c, config.type, map)
  BY <1>1
<1> HIDE DEF c
<1>7. IsChain(c)
  BY <1>2, <1>4, <1>5 DEF IsChain, IsBehavior
<1> QED BY <1>6, <1>7, DeriveBehaviorFacts

\* The chain a configuration is stored with is a clock chain.
LEMMA ResolvedChainFacts ==
  ASSUME NEW config, IsConfig(config), NEW defs, NEW chain \in resolvedChain(config, defs)
  PROVE  IsChain(chain)
<1>1. PICK c : /\ c \in IF config.type = "" THEN {config.chain}
                        ELSE ResolveClockChain(config, ptpConfig, defs, LabelMap)
               /\ chain = populatePhaseAdjustments(c, defs)
  BY DEF resolvedChain
<1>2. IsChain(c)
  <2>1. CASE config.type = ""
    BY <1>1, <2>1 DEF IsConfig, IsChain
  <2>2. CASE config.type # ""
    BY <1>1, <2>2, ResolveClockChainFacts
  <2> QED BY <2>1, <2>2
<1>3. PICK s : /\ s = [i \in DOMAIN c.structure |-> s[i]]
               /\ chain = [c EXCEPT !.structure = s]
  BY <1>1 DEF populatePhaseAdjustments
<1>4. /\ "structure" \in DOMAIN c /\ IsSlice(c.structure) /\ IsBehavior(c)
      /\ {"sources", "conditions"} \subseteq DOMAIN c
  BY <1>2 DEF IsChain, IsBehavior
<1>5. DOMAIN s = DOMAIN c.structure /\ s = [i \in DOMAIN s |-> s[i]]
  BY <1>3
<1>6. IsSlice(s)
  BY <1>4, <1>5, MapSlice
<1>7. /\ DOMAIN chain = DOMAIN c /\ chain.structure = s
      /\ chain.sources = c.sources /\ chain.conditions = c.conditions
  BY <1>3, <1>4
<1> QED BY <1>4, <1>6, <1>7 DEF IsChain, IsBehavior

-----------------------------------------------------------------------------
(* The commands of a condition: files are files, and the pins are pins of   *)
(* the chain's clocks.                                                      *)

\* Commands that write files and nothing else.
AreFiles(cmds) ==
  IsSlice(cmds) /\ \A i \in DOMAIN cmds : \A l \in DOMAIN cmds[i] : l[1] = "file"

\* File commands joined.
LEMMA FlattenFiles ==
  ASSUME NEW ss, IsSlice(ss), \A i \in DOMAIN ss : AreFiles(ss[i])
  PROVE  AreFiles(FlattenSeq(ss))
<1>1. /\ IsSlice(FlattenSeq(ss))
      /\ \A n \in DOMAIN FlattenSeq(ss) :
           \E i \in DOMAIN ss : \E j \in DOMAIN ss[i] : FlattenSeq(ss)[n] = ss[i][j]
  BY FlattenFacts DEF AreFiles
<1> QED BY <1>1 DEF AreFiles

\* r lists the elements of seq that are in S.
Lists(r, seq, S) ==
  /\ IsSlice(r)
  /\ \A n \in DOMAIN r : r[n] \in S /\ \E i \in DOMAIN seq : r[n] = seq[i]
  /\ \A i \in DOMAIN seq : seq[i] \in S => \E n \in DOMAIN r : r[n] = seq[i]

\* Keeping the elements of a set lists them and no other.
LEMMA FilterFacts ==
  ASSUME NEW seq, IsSlice(seq), NEW S, NEW r,
         r = FlattenSeq([i \in DOMAIN seq |-> IF seq[i] \in S THEN <<seq[i]>> ELSE <<>>])
  PROVE  Lists(r, seq, S)
<1> DEFINE ss == [i \in DOMAIN seq |-> IF seq[i] \in S THEN <<seq[i]>> ELSE <<>>]
<1>1. /\ DOMAIN ss = DOMAIN seq /\ ss = [i \in DOMAIN ss |-> ss[i]]
      /\ \A i \in DOMAIN seq : ss[i] = IF seq[i] \in S THEN <<seq[i]>> ELSE <<>>
  OBVIOUS
<1>2. r = FlattenSeq(ss)
  OBVIOUS
<1> HIDE DEF ss
<1>3. IsSlice(ss)
  BY <1>1, MapSlice
<1>4. \A i \in DOMAIN seq : /\ seq[i] \in S => IsSlice(ss[i]) /\ DOMAIN ss[i] = {1} /\ ss[i][1] = seq[i]
                            /\ seq[i] \notin S => IsSlice(ss[i]) /\ DOMAIN ss[i] = {}
  BY <1>1, OneSlice, EmptySlice
<1>5. /\ IsSlice(r)
      /\ \A n \in DOMAIN r : \E i \in DOMAIN ss : \E j \in DOMAIN ss[i] : r[n] = ss[i][j]
      /\ \A i \in DOMAIN ss : \A j \in DOMAIN ss[i] : \E n \in DOMAIN r : r[n] = ss[i][j]
  <2>1. \A i \in DOMAIN ss : IsSlice(ss[i])
    BY <1>1, <1>4
  <2>2. /\ IsSlice(FlattenSeq(ss))
        /\ \A n \in DOMAIN FlattenSeq(ss) :
             \E i \in DOMAIN ss : \E j \in DOMAIN ss[i] : FlattenSeq(ss)[n] = ss[i][j]
        /\ \A i \in DOMAIN ss : \A j \in DOMAIN ss[i] :
             \E n \in DOMAIN FlattenSeq(ss) : FlattenSeq(ss)[n] = ss[i][j]
    BY <1>3, <2>1, FlattenFacts
  <2> DEFINE z == FlattenSeq(ss)
  <2>3. r = z
    BY <1>2
  <2>4. /\ IsSlice(z)
        /\ \A n \in DOMAIN z : \E i \in DOMAIN ss : \E j \in DOMAIN ss[i] : z[n] = ss[i][j]
        /\ \A i \in DOMAIN ss : \A j \in DOMAIN ss[i] : \E n \in DOMAIN z : z[n] = ss[i][j]
    BY <2>2
  <2> HIDE DEF z
  <2>5. IsSlice(r)
    BY <2>3, <2>4
  <2>6. ASSUME NEW n \in DOMAIN r
        PROVE  \E i \in DOMAIN ss : \E j \in DOMAIN ss[i] : r[n] = ss[i][j]
    <3>1. n \in DOMAIN z /\ r[n] = z[n]
      BY <2>3
    <3>2. \E i \in DOMAIN ss : \E j \in DOMAIN ss[i] : z[n] = ss[i][j]
      BY <2>4, <3>1, Zenon
    <3> QED BY <3>1, <3>2
  <2>7. ASSUME NEW i \in DOMAIN ss, NEW j \in DOMAIN ss[i]
        PROVE  \E n \in DOMAIN r : r[n] = ss[i][j]
    <3>1. PICK n \in DOMAIN z : z[n] = ss[i][j]
      BY <2>4, Zenon
    <3> QED BY <2>3, <3>1
  <2> QED BY <2>5, <2>6, <2>7
<1>6. ASSUME NEW n \in DOMAIN r PROVE r[n] \in S /\ \E i \in DOMAIN seq : r[n] = seq[i]
  BY <1>1, <1>4, <1>5
<1>7. ASSUME NEW i \in DOMAIN seq, seq[i] \in S PROVE \E n \in DOMAIN r : r[n] = seq[i]
  <2>1. 1 \in DOMAIN ss[i] /\ ss[i][1] = seq[i]
    BY <1>4, <1>7
  <2>2. i \in DOMAIN ss
    BY <1>1, <1>7
  <2>3. \E n \in DOMAIN r : r[n] = ss[i][1]
    BY <1>5, <2>1, <2>2, Zenon
  <2> QED BY <2>1, <2>3
<1> QED BY <1>5, <1>6, <1>7 DEF Lists

\* A source names finitely many interfaces.
LEMMA InterfacesFinite ==
  ASSUME NEW chain, IsChain(chain), NEW name
  PROVE  IsFiniteSet(getInterfaceNameFromSources(name, chain))
<1> DEFINE D == DOMAIN chain.structure
           f == [i \in D |-> networkInterface(chain.structure[i])]
           I == {f[i] : i \in D}
<1>1. IsFiniteSet(D)
  <2>1. Len(chain.structure) \in Nat /\ D = 1..Len(chain.structure)
    BY SliceFacts DEF IsChain
  <2> DEFINE n == Len(chain.structure)
  <2>2. 1 \in Int /\ n \in Int
    BY <2>1
  <2> HIDE DEF n
  <2>3. IsFiniteSet(1..n)
    BY <2>2, FS_Interval
  <2> QED BY <2>1, <2>3 DEF n
<1>2. ASSUME NEW x \in getInterfaceNameFromSources(name, chain) PROVE x \in I
  <2>1. PICK source : \E s \in subsystemNamed(chain, source.subsystem) : x = networkInterface(s)
    BY DEF getInterfaceNameFromSources
  <2>2. PICK s \in subsystemNamed(chain, source.subsystem) : x = networkInterface(s)
    BY <2>1
  <2>3. PICK i \in D : s = chain.structure[i]
    BY <2>2 DEF subsystemNamed, firstSuchThat
  <2> QED BY <2>2, <2>3
<1> HIDE DEF D, f
<1>3. IsFiniteSet(I)
  BY <1>1, FiniteImage
<1> HIDE DEF I
<1> QED BY <1>2, <1>3, FS_Subset

\* A desired PTP pin or period resolves to file commands.
LEMMA PTPFilesFacts ==
  ASSUME NEW chain, IsChain(chain), NEW p
  PROVE  AreFiles(processPTPPinConfig(p, chain))
<1> DEFINE s == SetToSeq(getInterfaceNameFromSources(p.source, chain))
           paths(iface) == defaultResolveSysFSPtpDevice(iface, p.file)
           of(iface) == [j \in DOMAIN paths(iface) |-> fileCommand(paths(iface)[j], p.value)]
           ss == [i \in DOMAIN s |-> of(s[i])]
<1>1. processPTPPinConfig(p, chain) = FlattenSeq(ss)
  BY DEF processPTPPinConfig, concat
<1>2. ASSUME NEW iface PROVE AreFiles(of(iface))
  <2> DEFINE devices == IF iface \in DOMAIN PtpDevices THEN PtpDevices[iface] ELSE <<>>
             t == paths(iface)
             u == of(iface)
  <2>1. IsSlice(devices)
    BY PtpDevicesAssumption, EmptySlice
  <2>2. t = [i \in DOMAIN devices |-> <<"file", iface, devices[i], p.file>>]
    BY DEF defaultResolveSysFSPtpDevice
  <2>3. /\ DOMAIN u = DOMAIN t /\ u = [j \in DOMAIN u |-> u[j]]
        /\ \A j \in DOMAIN u : u[j] = fileCommand(t[j], p.value)
    OBVIOUS
  <2> HIDE DEF devices, t, u
  <2>4. /\ DOMAIN t = DOMAIN devices /\ t = [i \in DOMAIN t |-> t[i]]
        /\ \A i \in DOMAIN t : t[i][1] = "file"
    BY <2>2
  <2>5. IsSlice(t) /\ IsSlice(u)
    BY <2>1, <2>3, <2>4, MapSlice
  <2>6. ASSUME NEW j \in DOMAIN u, NEW l \in DOMAIN u[j] PROVE l[1] = "file"
    <3>1. u[j] = [m \in {t[j]} |-> p.value]
      BY <2>3, <2>6 DEF fileCommand
    <3>2. l = t[j]
      BY <2>6, <3>1
    <3> QED BY <2>3, <2>4, <2>6, <3>2
  <2>7. AreFiles(u)
    BY <2>5, <2>6 DEF AreFiles
  <2> QED BY <2>7 DEF u
<1>3. IsSlice(s)
  BY InterfacesFinite, SetToSeqFacts
<1> HIDE DEF of, s
<1>4. DOMAIN ss = DOMAIN s /\ ss = [i \in DOMAIN ss |-> ss[i]] /\ \A i \in DOMAIN ss : ss[i] = of(s[i])
  OBVIOUS
<1> HIDE DEF ss
<1>5. IsSlice(ss) /\ \A i \in DOMAIN ss : AreFiles(ss[i])
  BY <1>2, <1>3, <1>4, MapSlice
<1> QED BY <1>1, <1>5, FlattenFiles

\* A desired state names finitely many pins and files.
IsState(s) == IsFiniteSet(s.dpll) /\ IsFiniteSet(s.pin) /\ IsFiniteSet(s.period)

\* The files of a desired state.
LEMMA StateFilesFacts ==
  ASSUME NEW chain, IsChain(chain), NEW state, IsState(state)
  PROVE  IsSlice(ptpParts(state)) /\ AreFiles(sysfsOf(state, chain))
<1> DEFINE c == ptpParts(state)
           ss == [i \in DOMAIN c |-> processPTPPinConfig(c[i], chain)]
<1>1. sysfsOf(state, chain) = FlattenSeq(ss)
  BY DEF sysfsOf, concat
<1>2. IsSlice(SetToSeq(state.pin)) /\ IsSlice(SetToSeq(state.period))
  BY SetToSeqFacts DEF IsState
<1>3. IsSlice(c)
  BY <1>2, JoinSlices DEF ptpParts
<1> HIDE DEF c
<1>4. /\ DOMAIN ss = DOMAIN c /\ ss = [i \in DOMAIN ss |-> ss[i]]
      /\ \A i \in DOMAIN ss : ss[i] = processPTPPinConfig(c[i], chain)
  OBVIOUS
<1> HIDE DEF ss
<1>5. IsSlice(ss) /\ \A i \in DOMAIN ss : AreFiles(ss[i])
  BY <1>3, <1>4, MapSlice, PTPFilesFacts
<1> QED BY <1>1, <1>3, <1>5, FlattenFiles DEF c

\* The files of a condition.
LEMMA ConditionFilesFacts ==
  ASSUME NEW chain, IsChain(chain), NEW k, IsCondition(k)
  PROVE  AreFiles(resolveSysFSCommands(k, chain))
<1> DEFINE ss == [i \in DOMAIN k.states |-> sysfsOf(k.states[i], chain)]
<1>1. resolveSysFSCommands(k, chain) = FlattenSeq(ss)
  BY DEF resolveSysFSCommands, concat
<1>2. IsSlice(k.states) /\ \A i \in DOMAIN k.states : IsState(k.states[i])
  BY DEF IsCondition, IsState
<1>3. /\ DOMAIN ss = DOMAIN k.states /\ ss = [i \in DOMAIN ss |-> ss[i]]
      /\ \A i \in DOMAIN ss : ss[i] = sysfsOf(k.states[i], chain)
  OBVIOUS
<1> HIDE DEF ss
<1>4. IsSlice(ss) /\ \A i \in DOMAIN ss : AreFiles(ss[i])
  BY <1>2, <1>3, MapSlice, StateFilesFacts
<1> QED BY <1>1, <1>4, FlattenFiles

\* The clocks of a chain's subsystems, and the pins of those clocks.
chainClocks(chain) ==
  {getClockIDCached(networkInterface(s), s.hwDef, Dump) : s \in ToSet(chain.structure)}
chainIds(chain) == {p.id : p \in {q \in Dump : q.clock \in chainClocks(chain)}}

\* A desired DPLL state resolves to finitely many commands, for different
\* pins, all of the chain's own clocks.
LEMMA DesiredStateFacts ==
  ASSUME NEW pinsKnown \in {{}, Dump}, NEW d, NEW chain
  PROVE  /\ IsFiniteSet(createPinCommandForDPLLDesiredState(pinsKnown, d, chain))
         /\ \A c \in createPinCommandForDPLLDesiredState(pinsKnown, d, chain) : c.id \in chainIds(chain)
         /\ \A c, e \in createPinCommandForDPLLDesiredState(pinsKnown, d, chain) : c.id = e.id => c = e
<1> DEFINE C == createPinCommandForDPLLDesiredState(pinsKnown, d, chain)
           P == UNION {GetPin(pinsKnown, clock, d.label) :
                         clock \in subsystemClock(chain, d.subsystem, pinsKnown)}
           cmd(pin) == [id |-> pin.id,
                        set |-> parentFields(pin, d.want, {<<"prio", "in">>, <<"state", "in">>,
                                                           <<"state", "out">>})]
           f == [pin \in Dump |-> cmd(pin)]
           I == {f[pin] : pin \in Dump}
<1>1. C \subseteq {cmd(pin) : pin \in P}
  BY DEF createPinCommandForDPLLDesiredState
<1>2. \A pin \in P : pin \in Dump /\ pin.clock \in chainClocks(chain)
  <2> SUFFICES ASSUME NEW pin \in P PROVE pin \in Dump /\ pin.clock \in chainClocks(chain)
    OBVIOUS
  <2>1. PICK clock \in subsystemClock(chain, d.subsystem, pinsKnown) :
          pin \in GetPin(pinsKnown, clock, d.label)
    OBVIOUS
  <2>2. pin \in pinsKnown /\ pin.clock = clock
    BY <2>1 DEF GetPin
  <2>3. pinsKnown = Dump
    BY <2>2
  <2>4. PICK s \in subsystemNamed(chain, d.subsystem) :
          clock = getClockIDCached(networkInterface(s), s.hwDef, pinsKnown)
    BY <2>1 DEF subsystemClock
  <2>5. s \in ToSet(chain.structure)
    BY <2>4 DEF subsystemNamed, firstSuchThat, ToSet
  <2> QED BY <2>2, <2>3, <2>4, <2>5 DEF chainClocks
<1> HIDE DEF P
<1>3. /\ \A pin : cmd(pin).id = pin.id
      /\ \A pin \in Dump : f[pin] = cmd(pin)
  OBVIOUS
<1> HIDE DEF cmd, f
<1>4. C \subseteq I
  BY <1>1, <1>2, <1>3
<1>5. IsFiniteSet(I)
  BY DumpAssumption, FiniteImage
<1> HIDE DEF I, C
<1>6. IsFiniteSet(C)
  BY <1>4, <1>5, FS_Subset
<1>7. \A c \in C : \E pin \in P : c = cmd(pin)
  BY <1>1
<1>8. ASSUME NEW c \in C PROVE c.id \in chainIds(chain)
  <2>1. PICK pin \in P : c = cmd(pin)
    BY <1>7
  <2> QED BY <1>2, <1>3, <2>1 DEF chainIds
<1>9. ASSUME NEW c \in C, NEW e \in C, c.id = e.id PROVE c = e
  <2>1. PICK pin \in P : c = cmd(pin)
    BY <1>7
  <2>2. PICK other \in P : e = cmd(other)
    BY <1>7
  <2>3. pin.id = other.id /\ pin \in Dump /\ other \in Dump
    BY <1>2, <1>3, <1>9, <2>1, <2>2
  <2>4. pin = other
    BY <2>3, DumpAssumption
  <2> QED BY <2>1, <2>2, <2>4
<1> QED BY <1>6, <1>8, <1>9 DEF C

\* The commands of a desired state's pins, in the order they are resolved.
LEMMA StatePinsFacts ==
  ASSUME NEW chain, NEW state, IsState(state), NEW ss,
         ss = [j \in DOMAIN SetToSeq(state.dpll) |->
                 SetToSeq(createPinCommandForDPLLDesiredState(Dump, SetToSeq(state.dpll)[j], chain))]
  PROVE  /\ IsSlice(ss) /\ \A j \in DOMAIN ss : IsSlice(ss[j])
         /\ \A j \in DOMAIN ss : \A n \in DOMAIN ss[j] : ss[j][n].id \in chainIds(chain)
<1> DEFINE s == SetToSeq(state.dpll)
           C(d) == createPinCommandForDPLLDesiredState(Dump, d, chain)
<1>1. IsSlice(s)
  BY SetToSeqFacts DEF IsState
<1>2. \A d : IsFiniteSet(C(d)) /\ \A c \in C(d) : c.id \in chainIds(chain)
  BY DesiredStateFacts
<1>3. \A d : IsSlice(SetToSeq(C(d))) /\ \A n \in DOMAIN SetToSeq(C(d)) : SetToSeq(C(d))[n] \in C(d)
  BY <1>2, SetToSeqFacts
<1> HIDE DEF s, C
<1>4. /\ DOMAIN ss = DOMAIN s /\ ss = [j \in DOMAIN ss |-> ss[j]]
      /\ \A j \in DOMAIN ss : ss[j] = SetToSeq(C(s[j]))
  BY DEF s, C
<1>5. IsSlice(ss)
  BY <1>1, <1>4, MapSlice
<1> QED BY <1>2, <1>3, <1>4, <1>5

\* So do all the desired states of a condition, one after another.
LEMMA ConditionPinsFacts ==
  ASSUME NEW chain, NEW k, IsCondition(k)
  PROVE  /\ IsSlice(resolveDpllPinCommands(Dump, k, chain))
         /\ \A i \in DOMAIN resolveDpllPinCommands(Dump, k, chain) :
              resolveDpllPinCommands(Dump, k, chain)[i].id \in chainIds(chain)
<1> DEFINE s(state) == [j \in DOMAIN SetToSeq(state.dpll) |->
                          SetToSeq(createPinCommandForDPLLDesiredState(Dump, SetToSeq(state.dpll)[j], chain))]
           tt == [i \in DOMAIN k.states |-> FlattenSeq(s(k.states[i]))]
           r == resolveDpllPinCommands(Dump, k, chain)
<1>1. r = FlattenSeq(tt)
  BY DEF resolveDpllPinCommands, concat
<1>2. IsSlice(k.states) /\ \A i \in DOMAIN k.states : IsState(k.states[i])
  BY DEF IsCondition, IsState
<1>3. ASSUME NEW state, IsState(state)
      PROVE  /\ IsSlice(FlattenSeq(s(state)))
             /\ \A n \in DOMAIN FlattenSeq(s(state)) : FlattenSeq(s(state))[n].id \in chainIds(chain)
  <2> DEFINE u == s(state)
  <2>1. /\ IsSlice(u) /\ \A j \in DOMAIN u : IsSlice(u[j])
        /\ \A j \in DOMAIN u : \A n \in DOMAIN u[j] : u[j][n].id \in chainIds(chain)
    BY <1>3, StatePinsFacts
  <2> HIDE DEF u
  <2>2. /\ IsSlice(FlattenSeq(u))
        /\ \A n \in DOMAIN FlattenSeq(u) : \E i \in DOMAIN u : \E j \in DOMAIN u[i] : FlattenSeq(u)[n] = u[i][j]
    BY <2>1, FlattenFacts
  <2>3. \A n \in DOMAIN FlattenSeq(u) : FlattenSeq(u)[n].id \in chainIds(chain)
    BY <2>1, <2>2
  <2> QED BY <2>2, <2>3 DEF u
<1> HIDE DEF s
<1>4. /\ DOMAIN tt = DOMAIN k.states /\ tt = [i \in DOMAIN tt |-> tt[i]]
      /\ \A i \in DOMAIN tt : tt[i] = FlattenSeq(s(k.states[i]))
  OBVIOUS
<1> HIDE DEF tt, r
<1>5. IsSlice(tt)
  BY <1>2, <1>4, MapSlice
<1>6. \A i \in DOMAIN tt : IsSlice(tt[i]) /\ \A n \in DOMAIN tt[i] : tt[i][n].id \in chainIds(chain)
  BY <1>2, <1>3, <1>4
<1>7. /\ IsSlice(FlattenSeq(tt))
      /\ \A n \in DOMAIN FlattenSeq(tt) : \E i \in DOMAIN tt : \E j \in DOMAIN tt[i] : FlattenSeq(tt)[n] = tt[i][j]
  BY <1>5, <1>6, FlattenFacts
<1>8. \A n \in DOMAIN FlattenSeq(tt) : FlattenSeq(tt)[n].id \in chainIds(chain)
  BY <1>6, <1>7
<1>9. IsSlice(r) /\ \A n \in DOMAIN r : r[n].id \in chainIds(chain)
  BY <1>1, <1>7, <1>8
<1> QED BY <1>9 DEF r

\* A map with an entry for each name that has commands.
LEMMA EntriesFacts ==
  ASSUME NEW s, IsSlice(s), NEW f, NEW m,
         m = laterWins([i \in DOMAIN s |-> [name \in {n \in {s[i].name} : f[i] # <<>>} |-> f[i]]])
  PROVE  /\ \A name \in DOMAIN m : \E i \in DOMAIN s : s[i].name = name /\ m[name] = f[i]
         /\ \A i \in DOMAIN s : f[i] # <<>> => s[i].name \in DOMAIN m
<1> DEFINE e(i) == [name \in {n \in {s[i].name} : f[i] # <<>>} |-> f[i]]
           fs == [i \in DOMAIN s |-> e(i)]
<1>1. \A i \in DOMAIN s : /\ \A name : name \in DOMAIN e(i) <=> name = s[i].name /\ f[i] # <<>>
                          /\ \A name \in DOMAIN e(i) : e(i)[name] = f[i]
  OBVIOUS
<1>2. m = laterWins(fs)
  OBVIOUS
<1> HIDE DEF e
<1>3. DOMAIN fs = DOMAIN s /\ fs = [i \in DOMAIN fs |-> fs[i]] /\ \A i \in DOMAIN s : fs[i] = e(i)
  OBVIOUS
<1> HIDE DEF fs
<1>4. IsSlice(fs)
  BY <1>3, MapSlice
<1>5. ASSUME NEW name \in DOMAIN m PROVE \E i \in DOMAIN s : s[i].name = name /\ m[name] = f[i]
  <2>1. name \in DOMAIN laterWins(fs) /\ m[name] = laterWins(fs)[name]
    BY <1>2
  <2>2. PICK i \in DOMAIN fs : name \in DOMAIN fs[i] /\ laterWins(fs)[name] = fs[i][name]
    BY <1>4, <2>1, LaterWinsFrom
  <2>3. i \in DOMAIN s /\ fs[i] = e(i)
    BY <1>3, <2>2
  <2>4. s[i].name = name /\ e(i)[name] = f[i]
    BY <1>1, <2>2, <2>3
  <2>5. m[name] = f[i]
    BY <2>1, <2>2, <2>3, <2>4
  <2> QED BY <2>3, <2>4, <2>5
<1>6. ASSUME NEW i \in DOMAIN s, f[i] # <<>> PROVE s[i].name \in DOMAIN m
  <2>1. s[i].name \in DOMAIN fs[i] /\ i \in DOMAIN fs
    BY <1>1, <1>3, <1>6
  <2>2. s[i].name \in DOMAIN laterWins(fs)
    BY <2>1, LaterWinsDomain
  <2> QED BY <1>2, <2>2
<1> QED BY <1>5, <1>6

\* What the behaviour caches for a name are the commands of a condition of
\* that name, and every triggered condition with commands has its name cached.
LEMMA BehaviorFacts ==
  ASSUME NEW chain, IsChain(chain), NEW b \in resolveClockChainBehavior(Dump, chain)
  PROVE  /\ \A name \in DOMAIN b.pins : \E k \in DOMAIN chain.conditions :
              /\ chain.conditions[k].name = name /\ chain.conditions[k].triggers # {}
              /\ b.pins[name] = resolveDpllPinCommands(Dump, chain.conditions[k], chain)
         /\ \A name \in DOMAIN b.sysfs : \E k \in DOMAIN chain.conditions :
              /\ chain.conditions[k].name = name /\ chain.conditions[k].triggers # {}
              /\ b.sysfs[name] = resolveSysFSCommands(chain.conditions[k], chain)
         /\ \A k \in DOMAIN chain.conditions : chain.conditions[k].triggers # {} =>
              /\ resolveDpllPinCommands(Dump, chain.conditions[k], chain) # <<>> =>
                   chain.conditions[k].name \in DOMAIN b.pins
              /\ resolveSysFSCommands(chain.conditions[k], chain) # <<>> =>
                   chain.conditions[k].name \in DOMAIN b.sysfs
<1> DEFINE cs == chain.conditions
           S == {c \in ToSet(cs) : c.triggers # {}}
           t == FlattenSeq([i \in DOMAIN cs |-> IF cs[i] \in S THEN <<cs[i]>> ELSE <<>>])
           u == FlattenSeq([i \in DOMAIN cs |-> IF cs[i].triggers # {} THEN <<cs[i]>> ELSE <<>>])
           P(c) == resolveDpllPinCommands(Dump, c, chain)
           F(c) == resolveSysFSCommands(c, chain)
           f == [i \in DOMAIN t |-> P(t[i])]
           g == [i \in DOMAIN t |-> F(t[i])]
           mp == laterWins([i \in DOMAIN t |-> [name \in {n \in {t[i].name} : f[i] # <<>>} |-> f[i]]])
           ms == laterWins([i \in DOMAIN t |-> [name \in {n \in {t[i].name} : g[i] # <<>>} |-> g[i]]])
           vp == laterWins([i \in DOMAIN u |-> [name \in {n \in {u[i].name} : P(u[i]) # <<>>} |-> P(u[i])]])
           vs == laterWins([i \in DOMAIN u |-> [name \in {n \in {u[i].name} : F(u[i]) # <<>>} |-> F(u[i])]])
<1>1. b = [pins |-> vp, sysfs |-> vs]
  BY DEF resolveClockChainBehavior, suchThat, concat
<1>2. u = t
  <2>1. \A i \in DOMAIN cs : cs[i] \in S <=> cs[i].triggers # {}
    BY DEF ToSet
  <2> HIDE DEF S
  <2> QED BY <2>1
<1>3. IsSlice(cs)
  BY DEF IsChain, IsBehavior
<1>t. t = FlattenSeq([i \in DOMAIN cs |-> IF cs[i] \in S THEN <<cs[i]>> ELSE <<>>])
  OBVIOUS
<1> HIDE DEF S, t, u, P, F
<1>4. /\ IsSlice(t)
      /\ \A n \in DOMAIN t : t[n] \in S /\ \E i \in DOMAIN cs : t[n] = cs[i]
      /\ \A i \in DOMAIN cs : cs[i] \in S => \E n \in DOMAIN t : t[n] = cs[i]
  <2>1. Lists(t, cs, S)
    BY <1>3, <1>t, FilterFacts
  <2> QED BY <2>1 DEF Lists
<1>5. b = [pins |-> mp, sysfs |-> ms]
  <2>1. vp = laterWins([i \in DOMAIN t |-> [name \in {n \in {t[i].name} : P(t[i]) # <<>>} |-> P(t[i])]])
    BY <1>2
  <2>2. vs = laterWins([i \in DOMAIN t |-> [name \in {n \in {t[i].name} : F(t[i]) # <<>>} |-> F(t[i])]])
    BY <1>2
  <2>3. \A i \in DOMAIN t : f[i] = P(t[i]) /\ g[i] = F(t[i])
    OBVIOUS
  <2> HIDE DEF f, g, vp, vs
  <2>4. [i \in DOMAIN t |-> [name \in {n \in {t[i].name} : P(t[i]) # <<>>} |-> P(t[i])]]
        = [i \in DOMAIN t |-> [name \in {n \in {t[i].name} : f[i] # <<>>} |-> f[i]]]
    BY <2>3
  <2>5. [i \in DOMAIN t |-> [name \in {n \in {t[i].name} : F(t[i]) # <<>>} |-> F(t[i])]]
        = [i \in DOMAIN t |-> [name \in {n \in {t[i].name} : g[i] # <<>>} |-> g[i]]]
    BY <2>3
  <2> QED BY <1>1, <2>1, <2>2, <2>4, <2>5
<1>6. /\ \A name \in DOMAIN mp : \E i \in DOMAIN t : t[i].name = name /\ mp[name] = f[i]
      /\ \A i \in DOMAIN t : f[i] # <<>> => t[i].name \in DOMAIN mp
  BY <1>4, EntriesFacts
<1>7. /\ \A name \in DOMAIN ms : \E i \in DOMAIN t : t[i].name = name /\ ms[name] = g[i]
      /\ \A i \in DOMAIN t : g[i] # <<>> => t[i].name \in DOMAIN ms
  BY <1>4, EntriesFacts
<1> HIDE DEF mp, ms
<1>8. \A c \in S : c.triggers # {}
  BY DEF S
<1>9. ASSUME NEW name \in DOMAIN mp
      PROVE  \E k \in DOMAIN cs : /\ cs[k].name = name /\ cs[k].triggers # {}
                                  /\ mp[name] = P(cs[k])
  <2>1. PICK i \in DOMAIN t : t[i].name = name /\ mp[name] = f[i]
    BY <1>6
  <2>2. PICK k \in DOMAIN cs : t[i] = cs[k]
    BY <1>4
  <2> QED BY <1>4, <1>8, <2>1, <2>2
<1>10. ASSUME NEW name \in DOMAIN ms
       PROVE  \E k \in DOMAIN cs : /\ cs[k].name = name /\ cs[k].triggers # {}
                                   /\ ms[name] = F(cs[k])
  <2>1. PICK i \in DOMAIN t : t[i].name = name /\ ms[name] = g[i]
    BY <1>7
  <2>2. PICK k \in DOMAIN cs : t[i] = cs[k]
    BY <1>4
  <2> QED BY <1>4, <1>8, <2>1, <2>2
<1>11. ASSUME NEW k \in DOMAIN cs, cs[k].triggers # {}
       PROVE  /\ P(cs[k]) # <<>> => cs[k].name \in DOMAIN mp
              /\ F(cs[k]) # <<>> => cs[k].name \in DOMAIN ms
  <2>1. cs[k] \in S
    BY <1>11 DEF S, ToSet
  <2>2. PICK i \in DOMAIN t : t[i] = cs[k]
    BY <1>4, <2>1
  <2> QED BY <1>6, <1>7, <2>2
<1>12. b.pins = mp /\ b.sysfs = ms
  BY <1>5
<1> HIDE DEF f, g
<1> QED BY <1>9, <1>10, <1>11, <1>12 DEF P, F

-----------------------------------------------------------------------------
(* The steps of an application: which pins they write.                      *)

\* A step writes files, or pins of the given IDs.
StepOn(step, ids) ==
  /\ step.do # "resume"
  /\ step.do = "files" => AreFiles(step.cmds)
  /\ step.do = "pins" => \A c \in step.cmds : c.id \in ids
\* A list of such steps.
StepsOn(steps, ids) == IsSlice(steps) /\ \A i \in DOMAIN steps : StepOn(steps[i], ids)

\* Lists of steps on the same pins joined.
LEMMA FlattenSteps ==
  ASSUME NEW ids, NEW ss, IsSlice(ss), \A i \in DOMAIN ss : StepsOn(ss[i], ids)
  PROVE  StepsOn(FlattenSeq(ss), ids)
<1>1. /\ IsSlice(FlattenSeq(ss))
      /\ \A n \in DOMAIN FlattenSeq(ss) :
           \E i \in DOMAIN ss : \E j \in DOMAIN ss[i] : FlattenSeq(ss)[n] = ss[i][j]
  BY FlattenFacts DEF StepsOn
<1>2. \A n \in DOMAIN FlattenSeq(ss) : StepOn(FlattenSeq(ss)[n], ids)
  BY <1>1 DEF StepsOn
<1> QED BY <1>1, <1>2 DEF StepsOn

\* Two of them appended.
LEMMA JoinSteps ==
  ASSUME NEW ids, NEW a, StepsOn(a, ids), NEW b, StepsOn(b, ids)
  PROVE  StepsOn(a \o b, ids)
<1>1. IsSlice(a) /\ IsSlice(b)
  BY DEF StepsOn
<1>2. IsSlice(a \o b)
  BY <1>1, JoinSlices
<1>3. /\ \A i \in DOMAIN a : (a \o b)[i] = a[i]
      /\ \A i \in DOMAIN b : (a \o b)[i + Len(a)] = b[i]
      /\ \A j \in DOMAIN (a \o b) : j \in DOMAIN a \/ (j - Len(a) \in DOMAIN b /\ (j - Len(a)) + Len(a) = j)
  BY <1>1, JoinParts
<1>4. ASSUME NEW j \in DOMAIN (a \o b) PROVE StepOn((a \o b)[j], ids)
  <2>1. CASE j \in DOMAIN a
    BY <1>3, <2>1 DEF StepsOn
  <2>2. CASE j - Len(a) \in DOMAIN b /\ (j - Len(a)) + Len(a) = j
    <3>1. (a \o b)[j] = b[j - Len(a)]
      BY <1>3, <2>2
    <3> QED BY <2>2, <3>1 DEF StepsOn
  <2> QED BY <1>3, <2>1, <2>2
<1> QED BY <1>2, <1>4 DEF StepsOn

\* A list of one.
LEMMA OneStep ==
  ASSUME NEW ids, NEW step, StepOn(step, ids)
  PROVE  StepsOn(<<step>>, ids)
BY OneSlice DEF StepsOn

\* The empty list.
LEMMA NoSteps == ASSUME NEW ids PROVE StepsOn(<<>>, ids)
BY EmptySlice DEF StepsOn

\* A list of steps on some pins is one on more pins.
LEMMA MoreIds ==
  ASSUME NEW ids, NEW more, ids \subseteq more, NEW steps, StepsOn(steps, ids)
  PROVE  StepsOn(steps, more)
BY DEF StepsOn, StepOn

\* Executing a desired state writes only pins of the chain.
LEMMA AppliedStateFacts ==
  ASSUME pinCache \in {{}, Dump}, NEW chain, IsChain(chain), NEW s, IsState(s)
  PROVE  StepsOn(applyState(s, chain), chainIds(chain))
<1> DEFINE ids == chainIds(chain)
           dpll == SetToSeq(s.dpll)
           ps == [i \in DOMAIN dpll |-> applyPin(dpll[i], chain)]
           ptp == ptpParts(s)
           fs == [i \in DOMAIN ptp |-> applyFile(ptp[i], chain)]
<1>1. ASSUME NEW d PROVE StepOn(applyPin(d, chain), ids)
  <2>1. \/ applyPin(d, chain).do = "panic" \/ applyPin(d, chain).do = "fail"
        \/ applyPin(d, chain) = pins(createPinCommandForDPLLDesiredState(pinCache, d, chain))
    BY DEF applyPin, panic, fail
  <2>2. \A c \in createPinCommandForDPLLDesiredState(pinCache, d, chain) : c.id \in ids
    BY DesiredStateFacts
  <2> QED BY <2>1, <2>2 DEF StepOn, pins
<1>2. ASSUME NEW p PROVE StepOn(applyFile(p, chain), ids)
  BY PTPFilesFacts DEF applyFile, StepOn, files, fail
<1>3. IsSlice(dpll) /\ IsSlice(ptp)
  BY SetToSeqFacts, StateFilesFacts DEF IsState
<1>4. applyState(s, chain) = fs \o ps
  BY DEF applyState
<1> HIDE DEF ids, dpll, ptp
<1>5. /\ DOMAIN ps = DOMAIN dpll /\ ps = [i \in DOMAIN ps |-> ps[i]]
      /\ \A i \in DOMAIN ps : ps[i] = applyPin(dpll[i], chain)
  OBVIOUS
<1>6. /\ DOMAIN fs = DOMAIN ptp /\ fs = [i \in DOMAIN fs |-> fs[i]]
      /\ \A i \in DOMAIN fs : fs[i] = applyFile(ptp[i], chain)
  OBVIOUS
<1> HIDE DEF ps, fs
<1>7. StepsOn(ps, ids)
  BY <1>1, <1>3, <1>5, MapSlice DEF StepsOn
<1>8. StepsOn(fs, ids)
  BY <1>2, <1>3, <1>6, MapSlice DEF StepsOn
<1> QED BY <1>4, <1>7, <1>8, JoinSteps DEF ids

\* So does executing all of a condition, in order.
LEMMA AppliedStatesFacts ==
  ASSUME pinCache \in {{}, Dump}, NEW chain, IsChain(chain), NEW k, IsCondition(k)
  PROVE  StepsOn(applyDesiredStatesInOrder(k, chain), chainIds(chain))
<1> DEFINE ss == [i \in DOMAIN k.states |-> applyState(k.states[i], chain)]
<1>1. applyDesiredStatesInOrder(k, chain) = FlattenSeq(ss)
  BY DEF applyDesiredStatesInOrder, concat
<1>2. IsSlice(k.states) /\ \A i \in DOMAIN k.states : IsState(k.states[i])
  BY DEF IsCondition, IsState
<1>3. /\ DOMAIN ss = DOMAIN k.states /\ ss = [i \in DOMAIN ss |-> ss[i]]
      /\ \A i \in DOMAIN ss : ss[i] = applyState(k.states[i], chain)
  OBVIOUS
<1> HIDE DEF ss
<1>4. IsSlice(ss)
  BY <1>2, <1>3, MapSlice
<1>5. \A i \in DOMAIN ss : StepsOn(ss[i], chainIds(chain))
  BY <1>2, <1>3, AppliedStateFacts
<1> QED BY <1>1, <1>4, <1>5, FlattenSteps

\* Merged commands write the pins of the commands merged.
LEMMA MergedStepsFacts ==
  ASSUME NEW cmds, NEW ids, \A i \in DOMAIN cmds : cmds[i].id \in ids
  PROVE  StepsOn(applyDpllPinCommands(cmds), ids)
<1>1. applyDpllPinCommands(cmds) = <<>> \/ applyDpllPinCommands(cmds) = <<pins(mergePinCommandsByID(cmds))>>
  BY DEF applyDpllPinCommands
<1>2. \A c \in mergePinCommandsByID(cmds) : c.id \in ids
  BY DEF mergePinCommandsByID, idsOf
<1>3. StepOn(pins(mergePinCommandsByID(cmds)), ids)
  BY <1>2 DEF StepOn, pins
<1> QED BY <1>1, <1>3, OneStep, NoSteps

\* A stored configuration holds what its own chain resolves to.
Enriched(c) ==
  /\ {"profile", "chain", "pins", "sysfs", "structPins", "structSysfs", "gnss"} \subseteq DOMAIN c
  /\ IsChain(c.chain)
  /\ \E b \in resolveClockChainBehavior(Dump, c.chain) : c.pins = b.pins /\ c.sysfs = b.sysfs

\* What is cached under any name is files, and pins of the chain.
LEMMA CachedFacts ==
  ASSUME NEW c, Enriched(c), NEW name
  PROVE  /\ AreFiles(cached(c.sysfs, name)) /\ IsSlice(cached(c.pins, name))
         /\ \A i \in DOMAIN cached(c.pins, name) : cached(c.pins, name)[i].id \in chainIds(c.chain)
<1>1. PICK b \in resolveClockChainBehavior(Dump, c.chain) : c.pins = b.pins /\ c.sysfs = b.sysfs
  BY DEF Enriched
<1>2. IsChain(c.chain) /\ \A k \in DOMAIN c.chain.conditions : IsCondition(c.chain.conditions[k])
  BY DEF Enriched, IsChain, IsBehavior
<1>3. AreFiles(cached(c.sysfs, name))
  <2>1. CASE name \in DOMAIN c.sysfs
    <3>1. PICK k \in DOMAIN c.chain.conditions :
            c.sysfs[name] = resolveSysFSCommands(c.chain.conditions[k], c.chain)
      BY <1>1, <1>2, <2>1, BehaviorFacts
    <3> QED BY <1>2, <2>1, <3>1, ConditionFilesFacts DEF cached
  <2>2. CASE name \notin DOMAIN c.sysfs
    BY <2>2, EmptySlice DEF cached, AreFiles
  <2> QED BY <2>1, <2>2
<1>4. /\ IsSlice(cached(c.pins, name))
      /\ \A i \in DOMAIN cached(c.pins, name) : cached(c.pins, name)[i].id \in chainIds(c.chain)
  <2>1. CASE name \in DOMAIN c.pins
    <3>1. PICK k \in DOMAIN c.chain.conditions :
            c.pins[name] = resolveDpllPinCommands(Dump, c.chain.conditions[k], c.chain)
      BY <1>1, <1>2, <2>1, BehaviorFacts
    <3>2. cached(c.pins, name) = resolveDpllPinCommands(Dump, c.chain.conditions[k], c.chain)
      BY <2>1, <3>1 DEF cached
    <3> QED BY <1>2, <3>2, ConditionPinsFacts
  <2>2. CASE name \notin DOMAIN c.pins
    BY <2>2, EmptySlice DEF cached
  <2> QED BY <2>1, <2>2
<1> QED BY <1>3, <1>4

\* A transition's condition writes only pins of the chain, cached or not.
LEMMA AppliedConditionFacts ==
  ASSUME pinCache \in {{}, Dump}, NEW c, Enriched(c), NEW k, IsCondition(k)
  PROVE  StepsOn(applyCondition(c, k), chainIds(c.chain))
<1> DEFINE ids == chainIds(c.chain)
           sysfs == cached(c.sysfs, k.name)
           cmds == cached(c.pins, k.name)
<1>1. \/ applyCondition(c, k) = applyDesiredStatesInOrder(k, c.chain)
      \/ applyCondition(c, k) = <<files(sysfs)>> \o applyDpllPinCommands(cmds)
  BY DEF applyCondition
<1>2. AreFiles(sysfs) /\ \A i \in DOMAIN cmds : cmds[i].id \in ids
  BY CachedFacts
<1>3. IsChain(c.chain)
  BY DEF Enriched
<1>4. StepsOn(applyDesiredStatesInOrder(k, c.chain), ids)
  BY <1>3, AppliedStatesFacts
<1> HIDE DEF ids, sysfs, cmds
<1>5. StepOn(files(sysfs), ids)
  BY <1>2 DEF StepOn, files
<1>6. StepsOn(<<files(sysfs)>>, ids) /\ StepsOn(applyDpllPinCommands(cmds), ids)
  BY <1>2, <1>5, OneStep, MergedStepsFacts
<1>7. StepsOn(<<files(sysfs)>> \o applyDpllPinCommands(cmds), ids)
  BY <1>6, JoinSteps
<1> QED BY <1>1, <1>4, <1>7 DEF ids

\* r has elements of seq, each from where ss keeps it.
Keeps(r, ss, seq) ==
  /\ IsSlice(r)
  /\ \A n \in DOMAIN r : \E i \in DOMAIN seq : r[n] = seq[i] /\ ss[i] # <<>>

\* Keeping some elements of a slice keeps only elements of it.
LEMMA KeptFacts ==
  ASSUME NEW seq, IsSlice(seq), NEW ss, DOMAIN ss = DOMAIN seq, ss = [i \in DOMAIN ss |-> ss[i]],
         \A i \in DOMAIN seq : ss[i] = <<>> \/ ss[i] = <<seq[i]>>
  PROVE  Keeps(FlattenSeq(ss), ss, seq)
<1>1. IsSlice(ss)
  BY MapSlice
<1>2. \A i \in DOMAIN ss : /\ IsSlice(ss[i]) /\ \A j \in DOMAIN ss[i] : ss[i][j] = seq[i]
                           /\ ss[i] = <<>> => DOMAIN ss[i] = {}
  <2> TAKE i \in DOMAIN ss
  <2>1. CASE ss[i] = <<>>
    BY <2>1, EmptySlice
  <2>2. CASE ss[i] = <<seq[i]>>
    <3> DEFINE x == seq[i]
               y == ss[i]
    <3>1. IsSlice(<<x>>) /\ DOMAIN <<x>> = {1} /\ <<x>>[1] = x
      BY OneSlice
    <3>2. y = <<x>>
      BY <2>2
    <3> HIDE DEF x, y
    <3>3. IsSlice(y) /\ DOMAIN y = {1} /\ y[1] = x
      BY <3>1, <3>2
    <3>4. y # <<>>
      BY <3>3, EmptySlice
    <3> QED BY <3>3, <3>4 DEF x, y
  <2> QED BY <2>1, <2>2
<1>3. /\ IsSlice(FlattenSeq(ss))
      /\ \A n \in DOMAIN FlattenSeq(ss) :
           \E i \in DOMAIN ss : \E j \in DOMAIN ss[i] : FlattenSeq(ss)[n] = ss[i][j]
  BY <1>1, <1>2, FlattenFacts
<1>4. \A n \in DOMAIN FlattenSeq(ss) : \E i \in DOMAIN seq : FlattenSeq(ss)[n] = seq[i] /\ ss[i] # <<>>
  <2> DEFINE r == FlattenSeq(ss)
  <2> SUFFICES ASSUME NEW n \in DOMAIN r PROVE \E i \in DOMAIN seq : r[n] = seq[i] /\ ss[i] # <<>>
    OBVIOUS
  <2>1. PICK i \in DOMAIN ss : \E j \in DOMAIN ss[i] : r[n] = ss[i][j]
    BY <1>3, Zenon
  <2>2. PICK j \in DOMAIN ss[i] : r[n] = ss[i][j]
    BY <2>1
  <2> HIDE DEF r
  <2>3. r[n] = seq[i] /\ ss[i] # <<>>
    BY <1>2, <2>2
  <2> QED BY <2>3
<1> QED BY <1>3, <1>4 DEF Keeps

\* The conditions of a type, in the chain or of one of its sources.
LEMMA ExtractedFacts ==
  ASSUME NEW cs, AreConditions(cs), NEW type
  PROVE  /\ AreConditions(extractConditionsByType(cs, type))
         /\ \A source : AreConditions(extractConditionsByTypeAndSource(cs, type, source))
<1> DEFINE a == [i \in DOMAIN cs |-> IF \E t \in cs[i].triggers : t.type = type THEN <<cs[i]>> ELSE <<>>]
           b(s) == [i \in DOMAIN cs |-> IF [type |-> type, source |-> s] \in cs[i].triggers
                                        THEN <<cs[i]>> ELSE <<>>]
<1>1. extractConditionsByType(cs, type) = FlattenSeq(a)
  BY DEF extractConditionsByType, suchThat, concat
<1>2. \A s : extractConditionsByTypeAndSource(cs, type, s) = FlattenSeq(b(s))
  BY DEF extractConditionsByTypeAndSource, suchThat, concat
<1>3. /\ DOMAIN a = DOMAIN cs /\ a = [i \in DOMAIN a |-> a[i]]
      /\ \A i \in DOMAIN cs : a[i] = <<>> \/ a[i] = <<cs[i]>>
  OBVIOUS
<1>4. \A s : /\ DOMAIN b(s) = DOMAIN cs /\ b(s) = [i \in DOMAIN b(s) |-> b(s)[i]]
             /\ \A i \in DOMAIN cs : b(s)[i] = <<>> \/ b(s)[i] = <<cs[i]>>
  OBVIOUS
<1> HIDE DEF a, b
<1>5. Keeps(FlattenSeq(a), a, cs)
  BY <1>3, KeptFacts DEF AreConditions
<1>6. \A s : Keeps(FlattenSeq(b(s)), b(s), cs)
  BY <1>4, KeptFacts DEF AreConditions
<1>7. ASSUME NEW r, NEW ss, Keeps(r, ss, cs) PROVE AreConditions(r)
  BY <1>7 DEF Keeps, AreConditions
<1>8. AreConditions(FlattenSeq(a)) /\ \A s : AreConditions(FlattenSeq(b(s)))
  BY <1>5, <1>6, <1>7
<1> QED BY <1>1, <1>2, <1>8

\* Slices of conditions joined.
LEMMA FlattenConditions ==
  ASSUME NEW ss, IsSlice(ss), \A i \in DOMAIN ss : AreConditions(ss[i])
  PROVE  AreConditions(FlattenSeq(ss))
<1>1. /\ IsSlice(FlattenSeq(ss))
      /\ \A n \in DOMAIN FlattenSeq(ss) :
           \E i \in DOMAIN ss : \E j \in DOMAIN ss[i] : FlattenSeq(ss)[n] = ss[i][j]
  BY FlattenFacts DEF AreConditions
<1> QED BY <1>1 DEF AreConditions

\* The conditions of a type taken once by name are conditions.
LEMMA ConditionsOnceFacts ==
  ASSUME NEW chain, IsChain(chain), NEW type
  PROVE  AreConditions(conditionsOnce(chain, type))
<1> DEFINE ts == [i \in DOMAIN chain.sources |->
                    extractConditionsByTypeAndSource(chain.conditions, type, chain.sources[i].name)]
           all == FlattenSeq(ts)
           ss == [i \in DOMAIN all |->
                    IF \E j \in 1..(i - 1) : all[j].name = all[i].name THEN <<>> ELSE <<all[i]>>]
<1>1. conditionsOnce(chain, type) = FlattenSeq(ss)
  BY DEF conditionsOnce, concat
<1>2. IsSlice(chain.sources) /\ AreConditions(chain.conditions)
  BY DEF IsChain, IsBehavior, AreConditions
<1>3. DOMAIN ts = DOMAIN chain.sources /\ ts = [i \in DOMAIN ts |-> ts[i]]
  OBVIOUS
<1>4. \A i \in DOMAIN ts : AreConditions(ts[i])
  BY <1>2, ExtractedFacts
<1> HIDE DEF ts
<1>5. AreConditions(all)
  BY <1>2, <1>3, <1>4, MapSlice, FlattenConditions
<1> HIDE DEF all
<1>6. /\ DOMAIN ss = DOMAIN all /\ ss = [i \in DOMAIN ss |-> ss[i]]
      /\ \A i \in DOMAIN all : ss[i] = <<>> \/ ss[i] = <<all[i]>>
  OBVIOUS
<1> HIDE DEF ss
<1>7. Keeps(FlattenSeq(ss), ss, all)
  BY <1>5, <1>6, KeptFacts DEF AreConditions
<1>8. AreConditions(FlattenSeq(ss))
  BY <1>5, <1>7 DEF Keeps, AreConditions
<1> QED BY <1>1, <1>8

\* Applying them writes only pins of the chain.
LEMMA AppliedConditionsFacts ==
  ASSUME pinCache \in {{}, Dump}, NEW chain, IsChain(chain), NEW type
  PROVE  StepsOn(applyConditions(chain, type), chainIds(chain))
<1> DEFINE ks == conditionsOnce(chain, type)
           ss == [i \in DOMAIN ks |-> applyDesiredStatesInOrder(ks[i], chain)]
<1>1. applyConditions(chain, type) = FlattenSeq(ss)
  BY DEF applyConditions, concat
<1>2. AreConditions(ks)
  BY ConditionsOnceFacts
<1> HIDE DEF ks
<1>3. /\ DOMAIN ss = DOMAIN ks /\ ss = [i \in DOMAIN ss |-> ss[i]]
      /\ \A i \in DOMAIN ss : ss[i] = applyDesiredStatesInOrder(ks[i], chain)
  OBVIOUS
<1> HIDE DEF ss
<1>4. IsSlice(ss)
  BY <1>2, <1>3, MapSlice DEF AreConditions
<1>5. \A i \in DOMAIN ss : StepsOn(ss[i], chainIds(chain))
  BY <1>2, <1>3, AppliedStatesFacts DEF AreConditions
<1> QED BY <1>1, <1>4, <1>5, FlattenSteps

\* The relevant configurations are stored ones that name the profile.
LEMMA RelevantFacts ==
  ASSUME IsSlice(configs), NEW name
  PROVE  /\ IsSlice(relevant(name))
         /\ \A n \in DOMAIN relevant(name) : \E i \in DOMAIN configs :
              relevant(name)[n] = configs[i] /\ ProfileNamesMatch(name, configs[i].profile)
<1> DEFINE ss == [i \in DOMAIN configs |-> IF ProfileNamesMatch(name, configs[i].profile)
                                           THEN <<configs[i]>> ELSE <<>>]
<1>1. relevant(name) = FlattenSeq(ss)
  BY DEF relevant, suchThat, concat
<1>2. /\ DOMAIN ss = DOMAIN configs /\ ss = [i \in DOMAIN ss |-> ss[i]]
      /\ \A i \in DOMAIN configs : ss[i] = <<>> \/ ss[i] = <<configs[i]>>
      /\ \A i \in DOMAIN configs : ss[i] # <<>> => ProfileNamesMatch(name, configs[i].profile)
  OBVIOUS
<1> HIDE DEF ss
<1>3. Keeps(FlattenSeq(ss), ss, configs)
  BY <1>2, KeptFacts
<1> QED BY <1>1, <1>2, <1>3 DEF Keeps

-----------------------------------------------------------------------------
(* Every application is a list of steps.                                    *)

\* Slices joined.
LEMMA FlattenSlices ==
  ASSUME NEW ss, IsSlice(ss), \A i \in DOMAIN ss : IsSlice(ss[i])
  PROVE  IsSlice(FlattenSeq(ss))
BY FlattenFacts

\* Applying a profile is a list of steps.
LEMMA ProfileSteps ==
  ASSUME IsSlice(configs), \A i \in DOMAIN configs : Enriched(configs[i]),
         pinCache \in {{}, Dump}, NEW name
  PROVE  IsSlice(profileSteps(name))
<1> DEFINE r == relevant(name)
           step(c) == applyStructureDefaults(c) \o applyDefaultAndInitConditions(c)
           ss == [i \in DOMAIN r |-> step(r[i])]
<1>1. IsSlice(r) /\ \A i \in DOMAIN r : Enriched(r[i])
  BY RelevantFacts
<1>2. ASSUME NEW c, Enriched(c) PROVE IsSlice(step(c))
  <2>1. applyDpllPinCommands(c.structPins) = <<>>
        \/ applyDpllPinCommands(c.structPins) = <<pins(mergePinCommandsByID(c.structPins))>>
    BY DEF applyDpllPinCommands
  <2>2. IsSlice(applyDpllPinCommands(c.structPins))
    BY <2>1, OneSlice, EmptySlice
  <2>3. IsSlice(applyStructureDefaults(c))
    BY <2>2, OneSlice, JoinSlices DEF applyStructureDefaults
  <2>4. IsChain(c.chain)
    BY <1>2 DEF Enriched
  <2>5. IsSlice(applyConditions(c.chain, "default")) /\ IsSlice(applyConditions(c.chain, "init"))
    BY <2>4, AppliedConditionsFacts DEF StepsOn
  <2>6. IsSlice(applyDefaultAndInitConditions(c))
    BY <2>5, JoinSlices DEF applyDefaultAndInitConditions
  <2> QED BY <2>3, <2>6, JoinSlices
<1>3. profileSteps(name) = FlattenSeq(ss)
  BY DEF profileSteps, concat
<1> HIDE DEF r, step
<1>4. /\ DOMAIN ss = DOMAIN r /\ ss = [i \in DOMAIN ss |-> ss[i]]
      /\ \A i \in DOMAIN ss : ss[i] = step(r[i])
  OBVIOUS
<1> HIDE DEF ss
<1>5. IsSlice(ss) /\ \A i \in DOMAIN ss : IsSlice(ss[i])
  BY <1>1, <1>2, <1>4, MapSlice
<1>6. IsSlice(FlattenSeq(ss))
  BY <1>5, FlattenSlices
<1> QED BY <1>3, <1>6

\* The pins a T-BC transition of a profile may write.
profileIds(name) ==
  UNION {chainIds(configs[i].chain) :
           i \in {j \in DOMAIN configs : ProfileNamesMatch(name, configs[j].profile)}}

\* A T-BC transition writes only pins of the profile.
LEMMA TransitionSteps ==
  ASSUME IsSlice(configs), \A i \in DOMAIN configs : Enriched(configs[i]),
         pinCache \in {{}, Dump}, NEW name, NEW type
  PROVE  StepsOn(transition(name, type), profileIds(name))
<1> DEFINE r == relevant(name)
           ks(c) == extractConditionsByType(c.chain.conditions, type)
           of(c) == [j \in DOMAIN ks(c) |-> applyCondition(c, ks(c)[j])]
           step(c) == FlattenSeq(of(c))
           ss == [i \in DOMAIN r |-> step(r[i])]
           ids == profileIds(name)
<1>1. IsSlice(r) /\ \A i \in DOMAIN r : Enriched(r[i]) /\ chainIds(r[i].chain) \subseteq ids
  BY RelevantFacts DEF profileIds
<1>2. ASSUME NEW c, Enriched(c) PROVE StepsOn(step(c), chainIds(c.chain))
  <2> DEFINE k == ks(c)
             o == of(c)
  <2>1. AreConditions(c.chain.conditions)
    BY <1>2 DEF Enriched, IsChain, IsBehavior, AreConditions
  <2>2. AreConditions(k)
    BY <2>1, ExtractedFacts
  <2>3. /\ DOMAIN o = DOMAIN k /\ o = [j \in DOMAIN o |-> o[j]]
        /\ \A j \in DOMAIN o : o[j] = applyCondition(c, k[j])
    OBVIOUS
  <2>4. step(c) = FlattenSeq(o)
    OBVIOUS
  <2> HIDE DEF k, o, step
  <2>5. IsSlice(o) /\ \A j \in DOMAIN o : IsCondition(k[j])
    BY <2>2, <2>3, MapSlice DEF AreConditions
  <2>6. \A j \in DOMAIN o : StepsOn(o[j], chainIds(c.chain))
    BY <1>2, <2>3, <2>5, AppliedConditionFacts
  <2> QED BY <2>4, <2>5, <2>6, FlattenSteps
<1>3. transition(name, type) = FlattenSeq(ss)
  BY DEF transition, concat
<1> HIDE DEF r, step, ids
<1>4. /\ DOMAIN ss = DOMAIN r /\ ss = [i \in DOMAIN ss |-> ss[i]]
      /\ \A i \in DOMAIN ss : ss[i] = step(r[i])
  OBVIOUS
<1> HIDE DEF ss
<1>5. IsSlice(ss)
  BY <1>1, <1>4, MapSlice
<1>6. \A i \in DOMAIN ss : StepsOn(ss[i], ids)
  <2> TAKE i \in DOMAIN ss
  <2>1. /\ StepsOn(ss[i], chainIds(r[i].chain)) /\ chainIds(r[i].chain) \subseteq ids
    BY <1>1, <1>2, <1>4
  <2> QED BY <2>1, MoreIds
<1>7. StepsOn(FlattenSeq(ss), ids)
  BY <1>5, <1>6, FlattenSteps
<1> QED BY <1>3, <1>7 DEF ids

\* Conditions to apply with the chains they belong to.
AreLocked(work) ==
  IsSlice(work) /\ \A i \in DOMAIN work : IsChain(work[i].chain) /\ IsCondition(work[i].condition)

\* Slices of them joined.
LEMMA FlattenLocked ==
  ASSUME NEW ss, IsSlice(ss), \A i \in DOMAIN ss : AreLocked(ss[i])
  PROVE  AreLocked(FlattenSeq(ss))
<1>1. /\ IsSlice(FlattenSeq(ss))
      /\ \A n \in DOMAIN FlattenSeq(ss) :
           \E i \in DOMAIN ss : \E j \in DOMAIN ss[i] : FlattenSeq(ss)[n] = ss[i][j]
  BY FlattenFacts DEF AreLocked
<1> QED BY <1>1 DEF AreLocked

\* The locked conditions of a configuration and a clock.
LEMMA LockedFacts ==
  ASSUME NEW c, IsChain(c.chain), NEW clock
  PROVE  AreLocked(lockedConditions(c, clock))
<1> DEFINE structure == c.chain.structure
           near == [i \in DOMAIN structure |->
                      IF /\ networkInterface(structure[i]) # ""
                         /\ getClockIDCached(networkInterface(structure[i]), structure[i].hwDef, pinCache) = clock
                      THEN <<structure[i]>> ELSE <<>>]
           sub == FlattenSeq(near)
           of(s) == [i \in DOMAIN c.chain.sources |->
                       IF /\ c.chain.sources[i].type = "dpllPhaseLocked"
                          /\ c.chain.sources[i].subsystem = s.name /\ c.profile # ""
                       THEN <<c.chain.sources[i]>> ELSE <<>>]
           sources(s) == FlattenSeq(of(s))
           ks(x) == extractConditionsByTypeAndSource(c.chain.conditions, "locked", x.name)
           one(x) == [n \in DOMAIN ks(x) |-> <<[condition |-> ks(x)[n], chain |-> c.chain]>>]
           some(s) == [j \in DOMAIN sources(s) |-> FlattenSeq(one(sources(s)[j]))]
           all == [i \in DOMAIN sub |-> FlattenSeq(some(sub[i]))]
<1>1. lockedConditions(c, clock) = FlattenSeq(all)
  BY DEF lockedConditions, suchThat, concat
<1>2. IsSlice(structure) /\ IsSlice(c.chain.sources) /\ AreConditions(c.chain.conditions)
  BY DEF IsChain, IsBehavior, AreConditions
<1>3. IsSlice(sub)
  <2>1. /\ DOMAIN near = DOMAIN structure /\ near = [i \in DOMAIN near |-> near[i]]
        /\ \A i \in DOMAIN structure : near[i] = <<>> \/ near[i] = <<structure[i]>>
    OBVIOUS
  <2> HIDE DEF near, structure
  <2>2. Keeps(FlattenSeq(near), near, structure)
    BY <1>2, <2>1, KeptFacts
  <2> QED BY <2>2 DEF Keeps
<1>4. ASSUME NEW x PROVE AreLocked(FlattenSeq(one(x)))
  <2> DEFINE k == ks(x)
             o == one(x)
  <2>1. AreConditions(k)
    BY <1>2, ExtractedFacts
  <2>2. /\ DOMAIN o = DOMAIN k /\ o = [n \in DOMAIN o |-> o[n]]
        /\ \A n \in DOMAIN o : o[n] = <<[condition |-> k[n], chain |-> c.chain]>>
    OBVIOUS
  <2> HIDE DEF k, o
  <2>3. IsSlice(o)
    BY <2>1, <2>2, MapSlice DEF AreConditions
  <2>4. ASSUME NEW n \in DOMAIN o PROVE AreLocked(o[n])
    <3> DEFINE w == [condition |-> k[n], chain |-> c.chain]
    <3>1. w.chain = c.chain /\ w.condition = k[n]
      OBVIOUS
    <3>2. o[n] = <<w>>
      BY <2>2
    <3> HIDE DEF w
    <3>3. IsSlice(<<w>>) /\ DOMAIN <<w>> = {1} /\ <<w>>[1] = w
      BY OneSlice
    <3>4. IsCondition(k[n])
      BY <2>1, <2>2, <2>4 DEF AreConditions
    <3>5. AreLocked(<<w>>)
      BY <3>1, <3>3, <3>4 DEF AreLocked
    <3> QED BY <3>2, <3>5
  <2>5. AreLocked(FlattenSeq(o))
    BY <2>3, <2>4, FlattenLocked
  <2> QED BY <2>5 DEF o
<1> HIDE DEF one
<1>5. ASSUME NEW s PROVE AreLocked(FlattenSeq(some(s)))
  <2> DEFINE xs == sources(s)
             o == some(s)
             f == of(s)
             src == c.chain.sources
  <2>1. /\ DOMAIN f = DOMAIN src /\ f = [i \in DOMAIN f |-> f[i]]
        /\ \A i \in DOMAIN src : f[i] = <<>> \/ f[i] = <<src[i]>>
    OBVIOUS
  <2>2. xs = FlattenSeq(f)
    OBVIOUS
  <2>3. /\ DOMAIN o = DOMAIN xs /\ o = [j \in DOMAIN o |-> o[j]]
        /\ \A j \in DOMAIN o : o[j] = FlattenSeq(one(xs[j]))
    OBVIOUS
  <2> HIDE DEF f, xs, o, src
  <2>4. IsSlice(src)
    BY <1>2 DEF src
  <2>5. Keeps(FlattenSeq(f), f, src)
    BY <2>1, <2>4, KeptFacts
  <2>6. IsSlice(xs)
    BY <2>2, <2>5 DEF Keeps
  <2>7. IsSlice(o) /\ \A j \in DOMAIN o : AreLocked(o[j])
    BY <1>4, <2>3, <2>6, MapSlice
  <2>8. AreLocked(FlattenSeq(o))
    BY <2>7, FlattenLocked
  <2> QED BY <2>8 DEF o
<1> HIDE DEF some, sub
<1>6. /\ DOMAIN all = DOMAIN sub /\ all = [i \in DOMAIN all |-> all[i]]
      /\ \A i \in DOMAIN all : all[i] = FlattenSeq(some(sub[i]))
  OBVIOUS
<1> HIDE DEF all
<1>7. IsSlice(all) /\ \A i \in DOMAIN all : AreLocked(all[i])
  BY <1>3, <1>5, <1>6, MapSlice
<1> QED BY <1>1, <1>7, FlattenLocked

\* A lock notification is a list of steps.
LEMMA LockedSteps ==
  ASSUME IsSlice(configs), \A i \in DOMAIN configs : Enriched(configs[i]),
         pinCache \in {{}, Dump}, NEW clock
  PROVE  IsSlice(lockedSteps(clock))
<1> DEFINE ws == [i \in DOMAIN configs |-> lockedConditions(configs[i], clock)]
           work == lockedWork(clock)
           step(w) == applyDesiredStatesInOrder(w.condition, w.chain) \o <<resume>>
           ss == [i \in DOMAIN work |-> step(work[i])]
<1>1. work = FlattenSeq(ws)
  BY DEF lockedWork, concat
<1>2. /\ DOMAIN ws = DOMAIN configs /\ ws = [i \in DOMAIN ws |-> ws[i]]
      /\ \A i \in DOMAIN ws : ws[i] = lockedConditions(configs[i], clock)
  OBVIOUS
<1>3. lockedSteps(clock) = FlattenSeq(ss)
  BY DEF lockedSteps, concat
<1> HIDE DEF ws, work
<1>4. IsSlice(ws) /\ \A i \in DOMAIN ws : AreLocked(ws[i])
  BY <1>2, MapSlice, LockedFacts DEF Enriched
<1>5. AreLocked(work)
  BY <1>1, <1>4, FlattenLocked
<1>6. ASSUME NEW w, IsChain(w.chain), IsCondition(w.condition) PROVE IsSlice(step(w))
  <2>1. IsSlice(applyDesiredStatesInOrder(w.condition, w.chain))
    BY <1>6, AppliedStatesFacts DEF StepsOn
  <2> QED BY <2>1, OneSlice, JoinSlices
<1> HIDE DEF step
<1>7. /\ DOMAIN ss = DOMAIN work /\ ss = [i \in DOMAIN ss |-> ss[i]]
      /\ \A i \in DOMAIN ss : ss[i] = step(work[i])
  OBVIOUS
<1> HIDE DEF ss
<1>8. IsSlice(ss) /\ \A i \in DOMAIN ss : IsSlice(ss[i])
  BY <1>5, <1>6, <1>7, MapSlice DEF AreLocked
<1>9. IsSlice(FlattenSeq(ss))
  BY <1>8, FlattenSlices
<1> QED BY <1>3, <1>9

-----------------------------------------------------------------------------
(* The vendor defaults of what was removed.                                 *)

\* Three steps in a row.
LEMMA ThreeSlice ==
  ASSUME NEW x, NEW y, NEW z
  PROVE  IsSlice(<<x, y, z>>)
<1>1. DOMAIN <<x, y, z>> = 1..3 /\ <<x, y, z>> = [i \in DOMAIN <<x, y, z>> |-> <<x, y, z>>[i]]
  OBVIOUS
<1> DEFINE t == <<x, y, z>>
<1>2. DOMAIN t = 1..3 /\ t = [i \in DOMAIN t |-> t[i]]
  BY <1>1
<1> HIDE DEF t
<1>3. IsSlice(t)
  BY <1>2, SliceIntro
<1> QED BY <1>3 DEF t

\* The configurations an update removes are stored ones.
LEMMA RemovedFacts ==
  ASSUME IsSlice(configs), NEW new
  PROVE  /\ IsSlice(detectRemovedHardwareConfigs(new))
         /\ \A n \in DOMAIN detectRemovedHardwareConfigs(new) : \E i \in DOMAIN configs :
              detectRemovedHardwareConfigs(new)[n] = configs[i]
<1> DEFINE gone(c) == \A i \in DOMAIN new : new[i].name # c.name
           ss == [i \in DOMAIN configs |-> IF gone(configs[i]) THEN <<configs[i]>> ELSE <<>>]
<1>1. detectRemovedHardwareConfigs(new) = FlattenSeq(ss)
  BY DEF detectRemovedHardwareConfigs, suchThat, concat
<1> HIDE DEF gone
<1>2. /\ DOMAIN ss = DOMAIN configs /\ ss = [i \in DOMAIN ss |-> ss[i]]
      /\ \A i \in DOMAIN configs : ss[i] = <<>> \/ ss[i] = <<configs[i]>>
  OBVIOUS
<1> HIDE DEF ss
<1>3. Keeps(FlattenSeq(ss), ss, configs)
  BY <1>2, KeptFacts
<1> QED BY <1>1, <1>3 DEF Keeps

\* Resetting them is a list of steps, whatever the pin dump it works with.
LEMMA VendorSteps ==
  ASSUME NEW removed, IsSlice(removed), \A n \in DOMAIN removed : IsChain(removed[n].chain),
         NEW dump
  PROVE  IsSlice(applyVendorDefaultsForRemovedConfigs(removed, dump))
<1> DEFINE subs(c) == [i \in DOMAIN c.chain.structure |->
                         IF c.chain.structure[i].hwDef # "" THEN <<c.chain.structure[i]>> ELSE <<>>]
           named(c) == FlattenSeq(subs(c))
           found(c, s) == resolveSubsystemStructure(dump, s, c.chain, getHardwareDefaults)
           of(c) == [i \in DOMAIN named(c) |-> SetToSeq(found(c, named(c)[i]))]
           structures(c) == FlattenSeq(of(c))
           rs == [n \in DOMAIN removed |-> structures(removed[n])]
           r == FlattenSeq(rs)
           step(x) == applyDpllPinCommands(x.pins) \o <<resume, files(x.sysfs), resume>>
           ss == [n \in DOMAIN r |-> step(r[n])]
<1>1. applyVendorDefaultsForRemovedConfigs(removed, dump) = FlattenSeq(ss)
  BY DEF applyVendorDefaultsForRemovedConfigs, concat, suchThat
<1>2. ASSUME NEW c, IsChain(c.chain) PROVE IsSlice(structures(c))
  <2> DEFINE u == subs(c)
             m == named(c)
             o == of(c)
  <2>1. /\ DOMAIN u = DOMAIN c.chain.structure /\ u = [i \in DOMAIN u |-> u[i]]
        /\ \A i \in DOMAIN c.chain.structure : u[i] = <<>> \/ u[i] = <<c.chain.structure[i]>>
    OBVIOUS
  <2>2. m = FlattenSeq(u)
    OBVIOUS
  <2>3. /\ DOMAIN o = DOMAIN m /\ o = [i \in DOMAIN o |-> o[i]]
        /\ \A i \in DOMAIN o : o[i] = SetToSeq(found(c, m[i]))
    OBVIOUS
  <2>4. structures(c) = FlattenSeq(o)
    OBVIOUS
  <2> HIDE DEF u, m, o, structures
  <2>5. IsSlice(c.chain.structure)
    BY <1>2 DEF IsChain
  <2>6. IsSlice(m)
    <3> DEFINE t == c.chain.structure
    <3>1. IsSlice(t) /\ DOMAIN u = DOMAIN t /\ \A i \in DOMAIN t : u[i] = <<>> \/ u[i] = <<t[i]>>
      BY <2>1, <2>5
    <3> HIDE DEF t
    <3>2. Keeps(FlattenSeq(u), u, t)
      BY <2>1, <3>1, KeptFacts
    <3> QED BY <2>2, <3>2 DEF Keeps
  <2>7. ASSUME NEW s PROVE IsSlice(SetToSeq(found(c, s)))
    <3> DEFINE f == found(c, s)
    <3>1. f = {} \/ \E x : f = {x}
      BY DEF resolveSubsystemStructure
    <3> HIDE DEF f
    <3>2. IsFiniteSet(f)
      BY <3>1, FS_EmptySet, FS_Singleton
    <3>3. IsSlice(SetToSeq(f))
      BY <3>2, SetToSeqFacts
    <3> QED BY <3>3 DEF f
  <2>8. IsSlice(o) /\ \A i \in DOMAIN o : IsSlice(o[i])
    BY <2>3, <2>6, <2>7, MapSlice
  <2> QED BY <2>4, <2>8, FlattenSlices
<1> HIDE DEF structures
<1>3. /\ DOMAIN rs = DOMAIN removed /\ rs = [n \in DOMAIN rs |-> rs[n]]
      /\ \A n \in DOMAIN rs : rs[n] = structures(removed[n])
  OBVIOUS
<1>4. r = FlattenSeq(rs)
  OBVIOUS
<1> HIDE DEF rs, r
<1>5. IsSlice(rs) /\ \A n \in DOMAIN rs : IsSlice(rs[n])
  BY <1>2, <1>3, MapSlice
<1>6. IsSlice(r)
  BY <1>4, <1>5, FlattenSlices
<1>7. ASSUME NEW x PROVE IsSlice(step(x))
  <2>1. \/ applyDpllPinCommands(x.pins) = <<>>
        \/ applyDpllPinCommands(x.pins) = <<pins(mergePinCommandsByID(x.pins))>>
    BY DEF applyDpllPinCommands
  <2>2. IsSlice(applyDpllPinCommands(x.pins))
    BY <2>1, OneSlice, EmptySlice
  <2> QED BY <2>2, ThreeSlice, JoinSlices
<1> HIDE DEF step
<1>8. /\ DOMAIN ss = DOMAIN r /\ ss = [n \in DOMAIN ss |-> ss[n]]
      /\ \A n \in DOMAIN ss : ss[n] = step(r[n])
  OBVIOUS
<1> HIDE DEF ss
<1>9. IsSlice(ss) /\ \A n \in DOMAIN ss : IsSlice(ss[n])
  BY <1>6, <1>7, <1>8, MapSlice
<1>10. IsSlice(FlattenSeq(ss))
  BY <1>9, FlattenSlices
<1> QED BY <1>1, <1>10

-----------------------------------------------------------------------------
(* The inductive invariant.                                                 *)

\* A slice of configurations as they are stored.
AreEnriched(cs) == IsSlice(cs) /\ \A i \in DOMAIN cs : Enriched(cs[i])
\* The update in progress holds the list it was called with, or the resolved one.
UpdatingInv ==
  /\ updating.pc \in {"idle", "resolve", "store"}
  /\ updating.pc = "resolve" => updating.new \in Updates
  /\ updating.pc = "store" => AreEnriched(updating.new)
\* The pin cache is nil or the node's dump, and every configuration that is
\* stored, or about to be, carries the commands of its own resolved chain.
HWInv ==
  /\ pinCache \in {{}, Dump}
  /\ faults \in Nat
  /\ AreEnriched(configs)
  /\ UpdatingInv

\* What resolve makes of a configuration carries the commands of its own chain.
LEMMA EnrichFacts ==
  ASSUME NEW config, IsConfig(config), NEW defs, NEW c \in enrich(config, defs)
  PROVE  Enriched(c)
<1>1. PICK chain \in resolvedChain(config, defs) :
        \E b \in resolveClockChainBehavior(Dump, chain) :
          \E s \in resolveClockChainStructure(Dump, chain, defs) :
            c = enrichWith(config, chain, defs, b, s)
  BY DEF enrich
<1>2. PICK b \in resolveClockChainBehavior(Dump, chain) :
        \E s \in resolveClockChainStructure(Dump, chain, defs) :
          c = enrichWith(config, chain, defs, b, s)
  BY <1>1
<1>3. PICK s : c = enrichWith(config, chain, defs, b, s)
  BY <1>2
<1>4. /\ c.chain = chain /\ c.pins = b.pins /\ c.sysfs = b.sysfs
      /\ {"profile", "chain", "pins", "sysfs", "structPins", "structSysfs", "gnss"} \subseteq DOMAIN c
  BY <1>3 DEF enrichWith
<1>5. IsChain(chain)
  BY ResolvedChainFacts
<1> QED BY <1>4, <1>5 DEF Enriched

\* Only a match status is kept with a stored configuration.
LEMMA GnssKeepsEnriched ==
  ASSUME NEW c, Enriched(c), NEW x
  PROVE  /\ Enriched([c EXCEPT !.gnss = x])
         /\ [c EXCEPT !.gnss = x].chain = c.chain /\ [c EXCEPT !.gnss = x].profile = c.profile
<1> DEFINE e == [c EXCEPT !.gnss = x]
<1>1. /\ DOMAIN e = DOMAIN c
      /\ \A f \in {"profile", "chain", "pins", "sysfs", "structPins", "structSysfs"} : e[f] = c[f]
  BY DEF Enriched
<1> HIDE DEF e
<1>2. e.chain = c.chain /\ e.pins = c.pins /\ e.sysfs = c.sysfs /\ e.profile = c.profile
  BY <1>1
<1>3. Enriched(e)
  BY <1>1, <1>2 DEF Enriched
<1> QED BY <1>2, <1>3 DEF e

\* The steps of an application end with a number of faults.
LEMMA FinishedFaults ==
  ASSUME faults \in Nat, NEW steps, IsSlice(steps), NEW o \in run(start, steps)
  PROVE  o.n \in Nat
<1> DEFINE s == start
<1>1. IsOutcome(s) /\ s.n \in Nat
  BY DEF start, outcome, IsOutcome
<1>2. o \in run(s, steps)
  OBVIOUS
<1> HIDE DEF s
<1> QED BY <1>1, <1>2, RunFaults

\* Nothing is stored at the start.
LEMMA HWInvInit == HWInit => HWInv
<1> SUFFICES ASSUME HWInit PROVE HWInv
  OBVIOUS
<1>1. pinCache = {} /\ faults = 0 /\ configs = <<>> /\ updating.pc = "idle"
  BY DEF HWInit, idle
<1>2. AreEnriched(configs)
  BY <1>1, EmptySlice DEF AreEnriched
<1> QED BY <1>1, <1>2 DEF HWInv, UpdatingInv

\* Each of the handlers keeps it: only ResolveConfigs makes configurations,
\* and the faults of an application stay a number.
LEMMA HWInvStep == HWInv /\ [HWNext]_hwVars => HWInv'
<1> SUFFICES ASSUME HWInv, [HWNext]_hwVars PROVE HWInv'
  OBVIOUS
<1> USE DEF HWInv
<1>a. IsSlice(configs) /\ \A i \in DOMAIN configs : Enriched(configs[i])
  BY DEF AreEnriched
<1>1. ASSUME NEW new \in Updates, UpdateHardwareConfig(new) PROVE HWInv'
  <2> DEFINE removed == detectRemovedHardwareConfigs(new)
             dump == IF pinCache = {} THEN Dump ELSE pinCache
             steps == applyVendorDefaultsForRemovedConfigs(removed, dump)
  <2>1. configs' = configs /\ pinCache' \in {{}, Dump}
    BY <1>1 DEF UpdateHardwareConfig
  <2>2. UpdatingInv'
    <3>1. updating' = [pc |-> IF new = <<>> THEN "store" ELSE "resolve", new |-> new]
      BY <1>1 DEF UpdateHardwareConfig
    <3>2. updating'.pc \in {"resolve", "store"} /\ updating'.new \in Updates
      BY <3>1
    <3>3. updating'.pc = "store" => AreEnriched(updating'.new)
      <4>1. updating'.pc = "store" => updating'.new = <<>>
        BY <3>1
      <4>2. AreEnriched(<<>>)
        BY EmptySlice DEF AreEnriched
      <4> QED BY <4>1, <4>2
    <3> QED BY <3>2, <3>3 DEF UpdatingInv
  <2>3. IsSlice(removed) /\ \A n \in DOMAIN removed : IsChain(removed[n].chain)
    BY <1>a, RemovedFacts DEF Enriched
  <2> HIDE DEF removed, dump
  <2>4. IsSlice(steps)
    BY <2>3, VendorSteps
  <2>5. (\E o \in run(start, steps) : faults' = o.n) \/ faults' = faults + 1
    BY <1>1 DEF UpdateHardwareConfig, finish, removed, dump
  <2> HIDE DEF steps
  <2>6. faults' \in Nat
    BY <2>4, <2>5, FinishedFaults
  <2> QED BY <2>1, <2>2, <2>6
<1>2. CASE GetDpllPinsFails
  BY <1>2 DEF GetDpllPinsFails, UpdatingInv, idle
<1>3. CASE ResolveConfigs
  <2>1. pinCache' \in {{}, Dump} /\ configs' = configs /\ faults' = faults
    BY <1>3 DEF ResolveConfigs
  <2> DEFINE new == updating.new
             prepared == [i \in DOMAIN new |-> enrich(new[i], getHardwareDefaults)]
             chosen == [i \in DOMAIN prepared |-> The(prepared[i])]
  <2>2. updating.pc = "resolve" /\ updating' = IF \E i \in DOMAIN prepared : prepared[i] = {}
                                                THEN idle ELSE [pc |-> "store", new |-> chosen]
    BY <1>3 DEF ResolveConfigs
  <2>3. IsSlice(new) /\ \A i \in DOMAIN new : IsConfig(new[i])
    BY <2>2, UpdatesAssumption DEF UpdatingInv
  <2>4. /\ DOMAIN prepared = DOMAIN new
        /\ \A i \in DOMAIN new : prepared[i] = enrich(new[i], getHardwareDefaults)
    OBVIOUS
  <2>5. DOMAIN chosen = DOMAIN prepared /\ chosen = [i \in DOMAIN chosen |-> chosen[i]]
        /\ \A i \in DOMAIN chosen : chosen[i] = The(prepared[i])
    OBVIOUS
  <2> HIDE DEF new, prepared, chosen
  <2>6. CASE \E i \in DOMAIN prepared : prepared[i] = {}
    BY <2>1, <2>2, <2>6 DEF UpdatingInv, idle
  <2>7. CASE \A i \in DOMAIN prepared : prepared[i] # {}
    <3>1. updating' = [pc |-> "store", new |-> chosen]
      BY <2>2, <2>7
    <3>2. \A i \in DOMAIN chosen : Enriched(chosen[i])
      <4> TAKE i \in DOMAIN chosen
      <4>1. The(prepared[i]) \in prepared[i]
        BY <2>5, <2>7 DEF The
      <4>2. i \in DOMAIN new /\ IsConfig(new[i])
        BY <2>3, <2>4, <2>5
      <4>3. chosen[i] \in enrich(new[i], getHardwareDefaults)
        BY <2>4, <2>5, <4>1, <4>2
      <4> QED BY <4>2, <4>3, EnrichFacts
    <3>3. IsSlice(chosen)
      BY <2>3, <2>4, <2>5, MapSlice
    <3>4. AreEnriched(chosen)
      BY <3>2, <3>3 DEF AreEnriched
    <3>5. updating'.pc = "store" /\ updating'.new = chosen
      BY <3>1
    <3>6. UpdatingInv'
      BY <3>4, <3>5 DEF UpdatingInv
    <3> QED BY <2>1, <3>6
  <2> QED BY <2>6, <2>7
<1>4. CASE setHardwareConfigs
  <2>1. /\ AreEnriched(configs') /\ pinCache' = pinCache /\ faults' = faults /\ updating' = idle
    BY <1>4 DEF setHardwareConfigs, UpdatingInv
  <2> QED BY <2>1 DEF UpdatingInv, idle
<1>5. CASE SetPtpConfig
  BY <1>5 DEF SetPtpConfig, UpdatingInv
<1>6. ASSUME NEW p \in Profiles, ApplyHardwareConfigsForProfile(p) PROVE HWInv'
  <2> DEFINE steps == profileSteps(p)
  <2>1. configs' = configs /\ pinCache' = pinCache /\ updating' = updating
        /\ \E o \in run(start, steps) : faults' = o.n
    BY <1>6 DEF ApplyHardwareConfigsForProfile, finish
  <2>2. IsSlice(steps)
    BY <1>a, ProfileSteps
  <2> HIDE DEF steps
  <2>3. faults' \in Nat
    BY <2>1, <2>2, FinishedFaults
  <2> QED BY <2>1, <2>3 DEF UpdatingInv
<1>7. ASSUME NEW p \in Profiles, NEW type \in {"locked", "lost"}, ApplyConditionForProfile(p, type)
      PROVE HWInv'
  <2> DEFINE steps == transition(p, type)
  <2>1. configs' = configs /\ pinCache' = pinCache /\ updating' = updating
        /\ \E o \in run(start, steps) : faults' = o.n
    BY <1>7 DEF ApplyConditionForProfile, finish
  <2>2. IsSlice(steps)
    BY <1>a, TransitionSteps DEF StepsOn
  <2> HIDE DEF steps
  <2>3. faults' \in Nat
    BY <2>1, <2>2, FinishedFaults
  <2> QED BY <2>1, <2>3 DEF UpdatingInv
<1>8. ASSUME NEW p \in Profiles, GetGNSSSerialPort(p) PROVE HWInv'
  <2>1. /\ pinCache' = pinCache /\ faults' = faults /\ updating' = updating
        /\ \E at, x : configs' = [configs EXCEPT ![at].gnss = x]
    BY <1>8 DEF GetGNSSSerialPort
  <2>2. PICK at, x : configs' = [configs EXCEPT ![at].gnss = x]
    BY <2>1
  <2>3. DOMAIN configs' = DOMAIN configs /\ configs' = [i \in DOMAIN configs' |-> configs'[i]]
        /\ \A i \in DOMAIN configs :
             configs'[i] = configs[i] \/ configs'[i] = [configs[i] EXCEPT !.gnss = x]
    BY <2>2
  <2>4. \A i \in DOMAIN configs : Enriched(configs'[i])
    BY <1>a, <2>3, GnssKeepsEnriched
  <2>5. IsSlice(configs')
    <3> DEFINE c == configs'
    <3>1. DOMAIN c = DOMAIN configs /\ c = [i \in DOMAIN c |-> c[i]]
      BY <2>3
    <3> HIDE DEF c
    <3>2. IsSlice(c)
      BY <1>a, <3>1, MapSlice
    <3> QED BY <3>2 DEF c
  <2>6. AreEnriched(configs')
    BY <2>3, <2>4, <2>5 DEF AreEnriched
  <2> QED BY <2>1, <2>6 DEF UpdatingInv
<1>9. ASSUME NEW clock \in Clocks, ProcessDPLLDeviceNotifications(clock) PROVE HWInv'
  <2> DEFINE steps == lockedSteps(clock)
  <2>1. configs' = configs /\ pinCache' = pinCache /\ updating' = updating
        /\ \E o \in run(start, steps) : faults' = o.n
    BY <1>9 DEF ProcessDPLLDeviceNotifications, finish
  <2>2. IsSlice(steps)
    BY <1>a, LockedSteps
  <2> HIDE DEF steps
  <2>3. faults' \in Nat
    BY <2>1, <2>2, FinishedFaults
  <2> QED BY <2>1, <2>3 DEF UpdatingInv
<1>10. CASE UNCHANGED hwVars
  BY <1>10 DEF hwVars, UpdatingInv
<1> QED BY <1>1, <1>2, <1>3, <1>4, <1>5, <1>6, <1>7, <1>8, <1>9, <1>10 DEF HWNext

\* Whatever the configurations, profiles and faults, what is stored carries the
\* commands that resolve makes of its own chain.
THEOREM HWInvariant == HWSpec => []HWInv
BY HWInvInit, HWInvStep, PTL DEF HWSpec

-----------------------------------------------------------------------------
(* Isolation of the profiles.                                               *)

\* A list of steps on some pins leaves the fields of every other pin alone.
LEMMA OtherPinsKept ==
  ASSUME NEW ids, NEW steps, StepsOn(steps, ids), faults \in Nat, NEW o \in run(start, steps),
         NEW l, l[1] = "pin", l[2] \notin ids
  PROVE  /\ l \in DOMAIN o.hw <=> l \in DOMAIN hw
         /\ l \in DOMAIN hw => o.hw[l] = hw[l]
<1> DEFINE s == start
<1>1. IsOutcome(s) /\ s.n \in Nat /\ s.hw = hw
  BY DEF start, outcome, IsOutcome
<1>2. o \in run(s, steps)
  OBVIOUS
<1> HIDE DEF s
<1>3. IsSlice(steps) /\ \A i \in DOMAIN steps : StepOn(steps[i], ids)
  BY DEF StepsOn
<1>4. ASSUME NEW i \in DOMAIN steps
      PROVE  /\ steps[i].do = "files" =>
                /\ IsSlice(steps[i].cmds)
                /\ \A j \in DOMAIN steps[i].cmds : l \notin DOMAIN steps[i].cmds[j]
             /\ steps[i].do = "pins" => l \notin pinFields(steps[i].cmds)
  <2> DEFINE cmds == steps[i].cmds
  <2>1. StepOn(steps[i], ids)
    BY <1>3
  <2>2. ASSUME steps[i].do = "files"
        PROVE  IsSlice(cmds) /\ \A j \in DOMAIN cmds : l \notin DOMAIN cmds[j]
    <3>1. AreFiles(cmds)
      BY <2>1, <2>2 DEF StepOn
    <3> HIDE DEF cmds
    <3> QED BY <3>1 DEF AreFiles
  <2>3. ASSUME steps[i].do = "pins" PROVE l \notin pinFields(cmds)
    <3>1. \A c \in cmds : c.id \in ids
      BY <2>1, <2>3 DEF StepOn
    <3> HIDE DEF cmds
    <3> SUFFICES ASSUME l \in pinFields(cmds) PROVE FALSE
      OBVIOUS
    <3>2. PICK c \in cmds : \E f \in DOMAIN c.set : l = <<"pin", c.id, f>>
      BY DEF pinFields
    <3> QED BY <3>1, <3>2
  <2> QED BY <2>2, <2>3
<1> QED BY <1>1, <1>2, <1>3, <1>4, RunWrites

\* A pin of a clock that no subsystem of the profile has is none of its pins.
LEMMA OtherClocksPins ==
  ASSUME NEW name, NEW p \in Dump, p.clock \notin clocksOf(name)
  PROVE  p.id \notin profileIds(name)
<1> SUFFICES ASSUME p.id \in profileIds(name) PROVE FALSE
  OBVIOUS
<1>1. PICK i \in {j \in DOMAIN configs : ProfileNamesMatch(name, configs[j].profile)} :
        p.id \in chainIds(configs[i].chain)
  BY DEF profileIds
<1>2. PICK q \in Dump : q.clock \in chainClocks(configs[i].chain) /\ q.id = p.id
  BY <1>1 DEF chainIds
<1>3. q = p
  BY <1>2, DumpAssumption
<1>4. p.clock \in chainClocks(configs[i].chain)
  BY <1>2, <1>3
<1> QED BY <1>1, <1>4 DEF clocksOf, chainClocks

\* The action of the property, named to be proved for each step.
Isolates ==
  \A name \in Profiles : <<"condition", name>> \in applied' =>
      \A p \in Dump : p.clock \notin clocksOf(name) =>
        \A l \in DOMAIN hw' : l[1] = "pin" /\ l[2] = p.id =>
          l \in DOMAIN hw /\ hw'[l] = hw[l]

\* Only a transition sets the mark, and its steps are those of the profile.
LEMMA IsolatesStep ==
  ASSUME HWInv, HWNext
  PROVE  Isolates
<1> SUFFICES ASSUME NEW name \in Profiles, <<"condition", name>> \in applied',
                    NEW p \in Dump, p.clock \notin clocksOf(name),
                    NEW l \in DOMAIN hw', l[1] = "pin", l[2] = p.id
             PROVE  l \in DOMAIN hw /\ hw'[l] = hw[l]
  BY DEF Isolates
<1>1. p.id \notin profileIds(name)
  BY OtherClocksPins
<1>2. ASSUME NEW type \in {"locked", "lost"}, NEW q \in Profiles, ApplyConditionForProfile(q, type)
      PROVE  l \in DOMAIN hw /\ hw'[l] = hw[l]
  <2>1. applied' = {<<"condition", q>>}
    BY <1>2 DEF ApplyConditionForProfile
  <2>2. q = name
    BY <2>1
  <2>3. PICK o \in run(start, transition(name, type)) : hw' = o.hw
    BY <1>2, <2>2 DEF ApplyConditionForProfile, finish
  <2>4. StepsOn(transition(name, type), profileIds(name))
    BY TransitionSteps DEF HWInv, AreEnriched
  <2>5. /\ l \in DOMAIN o.hw <=> l \in DOMAIN hw
        /\ l \in DOMAIN hw => o.hw[l] = hw[l]
    BY <1>1, <2>4, OtherPinsKept DEF HWInv
  <2> QED BY <2>3, <2>5
<1>3. ASSUME hw' = hw PROVE l \in DOMAIN hw /\ hw'[l] = hw[l]
  BY <1>3
<1>4. ASSUME NEW new \in Updates, UpdateHardwareConfig(new) PROVE FALSE
  BY <1>4 DEF UpdateHardwareConfig
<1>5. CASE GetDpllPinsFails \/ ResolveConfigs \/ setHardwareConfigs \/ SetPtpConfig
  <2>1. hw' = hw
    BY <1>5 DEF GetDpllPinsFails, ResolveConfigs, setHardwareConfigs, SetPtpConfig
  <2> QED BY <1>3, <2>1
<1>6. ASSUME NEW q \in Profiles, ApplyHardwareConfigsForProfile(q) PROVE FALSE
  <2>1. applied' = {<<"profile", q>>} \/ applied' = {}
    BY <1>6 DEF ApplyHardwareConfigsForProfile
  <2>2. <<"condition", name>> # <<"profile", q>>
    <3>1. <<"condition", name>>[1] # <<"profile", q>>[1]
      OBVIOUS
    <3> QED BY <3>1
  <2> QED BY <2>1, <2>2
<1>7. ASSUME NEW q \in Profiles, GetGNSSSerialPort(q) PROVE hw' = hw
  BY <1>7 DEF GetGNSSSerialPort
<1>8. ASSUME NEW clock \in Clocks, ProcessDPLLDeviceNotifications(clock) PROVE FALSE
  BY <1>8 DEF ProcessDPLLDeviceNotifications
<1> QED BY <1>2, <1>3, <1>4, <1>5, <1>6, <1>7, <1>8 DEF HWNext

\* A T-BC transition of one profile moves no pin of a clock that is not in a
\* configuration of that profile.
THEOREM TransitionsIsolated == HWSpec => ProfileIsolation
<1>1. HWInv /\ [HWNext]_hwVars => [Isolates]_hwVars
  BY IsolatesStep
<1>2. HWSpec => []HWInv
  BY HWInvariant
<1>3. HWSpec => [][Isolates]_hwVars
  BY <1>1, <1>2, PTL DEF HWSpec
<1> QED BY <1>3 DEF ProfileIsolation, Isolates

-----------------------------------------------------------------------------
(* What pin commands write.                                                 *)

\* A pin field is one that a command of its pin carries.
LEMMA PinFieldFacts ==
  ASSUME NEW cmds, NEW l
  PROVE  l \in pinFields(cmds) <=>
           l = <<"pin", l[2], l[3]>> /\ \E c \in cmds : c.id = l[2] /\ l[3] \in DOMAIN c.set
<1>1. ASSUME l \in pinFields(cmds)
      PROVE  l = <<"pin", l[2], l[3]>> /\ \E c \in cmds : c.id = l[2] /\ l[3] \in DOMAIN c.set
  <2>1. PICK c \in cmds : \E f \in DOMAIN c.set : l = <<"pin", c.id, f>>
    BY <1>1 DEF pinFields
  <2>2. PICK f \in DOMAIN c.set : l = <<"pin", c.id, f>>
    BY <2>1
  <2>3. l[2] = c.id /\ l[3] = f
    BY <2>2
  <2> QED BY <2>2, <2>3
<1>2. ASSUME l = <<"pin", l[2], l[3]>>, NEW c \in cmds, c.id = l[2], l[3] \in DOMAIN c.set
      PROVE  l \in pinFields(cmds)
  BY <1>2 DEF pinFields
<1> QED BY <1>1, <1>2

\* One command for a pin: its fields are written as it carries them.
LEMMA PinWritesIs ==
  ASSUME NEW cmds, \A c, e \in cmds : c.id = e.id => c = e,
         NEW c \in cmds, NEW l, l = <<"pin", l[2], l[3]>>, c.id = l[2], l[3] \in DOMAIN c.set
  PROVE  l \in DOMAIN pinWrites(cmds) /\ pinWrites(cmds)[l] = c.set[l[3]]
<1>1. l \in pinFields(cmds)
  BY PinFieldFacts
<1>2. \A e \in cmds : e.id = l[2] /\ l[3] \in DOMAIN e.set => e = c
  OBVIOUS
<1>3. (CHOOSE e \in cmds : e.id = l[2] /\ l[3] \in DOMAIN e.set) = c
  BY <1>2
<1> QED BY <1>1, <1>3 DEF pinWrites, pinValue

\* The keys pin commands write.
LEMMA PinWritesDomain ==
  ASSUME NEW cmds
  PROVE  DOMAIN pinWrites(cmds) = pinFields(cmds)
         /\ pinWrites(cmds) = [l \in DOMAIN pinWrites(cmds) |-> pinWrites(cmds)[l]]
BY DEF pinWrites

\* Commands written one by one, in a slice's order.
oneByOne(cmds) == laterWins([k \in DOMAIN cmds |-> pinWrites({cmds[k]})])

\* A field is written by a command of the slice, and by none after it.
LEMMA OneByOneFacts ==
  ASSUME NEW cmds, IsSlice(cmds)
  PROVE  /\ oneByOne(cmds) = [l \in DOMAIN oneByOne(cmds) |-> oneByOne(cmds)[l]]
         /\ \A l : l \in DOMAIN oneByOne(cmds) <=>
              l = <<"pin", l[2], l[3]>>
              /\ \E k \in DOMAIN cmds : cmds[k].id = l[2] /\ l[3] \in DOMAIN cmds[k].set
         /\ \A l \in DOMAIN oneByOne(cmds) : \E k \in DOMAIN cmds :
              /\ cmds[k].id = l[2] /\ l[3] \in DOMAIN cmds[k].set
              /\ oneByOne(cmds)[l] = cmds[k].set[l[3]]
              /\ \A j \in DOMAIN cmds : j > k => ~(cmds[j].id = l[2] /\ l[3] \in DOMAIN cmds[j].set)
<1> DEFINE fs == [k \in DOMAIN cmds |-> pinWrites({cmds[k]})]
<1>1. oneByOne(cmds) = laterWins(fs)
  BY DEF oneByOne
<1>2. /\ DOMAIN fs = DOMAIN cmds /\ fs = [k \in DOMAIN fs |-> fs[k]]
      /\ \A k \in DOMAIN cmds : fs[k] = pinWrites({cmds[k]})
  OBVIOUS
<1> HIDE DEF fs
<1>3. IsSlice(fs)
  BY <1>2, MapSlice
<1>4. \A l : \A k \in DOMAIN cmds : l \in DOMAIN fs[k] <=>
        l = <<"pin", l[2], l[3]>> /\ cmds[k].id = l[2] /\ l[3] \in DOMAIN cmds[k].set
  <2> TAKE l
  <2> TAKE k \in DOMAIN cmds
  <2> DEFINE c == cmds[k]
  <2>1. l \in DOMAIN fs[k] <=> l \in pinFields({c})
    BY <1>2, PinWritesDomain
  <2> HIDE DEF c
  <2>2. l \in pinFields({c}) <=> l = <<"pin", l[2], l[3]>> /\ \E e \in {c} : e.id = l[2] /\ l[3] \in DOMAIN e.set
    BY PinFieldFacts
  <2>3. l \in DOMAIN fs[k] <=> l = <<"pin", l[2], l[3]>> /\ c.id = l[2] /\ l[3] \in DOMAIN c.set
    BY <2>1, <2>2
  <2> QED BY <2>3 DEF c
<1>5. ASSUME NEW l
      PROVE l \in DOMAIN oneByOne(cmds) <=>
              l = <<"pin", l[2], l[3]>>
              /\ \E k \in DOMAIN cmds : cmds[k].id = l[2] /\ l[3] \in DOMAIN cmds[k].set
  <2>1. l \in DOMAIN laterWins(fs) <=> \E k \in DOMAIN fs : l \in DOMAIN fs[k]
    BY LaterWinsDomain
  <2> QED BY <1>1, <1>2, <1>4, <2>1
<1>6. ASSUME NEW l \in DOMAIN oneByOne(cmds)
      PROVE \E k \in DOMAIN cmds :
              /\ cmds[k].id = l[2] /\ l[3] \in DOMAIN cmds[k].set
              /\ oneByOne(cmds)[l] = cmds[k].set[l[3]]
              /\ \A j \in DOMAIN cmds : j > k => ~(cmds[j].id = l[2] /\ l[3] \in DOMAIN cmds[j].set)
  <2>1. l = <<"pin", l[2], l[3]>>
    BY <1>5
  <2>2. PICK k \in DOMAIN fs : /\ l \in DOMAIN fs[k] /\ laterWins(fs)[l] = fs[k][l]
                               /\ \A j \in DOMAIN fs : j > k => l \notin DOMAIN fs[j]
    BY <1>1, <1>3, <1>6, LaterWinsFrom
  <2>3. cmds[k].id = l[2] /\ l[3] \in DOMAIN cmds[k].set
    BY <1>2, <1>4, <2>2
  <2>4. fs[k][l] = cmds[k].set[l[3]]
    <3> DEFINE c == cmds[k]
               s == {c}
    <3>1. c.id = l[2] /\ l[3] \in DOMAIN c.set /\ fs[k] = pinWrites(s)
      BY <1>2, <2>2, <2>3
    <3>2. c \in s /\ \A x, y \in s : x = y
      OBVIOUS
    <3> HIDE DEF c, s
    <3>3. pinWrites(s)[l] = c.set[l[3]]
      BY <2>1, <3>1, <3>2, PinWritesIs
    <3> QED BY <3>1, <3>3 DEF c
  <2>5. \A j \in DOMAIN cmds : j > k => ~(cmds[j].id = l[2] /\ l[3] \in DOMAIN cmds[j].set)
    BY <1>2, <1>4, <2>1, <2>2
  <2> QED BY <1>1, <1>2, <2>2, <2>3, <2>4, <2>5
<1> QED BY <1>1, <1>5, <1>6, LaterWinsIsFunction

\* The merged commands write what the commands write one by one.
LEMMA MergedWrites ==
  ASSUME NEW cmds, IsSlice(cmds)
  PROVE  pinWrites(mergePinCommandsByID(cmds)) = oneByOne(cmds)
<1> DEFINE m == mergePinCommandsByID(cmds)
           one(id) == [id |-> id, set |-> laterWins(setOf(cmds, id))]
<1>1. /\ \A c \in m : \E id \in idsOf(cmds) : c = one(id)
      /\ \A id \in idsOf(cmds) : one(id) \in m
  BY DEF mergePinCommandsByID
<1>2. \A c \in m : c.id \in idsOf(cmds) /\ c = one(c.id)
  BY <1>1
<1>3. \A c, e \in m : c.id = e.id => c = e
  BY <1>2
<1>4. \A id : one(id).id = id /\ one(id).set = laterWins(setOf(cmds, id))
  OBVIOUS
<1> HIDE DEF m, one
<1>5. \A id : /\ IsSlice(setOf(cmds, id)) /\ DOMAIN setOf(cmds, id) = DOMAIN cmds
              /\ \A k \in DOMAIN cmds :
                   setOf(cmds, id)[k] = IF cmds[k].id = id THEN cmds[k].set ELSE <<>>
  <2> TAKE id
  <2> DEFINE t == setOf(cmds, id)
  <2>1. /\ DOMAIN t = DOMAIN cmds /\ t = [k \in DOMAIN t |-> t[k]]
        /\ \A k \in DOMAIN cmds : t[k] = IF cmds[k].id = id THEN cmds[k].set ELSE <<>>
    BY DEF setOf
  <2> HIDE DEF t
  <2>2. IsSlice(t)
    BY <2>1, MapSlice
  <2> QED BY <2>1, <2>2 DEF t
<1>6. \A id, f : f \in DOMAIN laterWins(setOf(cmds, id)) <=>
        \E k \in DOMAIN cmds : cmds[k].id = id /\ f \in DOMAIN cmds[k].set
  <2> TAKE id, f
  <2>1. f \in DOMAIN laterWins(setOf(cmds, id)) <=>
          \E k \in DOMAIN setOf(cmds, id) : f \in DOMAIN setOf(cmds, id)[k]
    BY LaterWinsDomain
  <2>2. \A k \in DOMAIN cmds : f \in DOMAIN setOf(cmds, id)[k] <=>
          cmds[k].id = id /\ f \in DOMAIN cmds[k].set
    BY <1>5, EmptySlice
  <2> QED BY <1>5, <2>1, <2>2
<1>7. ASSUME NEW l PROVE l \in DOMAIN pinWrites(m) <=> l \in DOMAIN oneByOne(cmds)
  <2>1. l \in DOMAIN pinWrites(m) <=>
          l = <<"pin", l[2], l[3]>> /\ \E c \in m : c.id = l[2] /\ l[3] \in DOMAIN c.set
    BY PinFieldFacts, PinWritesDomain
  <2>2. (\E c \in m : c.id = l[2] /\ l[3] \in DOMAIN c.set) <=>
          l[2] \in idsOf(cmds) /\ l[3] \in DOMAIN laterWins(setOf(cmds, l[2]))
    <3>1. ASSUME NEW c \in m, c.id = l[2], l[3] \in DOMAIN c.set
          PROVE  l[2] \in idsOf(cmds) /\ l[3] \in DOMAIN laterWins(setOf(cmds, l[2]))
      BY <1>2, <1>4, <3>1
    <3>2. ASSUME l[2] \in idsOf(cmds), l[3] \in DOMAIN laterWins(setOf(cmds, l[2]))
          PROVE  \E c \in m : c.id = l[2] /\ l[3] \in DOMAIN c.set
      <4> DEFINE c == one(l[2])
      <4>1. c \in m /\ c.id = l[2] /\ l[3] \in DOMAIN c.set
        BY <1>1, <1>4, <3>2
      <4> QED BY <4>1
    <3> QED BY <3>1, <3>2
  <2>3. l[3] \in DOMAIN laterWins(setOf(cmds, l[2])) <=>
          \E k \in DOMAIN cmds : cmds[k].id = l[2] /\ l[3] \in DOMAIN cmds[k].set
    BY <1>6
  <2>4. \A k \in DOMAIN cmds : cmds[k].id = l[2] => l[2] \in idsOf(cmds)
    BY DEF idsOf
  <2>5. l \in DOMAIN oneByOne(cmds) <=>
          l = <<"pin", l[2], l[3]>>
          /\ \E k \in DOMAIN cmds : cmds[k].id = l[2] /\ l[3] \in DOMAIN cmds[k].set
    BY OneByOneFacts
  <2> QED BY <2>1, <2>2, <2>3, <2>4, <2>5
<1>8. ASSUME NEW l \in DOMAIN oneByOne(cmds) PROVE pinWrites(m)[l] = oneByOne(cmds)[l]
  <2> DEFINE t == setOf(cmds, l[2])
             c == one(l[2])
  <2>1. PICK k \in DOMAIN cmds :
              /\ cmds[k].id = l[2] /\ l[3] \in DOMAIN cmds[k].set
              /\ oneByOne(cmds)[l] = cmds[k].set[l[3]]
              /\ \A j \in DOMAIN cmds : j > k => ~(cmds[j].id = l[2] /\ l[3] \in DOMAIN cmds[j].set)
    BY <1>8, OneByOneFacts
  <2>2. l = <<"pin", l[2], l[3]>>
    BY OneByOneFacts
  <2>3. IsSlice(t) /\ DOMAIN t = DOMAIN cmds /\ t[k] = cmds[k].set
    BY <1>5, <2>1
  <2>4. \A j \in DOMAIN t : j > k => l[3] \notin DOMAIN t[j]
    BY <1>5, <2>1, EmptySlice
  <2>5. c \in m /\ c.id = l[2] /\ c.set = laterWins(t)
    <3>1. l[2] \in idsOf(cmds)
      BY <2>1 DEF idsOf
    <3> QED BY <1>1, <1>4, <3>1
  <2> HIDE DEF t, c
  <2>6. l[3] \in DOMAIN laterWins(t) /\ laterWins(t)[l[3]] = t[k][l[3]]
    <3> DEFINE f == l[3]
    <3>1. f \in DOMAIN t[k] /\ \A j \in DOMAIN t : j > k => f \notin DOMAIN t[j]
      BY <2>1, <2>3, <2>4
    <3> HIDE DEF f
    <3>2. f \in DOMAIN laterWins(t) /\ laterWins(t)[f] = t[k][f]
      BY <2>3, <3>1, LaterWinsIs
    <3> QED BY <3>2 DEF f
  <2>7. pinWrites(m)[l] = c.set[l[3]]
    BY <1>3, <2>2, <2>5, <2>6, PinWritesIs
  <2> QED BY <2>1, <2>3, <2>5, <2>6, <2>7
<1> DEFINE x == pinWrites(m)
           y == oneByOne(cmds)
<1>9. x = [l \in DOMAIN x |-> x[l]] /\ y = [l \in DOMAIN y |-> y[l]]
  BY PinWritesDomain, OneByOneFacts
<1>10. (\A l : l \in DOMAIN x <=> l \in DOMAIN y) /\ \A l \in DOMAIN y : x[l] = y[l]
  BY <1>7, <1>8
<1> HIDE DEF x, y
<1>11. DOMAIN x = DOMAIN y
  BY <1>10
<1>12. x = y
  BY <1>9, <1>10, <1>11, SameMap
<1> QED BY <1>12 DEF x, y, m

\* Commands for different pins write the same in any order.
LEMMA ListedWrites ==
  ASSUME NEW S, IsFiniteSet(S), \A c, e \in S : c.id = e.id => c = e
  PROVE  oneByOne(SetToSeq(S)) = pinWrites(S)
<1> DEFINE s == SetToSeq(S)
           x == pinWrites(S)
           y == oneByOne(s)
<1>1. /\ IsSlice(s) /\ \A i \in DOMAIN s : s[i] \in S
      /\ \A c \in S : \E i \in DOMAIN s : s[i] = c
  BY SetToSeqFacts
<1> HIDE DEF s
<1>2. ASSUME NEW l PROVE l \in DOMAIN x <=> l \in DOMAIN y
  <2>1. l \in DOMAIN x <=>
          l = <<"pin", l[2], l[3]>> /\ \E c \in S : c.id = l[2] /\ l[3] \in DOMAIN c.set
    BY PinFieldFacts, PinWritesDomain
  <2>2. l \in DOMAIN y <=>
          l = <<"pin", l[2], l[3]>>
          /\ \E k \in DOMAIN s : s[k].id = l[2] /\ l[3] \in DOMAIN s[k].set
    BY <1>1, OneByOneFacts
  <2>3. (\E c \in S : c.id = l[2] /\ l[3] \in DOMAIN c.set)
        <=> \E k \in DOMAIN s : s[k].id = l[2] /\ l[3] \in DOMAIN s[k].set
    BY <1>1
  <2> QED BY <2>1, <2>2, <2>3
<1>3. ASSUME NEW l \in DOMAIN y PROVE x[l] = y[l]
  <2>1. PICK k \in DOMAIN s : /\ s[k].id = l[2] /\ l[3] \in DOMAIN s[k].set
                              /\ y[l] = s[k].set[l[3]]
    BY <1>1, <1>3, OneByOneFacts
  <2>2. l = <<"pin", l[2], l[3]>>
    BY <1>1, <1>3, OneByOneFacts
  <2> DEFINE c == s[k]
  <2>3. c \in S /\ c.id = l[2] /\ l[3] \in DOMAIN c.set
    BY <1>1, <2>1
  <2> HIDE DEF c
  <2>4. x[l] = c.set[l[3]]
    BY <2>2, <2>3, PinWritesIs
  <2> QED BY <2>1, <2>4 DEF c
<1>4. x = [l \in DOMAIN x |-> x[l]] /\ y = [l \in DOMAIN y |-> y[l]]
  BY <1>1, PinWritesDomain, OneByOneFacts
<1> HIDE DEF x, y
<1>5. DOMAIN x = DOMAIN y
  BY <1>2
<1>6. x = y
  BY <1>3, <1>4, <1>5, SameMap
<1> QED BY <1>6 DEF x, y, s

\* Slices of commands written one after another.
LEMMA JoinedWrites ==
  ASSUME NEW ss, IsSlice(ss), \A i \in DOMAIN ss : IsSlice(ss[i])
  PROVE  oneByOne(FlattenSeq(ss)) = laterWins([i \in DOMAIN ss |-> oneByOne(ss[i])])
<1> DEFINE F == FlattenSeq(ss)
           e == [c \in ToSet(F) |-> pinWrites({c})]
           mapped == [i \in DOMAIN ss |-> [j \in DOMAIN ss[i] |-> e[ss[i][j]]]]
           tt == [i \in DOMAIN ss |-> [j \in DOMAIN ss[i] |-> pinWrites({ss[i][j]})]]
           us == [i \in DOMAIN tt |-> laterWins(tt[i])]
           vs == [i \in DOMAIN ss |-> oneByOne(ss[i])]
<1>1. \A n \in DOMAIN F : F[n] \in ToSet(F)
  BY DEF ToSet
<1>2. \A i \in DOMAIN ss : \A j \in DOMAIN ss[i] : ss[i][j] \in ToSet(F)
  BY <1>1, FlattenFacts
<1>3. \A c \in ToSet(F) : e[c] = pinWrites({c})
  OBVIOUS
<1> HIDE DEF F, e
<1>4. [n \in DOMAIN F |-> e[F[n]]] = FlattenSeq(mapped)
  BY MapFlatten DEF F
<1>5. [n \in DOMAIN F |-> e[F[n]]] = [n \in DOMAIN F |-> pinWrites({F[n]})]
  BY <1>1, <1>3
<1>6. mapped = tt
  BY <1>2, <1>3
<1>7. oneByOne(F) = laterWins(FlattenSeq(tt))
  <2>1. oneByOne(F) = laterWins([n \in DOMAIN F |-> e[F[n]]])
    BY <1>5 DEF oneByOne
  <2> QED BY <1>4, <1>6, <2>1
<1>8. /\ DOMAIN tt = DOMAIN ss /\ tt = [i \in DOMAIN tt |-> tt[i]]
      /\ \A i \in DOMAIN ss : tt[i] = [j \in DOMAIN ss[i] |-> pinWrites({ss[i][j]})]
  OBVIOUS
<1>9. us = vs
  <2>1. \A i \in DOMAIN ss : laterWins(tt[i]) = oneByOne(ss[i])
    BY DEF oneByOne
  <2> HIDE DEF tt
  <2> QED BY <1>8, <2>1
<1> HIDE DEF tt, mapped
<1>10. IsSlice(tt) /\ \A i \in DOMAIN tt : IsSlice(tt[i])
  <2>1. IsSlice(tt)
    BY <1>8, MapSlice
  <2>2. ASSUME NEW i \in DOMAIN ss PROVE IsSlice(tt[i])
    <3> DEFINE a == ss[i]
               b == tt[i]
    <3>1. IsSlice(a) /\ DOMAIN b = DOMAIN a /\ b = [j \in DOMAIN b |-> b[j]]
      BY <1>8
    <3> HIDE DEF a, b
    <3>2. IsSlice(b)
      BY <3>1, MapSlice
    <3> QED BY <3>2 DEF b
  <2> QED BY <1>8, <2>1, <2>2
<1>11. laterWins(FlattenSeq(tt)) = laterWins(us)
  BY <1>10, LaterWinsFlatten
<1> QED BY <1>7, <1>9, <1>11 DEF F

\* The cached pin commands of a state and of a condition, written one by one.
stateCommands(s, chain) ==
  LET dpll == SetToSeq(s.dpll)
  IN  [j \in DOMAIN dpll |-> createPinCommandForDPLLDesiredState(Dump, dpll[j], chain)]
\* The commands of a state as a slice, and what they write.
stateList(s, chain) ==
  LET sets == stateCommands(s, chain) IN FlattenSeq([j \in DOMAIN sets |-> SetToSeq(sets[j])])
\* What the pins of a state write, one DPLL after the other.
stateFields(s, chain) ==
  LET sets == stateCommands(s, chain) IN laterWins([j \in DOMAIN sets |-> pinWrites(sets[j])])

\* The commands of a state, one by one, write that.
LEMMA StateListWrites ==
  ASSUME NEW chain, NEW s, IsState(s)
  PROVE  IsSlice(stateList(s, chain)) /\ oneByOne(stateList(s, chain)) = stateFields(s, chain)
<1> DEFINE dpll == SetToSeq(s.dpll)
           sets == stateCommands(s, chain)
           ss == [j \in DOMAIN sets |-> SetToSeq(sets[j])]
           us == [j \in DOMAIN ss |-> oneByOne(ss[j])]
           vs == [j \in DOMAIN sets |-> pinWrites(sets[j])]
<1>1. /\ stateList(s, chain) = FlattenSeq(ss) /\ stateFields(s, chain) = laterWins(vs)
  BY DEF stateList, stateFields
<1>2. sets = [j \in DOMAIN dpll |-> createPinCommandForDPLLDesiredState(Dump, dpll[j], chain)]
  BY DEF stateCommands
<1> HIDE DEF sets
<1>3. /\ DOMAIN sets = DOMAIN dpll /\ sets = [j \in DOMAIN sets |-> sets[j]]
      /\ \A j \in DOMAIN sets : /\ IsFiniteSet(sets[j])
                                /\ \A c, e \in sets[j] : c.id = e.id => c = e
  BY <1>2, DesiredStateFacts
<1>4. IsSlice(dpll)
  BY SetToSeqFacts DEF IsState
<1> HIDE DEF dpll
<1>5. /\ DOMAIN ss = DOMAIN sets /\ ss = [j \in DOMAIN ss |-> ss[j]]
      /\ \A j \in DOMAIN sets : ss[j] = SetToSeq(sets[j])
  OBVIOUS
<1>6. us = vs
  <2>1. \A j \in DOMAIN sets : oneByOne(SetToSeq(sets[j])) = pinWrites(sets[j])
    BY <1>3, ListedWrites
  <2> QED BY <2>1
<1> HIDE DEF ss
<1>7. IsSlice(ss) /\ \A j \in DOMAIN ss : IsSlice(ss[j])
  BY <1>3, <1>4, <1>5, MapSlice, SetToSeqFacts
<1>8. oneByOne(FlattenSeq(ss)) = laterWins(us)
  BY <1>7, JoinedWrites
<1>9. IsSlice(FlattenSeq(ss))
  BY <1>7, FlattenSlices
<1> QED BY <1>1, <1>6, <1>8, <1>9

\* Those of a condition write state after state.
LEMMA ConditionWrites ==
  ASSUME NEW chain, NEW k, IsCondition(k)
  PROVE  /\ IsSlice(resolveDpllPinCommands(Dump, k, chain))
         /\ oneByOne(resolveDpllPinCommands(Dump, k, chain))
              = laterWins([i \in DOMAIN k.states |-> stateFields(k.states[i], chain)])
<1> DEFINE states == k.states
           ss == [i \in DOMAIN states |-> stateList(states[i], chain)]
           us == [i \in DOMAIN ss |-> oneByOne(ss[i])]
           vs == [i \in DOMAIN states |-> stateFields(states[i], chain)]
<1>1. IsSlice(states) /\ \A i \in DOMAIN states : IsState(states[i])
  BY DEF IsCondition, IsState
<1>2. resolveDpllPinCommands(Dump, k, chain) = FlattenSeq(ss)
  <2>1. \A s : stateList(s, chain) = concat(SetToSeq(s.dpll), LAMBDA d :
            SetToSeq(createPinCommandForDPLLDesiredState(Dump, d, chain)))
    <3> TAKE s
    <3> DEFINE dpll == SetToSeq(s.dpll)
               sets == [j \in DOMAIN dpll |-> createPinCommandForDPLLDesiredState(Dump, dpll[j], chain)]
    <3>1. stateList(s, chain) = FlattenSeq([j \in DOMAIN sets |-> SetToSeq(sets[j])])
      BY DEF stateList, stateCommands
    <3>2. [j \in DOMAIN sets |-> SetToSeq(sets[j])]
          = [j \in DOMAIN dpll |-> SetToSeq(createPinCommandForDPLLDesiredState(Dump, dpll[j], chain))]
      OBVIOUS
    <3> QED BY <3>1, <3>2 DEF concat
  <2> DEFINE tt == [i \in DOMAIN states |-> concat(SetToSeq(states[i].dpll), LAMBDA d :
            SetToSeq(createPinCommandForDPLLDesiredState(Dump, d, chain)))]
  <2>2. resolveDpllPinCommands(Dump, k, chain) = FlattenSeq(tt)
    BY DEF resolveDpllPinCommands, concat
  <2>3. tt = ss
    BY <2>1
  <2> QED BY <2>2, <2>3
<1> HIDE DEF states
<1>3. /\ DOMAIN ss = DOMAIN states /\ ss = [i \in DOMAIN ss |-> ss[i]]
      /\ \A i \in DOMAIN states : ss[i] = stateList(states[i], chain)
  OBVIOUS
<1>4. us = vs
  <2>1. \A i \in DOMAIN states : oneByOne(stateList(states[i], chain)) = stateFields(states[i], chain)
    BY <1>1, StateListWrites
  <2> QED BY <2>1
<1> HIDE DEF ss
<1>5. IsSlice(ss) /\ \A i \in DOMAIN ss : IsSlice(ss[i])
  BY <1>1, <1>3, MapSlice, StateListWrites
<1>6. oneByOne(FlattenSeq(ss)) = laterWins(us)
  BY <1>5, JoinedWrites
<1>7. IsSlice(FlattenSeq(ss))
  BY <1>5, FlattenSlices
<1> QED BY <1>2, <1>4, <1>6, <1>7 DEF states

-----------------------------------------------------------------------------
(* Cached commands and desired states.                                      *)

\* What the files of a state write.
stateFiles(s, chain) == laterWins(sysfsOf(s, chain))

\* A state writes its pins over its files, and the two have nothing in common.
LEMMA StateWritesFacts ==
  ASSUME NEW chain, IsChain(chain), NEW s, IsState(s)
  PROVE  /\ stateWrites(s, chain) = over(stateFields(s, chain), stateFiles(s, chain))
         /\ \A l \in DOMAIN stateFields(s, chain) : l[1] = "pin"
         /\ \A l \in DOMAIN stateFiles(s, chain) : l[1] = "file"
<1> DEFINE dpll == SetToSeq(s.dpll)
           sets == stateCommands(s, chain)
           vs == [j \in DOMAIN sets |-> pinWrites(sets[j])]
           sysfs == sysfsOf(s, chain)
           f == laterWins(sysfs)
           one == <<f>>
<1>1. sets = [j \in DOMAIN dpll |-> createPinCommandForDPLLDesiredState(Dump, dpll[j], chain)]
  BY DEF stateCommands
<1>2. vs = [j \in DOMAIN dpll |-> pinWrites(createPinCommandForDPLLDesiredState(Dump, dpll[j], chain))]
  BY <1>1
<1>3. stateWrites(s, chain) = laterWins(one \o vs)
  BY <1>2 DEF stateWrites
<1>4. stateFields(s, chain) = laterWins(vs) /\ stateFiles(s, chain) = f
  BY DEF stateFields, stateFiles
<1>5. IsSlice(dpll)
  BY SetToSeqFacts DEF IsState
<1>6. DOMAIN sets = DOMAIN dpll
  BY <1>1
<1>7. /\ DOMAIN vs = DOMAIN dpll /\ vs = [j \in DOMAIN vs |-> vs[j]]
      /\ \A j \in DOMAIN vs : vs[j] = pinWrites(sets[j])
  BY <1>6
<1>8. AreFiles(sysfs)
  BY StateFilesFacts
<1> HIDE DEF dpll, sets, vs, sysfs
<1>9. IsSlice(vs)
  BY <1>5, <1>7, MapSlice
<1>10. f = [l \in DOMAIN f |-> f[l]]
  BY LaterWinsIsFunction
<1>11. \A l \in DOMAIN f : l[1] = "file"
  <2> TAKE l \in DOMAIN f
  <2>1. \E i \in DOMAIN sysfs : l \in DOMAIN sysfs[i]
    BY LaterWinsDomain
  <2> QED BY <1>8, <2>1 DEF AreFiles
<1> HIDE DEF f
<1>12. laterWins(one \o vs) = over(laterWins(vs), laterWins(one))
  <2>1. IsSlice(one)
    BY OneSlice
  <2> HIDE DEF one
  <2> QED BY <1>9, <2>1, LaterWinsJoin
<1>13. laterWins(one) = f
  BY <1>10, LaterWinsOne
<1>14. \A l \in DOMAIN laterWins(vs) : l[1] = "pin"
  <2> TAKE l \in DOMAIN laterWins(vs)
  <2>1. PICK j \in DOMAIN vs : l \in DOMAIN vs[j]
    BY LaterWinsDomain
  <2> DEFINE c == sets[j]
  <2>2. l \in DOMAIN pinWrites(c)
    BY <1>7, <2>1
  <2> HIDE DEF c
  <2>3. l = <<"pin", l[2], l[3]>>
    BY <2>2, PinWritesDomain, PinFieldFacts
  <2>4. <<"pin", l[2], l[3]>>[1] = "pin"
    OBVIOUS
  <2> QED BY <2>3, <2>4
<1> QED BY <1>3, <1>4, <1>11, <1>12, <1>13, <1>14

\* Its states executed one by one leave what its files and then its merged
\* pins leave.
LEMMA OrderedIsMerged ==
  ASSUME NEW chain, IsChain(chain), NEW k, IsCondition(k)
  PROVE  asOrdered(k, chain) = over(pinWrites(mergePinCommandsByID(resolveDpllPinCommands(Dump, k, chain))),
                                    laterWins(resolveSysFSCommands(k, chain)))
<1> DEFINE states == k.states
           a == [i \in DOMAIN states |-> stateFields(states[i], chain)]
           b == [i \in DOMAIN states |-> stateFiles(states[i], chain)]
           both == [i \in DOMAIN a |-> over(a[i], b[i])]
           P == resolveDpllPinCommands(Dump, k, chain)
           F == resolveSysFSCommands(k, chain)
           fs == [i \in DOMAIN states |-> sysfsOf(states[i], chain)]
           gs == [i \in DOMAIN fs |-> laterWins(fs[i])]
<1>1. IsSlice(states) /\ \A i \in DOMAIN states : IsState(states[i])
  BY DEF IsCondition, IsState
<1>2. asOrdered(k, chain) = laterWins(both)
  <2>1. \A i \in DOMAIN states : stateWrites(states[i], chain) = over(a[i], b[i])
    BY <1>1, StateWritesFacts
  <2> QED BY <2>1 DEF asOrdered
<1>3. IsSlice(P) /\ oneByOne(P) = laterWins(a)
  BY ConditionWrites
<1>4. F = FlattenSeq(fs)
  BY DEF resolveSysFSCommands, concat
<1> HIDE DEF P, F
<1>5. pinWrites(mergePinCommandsByID(P)) = laterWins(a)
  BY <1>3, MergedWrites
<1>6. gs = b
  BY DEF stateFiles
<1> HIDE DEF states
<1>7. /\ DOMAIN fs = DOMAIN states /\ fs = [i \in DOMAIN fs |-> fs[i]]
      /\ \A i \in DOMAIN states : fs[i] = sysfsOf(states[i], chain)
  OBVIOUS
<1>8. /\ DOMAIN a = DOMAIN states /\ a = [i \in DOMAIN a |-> a[i]]
      /\ \A i \in DOMAIN states : a[i] = stateFields(states[i], chain)
  OBVIOUS
<1>9. /\ DOMAIN b = DOMAIN states /\ b = [i \in DOMAIN b |-> b[i]]
      /\ \A i \in DOMAIN states : b[i] = stateFiles(states[i], chain)
  OBVIOUS
<1> HIDE DEF fs, a, b
<1>10. laterWins(F) = laterWins(b)
  <2>1. \A i \in DOMAIN fs : IsSlice(fs[i])
    BY <1>1, <1>7, StateFilesFacts DEF AreFiles
  <2>2. IsSlice(fs)
    BY <1>1, <1>7, MapSlice
  <2>3. laterWins(FlattenSeq(fs)) = laterWins(gs)
    BY <2>1, <2>2, LaterWinsFlatten
  <2> QED BY <1>4, <1>6, <2>3
<1>11. laterWins(both) = over(laterWins(a), laterWins(b))
  <2>1. IsSlice(a) /\ IsSlice(b) /\ DOMAIN a = DOMAIN b
    BY <1>1, <1>8, <1>9, MapSlice
  <2>2. ASSUME NEW i \in DOMAIN a, NEW j \in DOMAIN a PROVE DOMAIN a[i] \cap DOMAIN b[j] = {}
    <3>1. \A l \in DOMAIN a[i] : l[1] = "pin"
      BY <1>1, <1>8, StateWritesFacts
    <3>2. \A l \in DOMAIN b[j] : l[1] = "file"
      BY <1>1, <1>8, <1>9, StateWritesFacts
    <3> QED BY <3>1, <3>2
  <2> HIDE DEF both
  <2>3. laterWins([i \in DOMAIN a |-> over(a[i], b[i])]) = over(laterWins(a), laterWins(b))
    BY <2>1, <2>2, LaterWinsApart
  <2> QED BY <2>3 DEF both
<1> QED BY <1>2, <1>5, <1>10, <1>11 DEF P, F

\* The commands cached under the name of a triggered condition, when no other
\* has that name, are its own.
LEMMA CachedIsOwn ==
  ASSUME NEW c, Enriched(c), NEW k \in DOMAIN c.chain.conditions,
         c.chain.conditions[k].triggers # {},
         \A j \in DOMAIN c.chain.conditions :
            c.chain.conditions[j].name = c.chain.conditions[k].name => j = k
  PROVE  /\ cached(c.pins, c.chain.conditions[k].name)
              = resolveDpllPinCommands(Dump, c.chain.conditions[k], c.chain)
         /\ cached(c.sysfs, c.chain.conditions[k].name)
              = resolveSysFSCommands(c.chain.conditions[k], c.chain)
<1> DEFINE chain == c.chain
           cs == chain.conditions
           name == cs[k].name
           P == resolveDpllPinCommands(Dump, cs[k], chain)
           F == resolveSysFSCommands(cs[k], chain)
<1>1. PICK b \in resolveClockChainBehavior(Dump, chain) : c.pins = b.pins /\ c.sysfs = b.sysfs
  BY DEF Enriched
<1>2. IsChain(chain)
  BY DEF Enriched
<1>3. /\ \A n \in DOMAIN b.pins : \E m \in DOMAIN cs :
           cs[m].name = n /\ b.pins[n] = resolveDpllPinCommands(Dump, cs[m], chain)
      /\ \A n \in DOMAIN b.sysfs : \E m \in DOMAIN cs :
           cs[m].name = n /\ b.sysfs[n] = resolveSysFSCommands(cs[m], chain)
      /\ P # <<>> => name \in DOMAIN b.pins
      /\ F # <<>> => name \in DOMAIN b.sysfs
  <2> HIDE DEF chain
  <2> QED BY <1>2, BehaviorFacts DEF chain
<1>4. name \in DOMAIN b.pins => b.pins[name] = P
  BY <1>3
<1>5. name \in DOMAIN b.sysfs => b.sysfs[name] = F
  BY <1>3
<1>6. cached(b.pins, name) = P /\ cached(b.sysfs, name) = F
  <2> HIDE DEF P, F, name
  <2> QED BY <1>3, <1>4, <1>5 DEF cached
<1> QED BY <1>1, <1>6

\* The invariant implies the property.
LEMMA CachedIsOrdered == HWInv => CachedAsOrdered
<1> SUFFICES ASSUME HWInv, NEW i \in DOMAIN configs, NEW k \in DOMAIN configs[i].chain.conditions,
                    configs[i].chain.conditions[k].triggers # {},
                    \A j \in DOMAIN configs[i].chain.conditions :
                       configs[i].chain.conditions[j].name = configs[i].chain.conditions[k].name => j = k
             PROVE  writePins(laterWins(cached(configs[i].sysfs, configs[i].chain.conditions[k].name)),
                              mergePinCommandsByID(cached(configs[i].pins, configs[i].chain.conditions[k].name)))
                      = asOrdered(configs[i].chain.conditions[k], configs[i].chain)
  BY DEF CachedAsOrdered
<1> DEFINE c == configs[i]
           chain == c.chain
           condition == chain.conditions[k]
           name == condition.name
<1>1. Enriched(c) /\ IsChain(chain)
  BY DEF HWInv, AreEnriched, Enriched
<1>2. IsCondition(condition)
  BY <1>1 DEF IsChain, IsBehavior
<1>3. /\ cached(c.pins, name) = resolveDpllPinCommands(Dump, condition, chain)
      /\ cached(c.sysfs, name) = resolveSysFSCommands(condition, chain)
  BY <1>1, CachedIsOwn
<1> HIDE DEF chain, condition, name
<1>4. asOrdered(condition, chain)
      = over(pinWrites(mergePinCommandsByID(resolveDpllPinCommands(Dump, condition, chain))),
             laterWins(resolveSysFSCommands(condition, chain)))
  BY <1>1, <1>2, OrderedIsMerged
<1>5. writePins(laterWins(cached(c.sysfs, name)), mergePinCommandsByID(cached(c.pins, name)))
      = asOrdered(condition, chain)
  BY <1>3, <1>4 DEF writePins
<1> QED BY <1>5 DEF chain, condition, name

\* Writing the cached files and then the merged pins of a condition leaves
\* what executing its desired states one by one would.
THEOREM CachedCommandsAsOrdered == HWSpec => []CachedAsOrdered
<1>1. HWInv => CachedAsOrdered
  BY CachedIsOrdered
<1> QED BY <1>1, HWInvariant, PTL

-----------------------------------------------------------------------------
(* What a list of steps writes.                                             *)

\* Without a fault, a later step over an earlier one.
writes(steps) == laterWins([i \in DOMAIN steps |-> effect(steps[i])])

\* A list of steps none of which fails by itself.
Clean(steps) == IsSlice(steps) /\ \A i \in DOMAIN steps : steps[i].do \in {"files", "pins"}

\* Lists of steps joined write list after list.
LEMMA WritesFlatten ==
  ASSUME NEW ss, IsSlice(ss), \A i \in DOMAIN ss : IsSlice(ss[i])
  PROVE  writes(FlattenSeq(ss)) = laterWins([i \in DOMAIN ss |-> writes(ss[i])])
<1> DEFINE F == FlattenSeq(ss)
           e == [c \in ToSet(F) |-> effect(c)]
           mapped == [i \in DOMAIN ss |-> [j \in DOMAIN ss[i] |-> e[ss[i][j]]]]
           tt == [i \in DOMAIN ss |-> [j \in DOMAIN ss[i] |-> effect(ss[i][j])]]
           us == [i \in DOMAIN tt |-> laterWins(tt[i])]
           vs == [i \in DOMAIN ss |-> writes(ss[i])]
<1>1. \A n \in DOMAIN F : F[n] \in ToSet(F)
  BY DEF ToSet
<1>2. \A i \in DOMAIN ss : \A j \in DOMAIN ss[i] : ss[i][j] \in ToSet(F)
  BY <1>1, FlattenFacts
<1>3. \A c \in ToSet(F) : e[c] = effect(c)
  OBVIOUS
<1> HIDE DEF F, e
<1>4. [n \in DOMAIN F |-> e[F[n]]] = FlattenSeq(mapped)
  BY MapFlatten DEF F
<1>5. [n \in DOMAIN F |-> e[F[n]]] = [n \in DOMAIN F |-> effect(F[n])]
  BY <1>1, <1>3
<1>6. mapped = tt
  BY <1>2, <1>3
<1>7. writes(F) = laterWins(FlattenSeq(tt))
  <2>1. writes(F) = laterWins([n \in DOMAIN F |-> e[F[n]]])
    BY <1>5 DEF writes
  <2> QED BY <1>4, <1>6, <2>1
<1>8. /\ DOMAIN tt = DOMAIN ss /\ tt = [i \in DOMAIN tt |-> tt[i]]
      /\ \A i \in DOMAIN ss : tt[i] = [j \in DOMAIN ss[i] |-> effect(ss[i][j])]
  OBVIOUS
<1>9. us = vs
  <2>1. \A i \in DOMAIN ss : laterWins(tt[i]) = writes(ss[i])
    BY DEF writes
  <2> HIDE DEF tt
  <2> QED BY <1>8, <2>1
<1> HIDE DEF tt, mapped
<1>10. IsSlice(tt) /\ \A i \in DOMAIN tt : IsSlice(tt[i])
  <2>1. IsSlice(tt)
    BY <1>8, MapSlice
  <2>2. ASSUME NEW i \in DOMAIN ss PROVE IsSlice(tt[i])
    <3> DEFINE a == ss[i]
               b == tt[i]
    <3>1. IsSlice(a) /\ DOMAIN b = DOMAIN a /\ b = [j \in DOMAIN b |-> b[j]]
      BY <1>8
    <3> HIDE DEF a, b
    <3>2. IsSlice(b)
      BY <3>1, MapSlice
    <3> QED BY <3>2 DEF b
  <2> QED BY <1>8, <2>1, <2>2
<1>11. laterWins(FlattenSeq(tt)) = laterWins(us)
  BY <1>10, LaterWinsFlatten
<1> QED BY <1>7, <1>9, <1>11 DEF F

\* Two lists appended: the second is written over the first.
LEMMA WritesJoin ==
  ASSUME NEW a, IsSlice(a), NEW b, IsSlice(b)
  PROVE  writes(a \o b) = over(writes(b), writes(a))
<1> DEFINE ea == [i \in DOMAIN a |-> effect(a[i])]
           eb == [i \in DOMAIN b |-> effect(b[i])]
           ab == a \o b
           eab == [i \in DOMAIN ab |-> effect(ab[i])]
           ej == ea \o eb
<1>1. /\ DOMAIN ea = DOMAIN a /\ ea = [i \in DOMAIN ea |-> ea[i]]
      /\ \A i \in DOMAIN a : ea[i] = effect(a[i])
  OBVIOUS
<1>2. /\ DOMAIN eb = DOMAIN b /\ eb = [i \in DOMAIN eb |-> eb[i]]
      /\ \A i \in DOMAIN b : eb[i] = effect(b[i])
  OBVIOUS
<1>3. /\ DOMAIN eab = DOMAIN ab /\ eab = [i \in DOMAIN eab |-> eab[i]]
      /\ \A i \in DOMAIN ab : eab[i] = effect(ab[i])
  OBVIOUS
<1>4. writes(a) = laterWins(ea) /\ writes(b) = laterWins(eb) /\ writes(ab) = laterWins(eab)
  BY DEF writes
<1> HIDE DEF ea, eb, eab
<1>5. /\ IsSlice(ab) /\ Len(ab) = Len(a) + Len(b) /\ DOMAIN ab = 1..(Len(a) + Len(b))
      /\ \A i \in 1..(Len(a) + Len(b)) : ab[i] = IF i <= Len(a) THEN a[i] ELSE b[i - Len(a)]
  BY JoinSlices
<1> HIDE DEF ab
<1>6. /\ IsSlice(ea) /\ Len(ea) = Len(a) /\ IsSlice(eb) /\ Len(eb) = Len(b)
      /\ IsSlice(eab) /\ Len(eab) = Len(ab)
  BY <1>1, <1>2, <1>3, <1>5, MapSlice
<1>7. /\ IsSlice(ej) /\ Len(ej) = Len(ea) + Len(eb)
      /\ \A i \in 1..(Len(ea) + Len(eb)) : ej[i] = IF i <= Len(ea) THEN ea[i] ELSE eb[i - Len(ea)]
  BY <1>6, JoinSlices
<1>8. ej = eab
  <2> HIDE DEF ej
  <2>1. /\ Len(a) \in Nat /\ DOMAIN a = 1..Len(a) /\ Len(b) \in Nat /\ DOMAIN b = 1..Len(b)
    BY SliceFacts
  <2>2. ASSUME NEW i \in 1..Len(ej) PROVE ej[i] = eab[i]
    <3>0. i \in 1..(Len(a) + Len(b))
      BY <1>6, <1>7
    <3>1. CASE i <= Len(a)
      <4>1. i \in DOMAIN a /\ i \in DOMAIN ab /\ ab[i] = a[i]
        BY <1>5, <2>1, <3>0, <3>1
      <4>2. ej[i] = ea[i]
        BY <1>6, <1>7, <3>0, <3>1
      <4> QED BY <1>1, <1>3, <4>1, <4>2
    <3>2. CASE ~(i <= Len(a))
      <4>1. i - Len(a) \in DOMAIN b /\ i \in DOMAIN ab /\ ab[i] = b[i - Len(a)]
        BY <1>5, <2>1, <3>0, <3>2
      <4>2. ej[i] = eb[i - Len(a)]
        BY <1>6, <1>7, <3>0, <3>2
      <4> QED BY <1>2, <1>3, <4>1, <4>2
    <3> QED BY <3>1, <3>2
  <2>3. Len(ej) = Len(eab)
    BY <1>5, <1>6, <1>7
  <2> QED BY <1>6, <1>7, <2>2, <2>3, SameSlice
<1>9. laterWins(ej) = over(laterWins(eb), laterWins(ea))
  BY <1>6, LaterWinsJoin
<1> QED BY <1>4, <1>8, <1>9 DEF ab

\* The parts of a clean list are clean.
LEMMA CleanFlatten ==
  ASSUME NEW ss, IsSlice(ss), \A i \in DOMAIN ss : IsSlice(ss[i]), Clean(FlattenSeq(ss))
  PROVE  \A i \in DOMAIN ss : Clean(ss[i])
<1> SUFFICES ASSUME NEW i \in DOMAIN ss, NEW j \in DOMAIN ss[i]
             PROVE  ss[i][j].do \in {"files", "pins"}
  BY DEF Clean
<1>1. PICK n \in DOMAIN FlattenSeq(ss) : FlattenSeq(ss)[n] = ss[i][j]
  BY FlattenFacts
<1> QED BY <1>1 DEF Clean

\* So are the two parts of an appended one.
LEMMA CleanJoin ==
  ASSUME NEW a, IsSlice(a), NEW b, IsSlice(b), Clean(a \o b)
  PROVE  Clean(a) /\ Clean(b)
<1> DEFINE ab == a \o b
<1>1. /\ \A i \in DOMAIN a : i \in DOMAIN ab /\ ab[i] = a[i]
      /\ \A i \in DOMAIN b : i + Len(a) \in DOMAIN ab /\ ab[i + Len(a)] = b[i]
  BY JoinParts
<1>2. \A n \in DOMAIN ab : ab[n].do \in {"files", "pins"}
  BY DEF Clean
<1> HIDE DEF ab
<1>3. \A i \in DOMAIN a : a[i].do \in {"files", "pins"}
  BY <1>1, <1>2
<1>4. \A i \in DOMAIN b : b[i].do \in {"files", "pins"}
  BY <1>1, <1>2
<1> QED BY <1>3, <1>4 DEF Clean

\* One step writes its effect.
LEMMA WritesOne ==
  ASSUME NEW step
  PROVE  writes(<<step>>) = effect(step)
<1> DEFINE one == <<step>>
           f == effect(step)
<1>1. [i \in DOMAIN one |-> effect(one[i])] = <<f>>
  <2> DEFINE x == [i \in DOMAIN one |-> effect(one[i])]
             y == <<f>>
  <2>1. DOMAIN x = {1} /\ x[1] = f /\ x = [i \in DOMAIN x |-> x[i]]
    OBVIOUS
  <2>2. DOMAIN y = {1} /\ y[1] = f /\ y = [i \in DOMAIN y |-> y[i]]
    OBVIOUS
  <2> HIDE DEF x, y
  <2>3. x = y
    BY <2>1, <2>2, SameMap
  <2> QED BY <2>3 DEF x, y
<1>2. f = [l \in DOMAIN f |-> f[l]]
  BY EffectIsFunction
<1>3. writes(one) = laterWins(<<f>>)
  BY <1>1 DEF writes
<1> HIDE DEF f
<1>4. laterWins(<<f>>) = f
  BY <1>2, LaterWinsOne
<1> QED BY <1>3, <1>4 DEF f

\* A pin that is applied was found in the dump.
LEMMA AppliedPinFacts ==
  ASSUME pinCache \in {{}, Dump}, NEW d, NEW chain, applyPin(d, chain).do \in {"files", "pins"}
  PROVE  applyPin(d, chain) = pins(createPinCommandForDPLLDesiredState(Dump, d, chain))
<1> DEFINE cmd == createPinCommandForDPLLDesiredState(pinCache, d, chain)
<1>1. cmd # {} /\ applyPin(d, chain) = pins(cmd)
  BY DEF applyPin, panic, fail
<1>2. pinCache # {}
  <2> SUFFICES ASSUME pinCache = {} PROVE cmd = {}
    BY <1>1
  <2>1. \A clock : GetPin(pinCache, clock, d.label) = {}
    BY DEF GetPin
  <2>2. UNION {GetPin(pinCache, clock, d.label) :
                 clock \in subsystemClock(chain, d.subsystem, pinCache)} = {}
    BY <2>1
  <2> QED BY <2>2 DEF createPinCommandForDPLLDesiredState
<1>3. pinCache = Dump
  BY <1>2
<1> QED BY <1>1, <1>3

\* Executing a desired state that resolves writes what the state asks for: with
\* an empty pin cache it does not resolve.
LEMMA AppliedStateWrites ==
  ASSUME pinCache \in {{}, Dump}, NEW chain, IsChain(chain), NEW s, IsState(s),
         Clean(applyState(s, chain))
  PROVE  writes(applyState(s, chain)) = stateWrites(s, chain)
<1> DEFINE dpll == SetToSeq(s.dpll)
           ps == [i \in DOMAIN dpll |-> applyPin(dpll[i], chain)]
           ptp == ptpParts(s)
           fs == [i \in DOMAIN ptp |-> applyFile(ptp[i], chain)]
           sets == [i \in DOMAIN ptp |-> processPTPPinConfig(ptp[i], chain)]
           fields == [i \in DOMAIN dpll |->
                        pinWrites(createPinCommandForDPLLDesiredState(Dump, dpll[i], chain))]
           effects == [i \in DOMAIN ps |-> effect(ps[i])]
<1>1. applyState(s, chain) = fs \o ps /\ sysfsOf(s, chain) = FlattenSeq(sets)
  BY DEF applyState, sysfsOf, concat
<1>2. IsSlice(dpll) /\ IsSlice(ptp)
  BY SetToSeqFacts, StateFilesFacts DEF IsState
<1>5. stateFields(s, chain) = laterWins(fields)
  <2> DEFINE cmds == stateCommands(s, chain)
  <2>1. cmds = [j \in DOMAIN dpll |-> createPinCommandForDPLLDesiredState(Dump, dpll[j], chain)]
    BY DEF stateCommands
  <2>2. [j \in DOMAIN cmds |-> pinWrites(cmds[j])] = fields
    BY <2>1
  <2> QED BY <2>2 DEF stateFields
<1> HIDE DEF dpll, ptp
<1>6. /\ DOMAIN ps = DOMAIN dpll /\ ps = [i \in DOMAIN ps |-> ps[i]]
      /\ \A i \in DOMAIN dpll : ps[i] = applyPin(dpll[i], chain)
  OBVIOUS
<1>3. /\ DOMAIN fs = DOMAIN ptp /\ fs = [i \in DOMAIN fs |-> fs[i]]
      /\ \A i \in DOMAIN ptp : fs[i] = applyFile(ptp[i], chain)
  OBVIOUS
<1>4. /\ DOMAIN sets = DOMAIN ptp /\ sets = [i \in DOMAIN sets |-> sets[i]]
      /\ \A i \in DOMAIN ptp : sets[i] = processPTPPinConfig(ptp[i], chain)
  OBVIOUS
<1> HIDE DEF ps, fs, sets
<1>7. IsSlice(fs) /\ IsSlice(ps) /\ IsSlice(sets) /\ \A i \in DOMAIN sets : AreFiles(sets[i])
  BY <1>2, <1>3, <1>4, <1>6, MapSlice, PTPFilesFacts
<1>9. Clean(fs) /\ Clean(ps)
  <2>1. Clean(fs \o ps)
    BY <1>1
  <2> QED BY <1>7, <2>1, CleanJoin
<1>8. writes(fs) = laterWins(sysfsOf(s, chain))
  <2>1. ASSUME NEW i \in DOMAIN ptp PROVE effect(fs[i]) = laterWins(sets[i])
    <3>1. fs[i].do \in {"files", "pins"}
      BY <1>3, <1>9 DEF Clean
    <3>2. fs[i] = files(sets[i])
      BY <1>3, <1>4, <3>1 DEF applyFile, fail
    <3>3. effect(fs[i]) = laterWins(prefix(sets[i], Len(sets[i])))
      BY <3>2 DEF effect, files
    <3>4. prefix(sets[i], Len(sets[i])) = sets[i]
      BY <1>4, <1>7, PrefixOfAll DEF AreFiles
    <3> QED BY <3>3, <3>4
  <2>2. writes(fs) = laterWins([i \in DOMAIN sets |-> laterWins(sets[i])])
    BY <1>3, <1>4, <2>1 DEF writes
  <2> QED BY <1>1, <1>7, <2>2, LaterWinsFlatten DEF AreFiles
<1>10. writes(ps) = laterWins(fields)
  <2>1. ASSUME NEW i \in DOMAIN dpll
        PROVE  effect(ps[i]) = pinWrites(createPinCommandForDPLLDesiredState(Dump, dpll[i], chain))
    <3>1. ps[i] = applyPin(dpll[i], chain) /\ applyPin(dpll[i], chain).do \in {"files", "pins"}
      BY <1>6, <1>9 DEF Clean
    <3>2. ps[i] = pins(createPinCommandForDPLLDesiredState(Dump, dpll[i], chain))
      BY <3>1, AppliedPinFacts
    <3> QED BY <3>2 DEF effect, pins
  <2>2. effects = fields
    BY <1>6, <2>1
  <2> QED BY <2>2 DEF writes
<1>11. writes(fs \o ps) = over(writes(ps), writes(fs))
  BY <1>7, WritesJoin
<1>12. stateWrites(s, chain) = over(laterWins(fields), laterWins(sysfsOf(s, chain)))
  BY <1>5, StateWritesFacts DEF stateFiles
<1> QED BY <1>1, <1>8, <1>10, <1>11, <1>12

\* Executing a condition that resolves writes it state by state.
LEMMA AppliedStatesWrites ==
  ASSUME pinCache \in {{}, Dump}, NEW chain, IsChain(chain), NEW k, IsCondition(k),
         Clean(applyDesiredStatesInOrder(k, chain))
  PROVE  writes(applyDesiredStatesInOrder(k, chain)) = asOrdered(k, chain)
<1> DEFINE states == k.states
           ss == [i \in DOMAIN states |-> applyState(states[i], chain)]
           us == [i \in DOMAIN ss |-> writes(ss[i])]
           vs == [i \in DOMAIN states |-> stateWrites(states[i], chain)]
<1>1. applyDesiredStatesInOrder(k, chain) = FlattenSeq(ss)
  BY DEF applyDesiredStatesInOrder, concat
<1>2. IsSlice(states) /\ \A i \in DOMAIN states : IsState(states[i])
  BY DEF IsCondition, IsState
<1>3. asOrdered(k, chain) = laterWins(vs)
  BY DEF asOrdered
<1> HIDE DEF states
<1>4. /\ DOMAIN ss = DOMAIN states /\ ss = [i \in DOMAIN ss |-> ss[i]]
      /\ \A i \in DOMAIN states : ss[i] = applyState(states[i], chain)
  OBVIOUS
<1> HIDE DEF ss
<1>5. IsSlice(ss)
  BY <1>2, <1>4, MapSlice
<1>6. \A i \in DOMAIN ss : IsSlice(ss[i])
  BY <1>2, <1>4, AppliedStateFacts DEF StepsOn
<1>7. \A i \in DOMAIN ss : Clean(ss[i])
  <2>1. Clean(FlattenSeq(ss))
    BY <1>1
  <2> QED BY <1>5, <1>6, <2>1, CleanFlatten
<1>8. us = vs
  <2>1. \A i \in DOMAIN states : writes(ss[i]) = stateWrites(states[i], chain)
    BY <1>2, <1>4, <1>7, AppliedStateWrites
  <2> QED BY <1>4, <2>1
<1>9. writes(FlattenSeq(ss)) = laterWins(us)
  BY <1>5, <1>6, WritesFlatten
<1> QED BY <1>1, <1>3, <1>8, <1>9

\* The init conditions of a chain write what they want.
LEMMA AppliedInitWrites ==
  ASSUME pinCache \in {{}, Dump}, NEW chain, IsChain(chain),
         Clean(applyConditions(chain, "init"))
  PROVE  writes(applyConditions(chain, "init")) = initWants(chain)
<1> DEFINE init == conditionsOnce(chain, "init")
           ss == [i \in DOMAIN init |-> applyDesiredStatesInOrder(init[i], chain)]
           us == [i \in DOMAIN ss |-> writes(ss[i])]
           vs == [i \in DOMAIN init |-> asOrdered(init[i], chain)]
<1>1. applyConditions(chain, "init") = FlattenSeq(ss)
  BY DEF applyConditions, concat
<1>2. IsSlice(init) /\ \A i \in DOMAIN init : IsCondition(init[i])
  BY ConditionsOnceFacts DEF AreConditions
<1>3. initWants(chain) = laterWins(vs)
  BY DEF initWants
<1> HIDE DEF init
<1>4. /\ DOMAIN ss = DOMAIN init /\ ss = [i \in DOMAIN ss |-> ss[i]]
      /\ \A i \in DOMAIN init : ss[i] = applyDesiredStatesInOrder(init[i], chain)
  OBVIOUS
<1> HIDE DEF ss
<1>5. IsSlice(ss)
  BY <1>2, <1>4, MapSlice
<1>6. \A i \in DOMAIN ss : IsSlice(ss[i])
  BY <1>2, <1>4, AppliedStatesFacts DEF StepsOn
<1>7. \A i \in DOMAIN ss : Clean(ss[i])
  <2>1. Clean(FlattenSeq(ss))
    BY <1>1
  <2> QED BY <1>5, <1>6, <2>1, CleanFlatten
<1>8. us = vs
  <2>1. \A i \in DOMAIN init : writes(ss[i]) = asOrdered(init[i], chain)
    BY <1>2, <1>4, <1>7, AppliedStatesWrites
  <2> QED BY <1>4, <2>1
<1>9. writes(FlattenSeq(ss)) = laterWins(us)
  BY <1>5, <1>6, WritesFlatten
<1> QED BY <1>1, <1>3, <1>8, <1>9

-----------------------------------------------------------------------------
(* Init conditions.                                                         *)

\* The steps of one configuration of a profile.
configSteps(c) == applyStructureDefaults(c) \o applyDefaultAndInitConditions(c)

\* A list of steps that stops at the first failure.
Plain(steps) == IsSlice(steps) /\ \A i \in DOMAIN steps : steps[i].do # "resume"

\* Two of them appended.
LEMMA JoinPlain ==
  ASSUME NEW a, Plain(a), NEW b, Plain(b)
  PROVE  Plain(a \o b)
<1> DEFINE ab == a \o b
<1>1. /\ \A i \in DOMAIN a : ab[i] = a[i]
      /\ \A i \in DOMAIN b : ab[i + Len(a)] = b[i]
      /\ \A j \in DOMAIN ab :
           j \in DOMAIN a \/ (j - Len(a) \in DOMAIN b /\ (j - Len(a)) + Len(a) = j)
  BY JoinParts DEF Plain
<1>2. IsSlice(ab)
  BY JoinSlices DEF Plain
<1> HIDE DEF ab
<1>3. ASSUME NEW j \in DOMAIN ab PROVE ab[j].do # "resume"
  <2>1. CASE j \in DOMAIN a
    BY <1>1, <2>1 DEF Plain
  <2>2. CASE j - Len(a) \in DOMAIN b /\ (j - Len(a)) + Len(a) = j
    <3> DEFINE i == j - Len(a)
    <3>1. i \in DOMAIN b /\ i + Len(a) = j
      BY <2>2
    <3> HIDE DEF i
    <3>2. ab[j] = b[i]
      BY <1>1, <3>1
    <3> QED BY <3>1, <3>2 DEF Plain
  <2> QED BY <1>1, <2>1, <2>2
<1>4. Plain(ab)
  BY <1>2, <1>3 DEF Plain
<1> QED BY <1>4 DEF ab

\* A list of one.
LEMMA OnePlain ==
  ASSUME NEW step, step.do # "resume"
  PROVE  Plain(<<step>>)
BY OneSlice DEF Plain

\* An application's steps: the structure's, the default conditions', and the
\* init conditions' after them.
LEMMA ConfigStepsFacts ==
  ASSUME pinCache \in {{}, Dump}, NEW c, Enriched(c)
  PROVE  /\ Plain(configSteps(c))
         /\ Clean(configSteps(c)) =>
              \A l \in DOMAIN initWants(c.chain) :
                l \in DOMAIN writes(configSteps(c)) /\ writes(configSteps(c))[l] = initWants(c.chain)[l]
<1> DEFINE a == applyStructureDefaults(c)
           d == applyConditions(c.chain, "default")
           t == applyConditions(c.chain, "init")
           dt == d \o t
           m == pins(mergePinCommandsByID(c.structPins))
<1>1. IsChain(c.chain)
  BY DEF Enriched
<1>2. Plain(d) /\ Plain(t)
  BY <1>1, AppliedConditionsFacts DEF StepsOn, StepOn, Plain
<1>3. Plain(a)
  <2>1. Plain(<<files(c.structSysfs)>>) /\ Plain(<<m>>) /\ Plain(<<>>)
    <3>1. files(c.structSysfs).do # "resume" /\ m.do # "resume"
      BY DEF files, pins
    <3>2. Plain(<<>>)
      <4>1. PICK e : e = <<>>
        OBVIOUS
      <4>2. IsSlice(e) /\ DOMAIN e = {}
        BY <4>1, EmptySlice
      <4>3. Plain(e)
        BY <4>2 DEF Plain
      <4> QED BY <4>1, <4>3
    <3> HIDE DEF m
    <3> QED BY <3>1, <3>2, OnePlain
  <2>2. applyDpllPinCommands(c.structPins) = <<>> \/ applyDpllPinCommands(c.structPins) = <<m>>
    BY DEF applyDpllPinCommands
  <2>3. Plain(applyDpllPinCommands(c.structPins))
    BY <2>1, <2>2
  <2> QED BY <2>1, <2>3, JoinPlain DEF applyStructureDefaults
<1>4. configSteps(c) = a \o dt
  BY DEF configSteps, applyDefaultAndInitConditions
<1>5. Clean(t) => writes(t) = initWants(c.chain)
  BY <1>1, AppliedInitWrites
<1> HIDE DEF a, d, t
<1>6. Plain(dt)
  BY <1>2, JoinPlain
<1>7. writes(dt) = over(writes(t), writes(d))
  BY <1>2, WritesJoin DEF Plain
<1>8. Clean(dt) => Clean(t)
  BY <1>2, CleanJoin DEF Plain
<1> HIDE DEF dt
<1>9. Plain(a \o dt) /\ writes(a \o dt) = over(writes(dt), writes(a))
      /\ (Clean(a \o dt) => Clean(dt))
  BY <1>3, <1>6, JoinPlain, WritesJoin, CleanJoin DEF Plain
<1>10. ASSUME Clean(configSteps(c)), NEW l \in DOMAIN initWants(c.chain)
       PROVE  l \in DOMAIN writes(configSteps(c)) /\ writes(configSteps(c))[l] = initWants(c.chain)[l]
  <2>1. writes(t) = initWants(c.chain)
    BY <1>4, <1>5, <1>8, <1>9, <1>10
  <2>2. l \in DOMAIN writes(t) /\ writes(t)[l] = initWants(c.chain)[l]
    BY <1>10, <2>1
  <2>3. l \in DOMAIN writes(dt) /\ writes(dt)[l] = writes(t)[l]
    BY <1>7, <2>2, OverWins
  <2>4. l \in DOMAIN writes(a \o dt) /\ writes(a \o dt)[l] = writes(dt)[l]
    BY <1>9, <2>3, OverWins
  <2> QED BY <1>4, <2>2, <2>3, <2>4
<1> QED BY <1>4, <1>9, <1>10

\* A profile with one configuration: what its init conditions want is written
\* by a run that meets no fault, and nothing is written over it.
LEMMA ProfileWrites ==
  ASSUME HWInv, NEW name, NEW i \in DOMAIN configs, relevant(name) # <<>>,
         \A j \in DOMAIN configs : ProfileNamesMatch(name, configs[j].profile) => j = i,
         NEW q \in run(start, profileSteps(name)), q.status = "ok", q.n = faults,
         NEW l \in DOMAIN initWants(configs[i].chain)
  PROVE  l \in DOMAIN q.hw /\ q.hw[l] = initWants(configs[i].chain)[l]
<1> DEFINE c == configs[i]
           r == relevant(name)
           ss == [n \in DOMAIN r |-> configSteps(r[n])]
           us == [n \in DOMAIN ss |-> writes(ss[n])]
           all == profileSteps(name)
<1>1. Enriched(c) /\ pinCache \in {{}, Dump} /\ faults \in Nat /\ IsSlice(configs)
  BY DEF HWInv, AreEnriched
<1>2. IsSlice(r) /\ \A n \in DOMAIN r : r[n] = c
  BY <1>1, RelevantFacts
<1>3. all = FlattenSeq(ss)
  <2>1. profileSteps(name) = FlattenSeq([n \in DOMAIN r |->
            applyStructureDefaults(r[n]) \o applyDefaultAndInitConditions(r[n])])
    BY DEF profileSteps, concat
  <2> QED BY <2>1 DEF configSteps
<1>4. l \in DOMAIN initWants(c.chain)
  OBVIOUS
<1>5. r # <<>>
  BY DEF r
<1> HIDE DEF r, c, all
<1>6. /\ DOMAIN ss = DOMAIN r /\ ss = [n \in DOMAIN ss |-> ss[n]]
      /\ \A n \in DOMAIN ss : ss[n] = configSteps(c)
  BY <1>2
<1> HIDE DEF ss
<1>7. Plain(configSteps(c))
  BY <1>1, ConfigStepsFacts
<1>8. IsSlice(ss) /\ Len(ss) = Len(r) /\ \A n \in DOMAIN ss : IsSlice(ss[n])
  BY <1>2, <1>6, <1>7, MapSlice DEF Plain
<1>9. IsSlice(all) /\ \A n \in DOMAIN all : all[n].do # "resume"
  <2>1. ASSUME NEW n \in DOMAIN FlattenSeq(ss) PROVE FlattenSeq(ss)[n].do # "resume"
    <3>1. PICK k \in DOMAIN ss : \E j \in DOMAIN ss[k] : FlattenSeq(ss)[n] = ss[k][j]
      BY <1>8, FlattenFacts
    <3> QED BY <1>6, <1>7, <3>1 DEF Plain
  <2>2. IsSlice(FlattenSeq(ss))
    BY <1>8, FlattenSlices
  <2> QED BY <1>3, <2>1, <2>2
<1>10. q \in run(outcome(hw, "ok", faults), all)
  BY DEF start, all
<1>11. /\ \A n \in DOMAIN all : all[n].do \in {"files", "pins"}
       /\ \A x \in DOMAIN writes(all) : x \in DOMAIN q.hw /\ q.hw[x] = writes(all)[x]
  <2>1. /\ \A n \in DOMAIN all : all[n].do \in {"files", "pins"}
        /\ \A x \in DOMAIN laterWins([n \in DOMAIN all |-> effect(all[n])]) :
              x \in DOMAIN q.hw /\ q.hw[x] = laterWins([n \in DOMAIN all |-> effect(all[n])])[x]
    BY <1>1, <1>9, <1>10, RunClean
  <2> QED BY <2>1 DEF writes
<1>12. Clean(all)
  BY <1>9, <1>11 DEF Clean
<1>13. \A n \in DOMAIN ss : Clean(ss[n])
  BY <1>3, <1>8, <1>12, CleanFlatten
<1> DEFINE last == Len(r)
<1>14. last \in DOMAIN ss /\ \A n \in DOMAIN ss : ~(n > last)
  BY <1>2, <1>5, <1>6, EmptyIsOnly, SliceFacts
<1>15. l \in DOMAIN us[last] /\ us[last][l] = initWants(c.chain)[l]
  <2>1. Clean(configSteps(c))
    BY <1>6, <1>13, <1>14
  <2>2. l \in DOMAIN writes(configSteps(c)) /\ writes(configSteps(c))[l] = initWants(c.chain)[l]
    BY <1>1, <1>4, <2>1, ConfigStepsFacts
  <2>3. us[last] = writes(configSteps(c))
    BY <1>6, <1>14
  <2> QED BY <2>2, <2>3
<1>16. writes(all) = laterWins(us)
  BY <1>3, <1>8, WritesFlatten
<1>17. /\ DOMAIN us = DOMAIN ss /\ us = [n \in DOMAIN us |-> us[n]]
  OBVIOUS
<1> HIDE DEF us, last
<1>18. IsSlice(us)
  BY <1>8, <1>17, MapSlice
<1>19. l \in DOMAIN laterWins(us) /\ laterWins(us)[l] = us[last][l]
  <2>1. \A j \in DOMAIN us : j > last => l \notin DOMAIN us[j]
    BY <1>14, <1>17
  <2> QED BY <1>14, <1>15, <1>17, <1>18, <2>1, LaterWinsIs
<1> QED BY <1>11, <1>15, <1>16, <1>19 DEF c

\* Storing a match status changes neither a chain nor a profile.
LEMMA OnlyGnss ==
  ASSUME NEW cs, \A j \in DOMAIN cs : Enriched(cs[j]), NEW at, NEW x,
         NEW ds, ds = [cs EXCEPT ![at].gnss = x]
  PROVE  /\ DOMAIN ds = DOMAIN cs
         /\ \A j \in DOMAIN cs : ds[j].chain = cs[j].chain /\ ds[j].profile = cs[j].profile
<1>1. DOMAIN ds = DOMAIN cs
  OBVIOUS
<1>2. ASSUME NEW j \in DOMAIN cs
      PROVE  ds[j].chain = cs[j].chain /\ ds[j].profile = cs[j].profile
  <2> DEFINE c == cs[j]
             e == [c EXCEPT !.gnss = x]
  <2>1. e.chain = c.chain /\ e.profile = c.profile
    <3>1. Enriched(c)
      OBVIOUS
    <3> HIDE DEF c
    <3> QED BY <3>1, GnssKeepsEnriched
  <2>2. ds[j] = c \/ ds[j] = e
    OBVIOUS
  <2> HIDE DEF e
  <2>3. ds[j].chain = c.chain /\ ds[j].profile = c.profile
    BY <2>1, <2>2
  <2> QED BY <2>3
<1> QED BY <1>1, <1>2

\* What the init conditions of the stored configuration i want is what the
\* hardware holds.
Wanted(i) ==
  \A l \in DOMAIN initWants(configs[i].chain) :
    l \in DOMAIN hw /\ hw[l] = initWants(configs[i].chain)[l]
\* The configuration i is the only one of the profile.
Alone(name, i) ==
  \A j \in DOMAIN configs : ProfileNamesMatch(name, configs[j].profile) => j = i
\* InitHolds for the profiles with one configuration.
InitHoldsAlone ==
  \A name \in Profiles : <<"profile", name>> \in applied =>
    \A i \in DOMAIN configs : ProfileNamesMatch(name, configs[i].profile) /\ Alone(name, i) => Wanted(i)

\* Every handler that changes the hardware or the stored list clears the mark;
\* only the application of a profile sets it.
LEMMA AloneStep == HWInv /\ InitHoldsAlone /\ [HWNext]_hwVars => InitHoldsAlone'
<1> SUFFICES ASSUME HWInv, InitHoldsAlone, [HWNext]_hwVars,
                    NEW name \in Profiles, <<"profile", name>> \in applied',
                    NEW i \in DOMAIN configs', ProfileNamesMatch(name, configs'[i].profile),
                    Alone(name, i)'
             PROVE  Wanted(i)'
  BY DEF InitHoldsAlone
<1>1. ASSUME hw' = hw, applied' = applied, DOMAIN configs' = DOMAIN configs,
             \A j \in DOMAIN configs : /\ configs'[j].chain = configs[j].chain
                                       /\ configs'[j].profile = configs[j].profile
      PROVE  Wanted(i)'
  <2>1. i \in DOMAIN configs /\ ProfileNamesMatch(name, configs[i].profile)
    BY <1>1
  <2>2. Alone(name, i)
    BY <1>1 DEF Alone
  <2>3. Wanted(i)
    BY <1>1, <2>1, <2>2 DEF InitHoldsAlone
  <2> QED BY <1>1, <2>1, <2>3 DEF Wanted
<1>2. ASSUME hw' = hw, applied' = applied, configs' = configs PROVE Wanted(i)'
  BY <1>1, <1>2
<1>3. ASSUME NEW new \in Updates, UpdateHardwareConfig(new) PROVE FALSE
  BY <1>3 DEF UpdateHardwareConfig
<1>4. CASE GetDpllPinsFails \/ ResolveConfigs \/ SetPtpConfig
  <2>1. hw' = hw /\ applied' = applied /\ configs' = configs
    BY <1>4 DEF GetDpllPinsFails, ResolveConfigs, SetPtpConfig
  <2> QED BY <1>2, <2>1
<1>5. CASE setHardwareConfigs
  BY <1>5 DEF setHardwareConfigs
<1>6. ASSUME NEW q \in Profiles, ApplyHardwareConfigsForProfile(q) PROVE Wanted(i)'
  <2>1. configs' = configs /\ relevant(q) # <<>>
    BY <1>6 DEF ApplyHardwareConfigsForProfile, ReadyHardwareConfigForProfile
  <2>2. PICK o \in run(start, profileSteps(q)) :
          hw' = o.hw /\ applied' = IF o.status = "ok" /\ o.n = faults THEN {<<"profile", q>>} ELSE {}
    BY <1>6 DEF ApplyHardwareConfigsForProfile, finish
  <2>3. o.status = "ok" /\ o.n = faults /\ q = name
    BY <2>2
  <2>4. /\ i \in DOMAIN configs /\ relevant(name) # <<>> /\ o \in run(start, profileSteps(name))
        /\ \A j \in DOMAIN configs : ProfileNamesMatch(name, configs[j].profile) => j = i
    BY <2>1, <2>2, <2>3 DEF Alone
  <2>5. ASSUME NEW l \in DOMAIN initWants(configs[i].chain)
        PROVE  l \in DOMAIN o.hw /\ o.hw[l] = initWants(configs[i].chain)[l]
    BY <2>3, <2>4, ProfileWrites
  <2> QED BY <2>1, <2>2, <2>5 DEF Wanted
<1>7. ASSUME NEW q \in Profiles, NEW type \in {"locked", "lost"}, ApplyConditionForProfile(q, type)
      PROVE  FALSE
  <2>1. applied' = {<<"condition", q>>}
    BY <1>7 DEF ApplyConditionForProfile
  <2>2. <<"profile", name>>[1] # <<"condition", q>>[1]
    OBVIOUS
  <2> QED BY <2>1, <2>2
<1>8. ASSUME NEW q \in Profiles, GetGNSSSerialPort(q) PROVE Wanted(i)'
  <2>1. /\ hw' = hw /\ applied' = applied
        /\ \E at, x : configs' = [configs EXCEPT ![at].gnss = x]
    BY <1>8 DEF GetGNSSSerialPort
  <2>2. PICK at, x : configs' = [configs EXCEPT ![at].gnss = x]
    BY <2>1
  <2>3. /\ DOMAIN configs' = DOMAIN configs
        /\ \A j \in DOMAIN configs : configs'[j].chain = configs[j].chain
                                     /\ configs'[j].profile = configs[j].profile
    BY <2>2, OnlyGnss DEF HWInv, AreEnriched
  <2> QED BY <1>1, <2>1, <2>3
<1>9. ASSUME NEW clock \in Clocks, ProcessDPLLDeviceNotifications(clock) PROVE FALSE
  BY <1>9 DEF ProcessDPLLDeviceNotifications
<1>10. CASE UNCHANGED hwVars
  BY <1>2, <1>10 DEF hwVars
<1> QED BY <1>3, <1>4, <1>5, <1>6, <1>7, <1>8, <1>9, <1>10 DEF HWNext

\* After ApplyHardwareConfigsForProfile succeeded for a profile with one
\* configuration, what its init conditions want is what the hardware holds.
THEOREM InitConditionsHold == HWSpec => []InitHoldsAlone
<1>1. HWInit => InitHoldsAlone
  BY DEF HWInit, InitHoldsAlone
<1>2. HWInv /\ InitHoldsAlone /\ [HWNext]_hwVars => InitHoldsAlone'
  BY AloneStep
<1> QED BY <1>1, <1>2, HWInvariant, PTL DEF HWSpec

\* The configurations of a list name different profiles.
DistinctProfiles(cs) == \A i, j \in DOMAIN cs : cs[i].profile = cs[j].profile => i = j

\* So do those stored and those about to be.
DistinctInv ==
  /\ DistinctProfiles(configs)
  /\ updating.pc = "store" => DistinctProfiles(updating.new)

\* Resolving a configuration keeps its profile.
LEMMA DistinctStep ==
  ASSUME \A new \in Updates : DistinctProfiles(new)
  PROVE  HWInv /\ DistinctInv /\ [HWNext]_hwVars => DistinctInv'
<1> SUFFICES ASSUME HWInv, DistinctInv, [HWNext]_hwVars PROVE DistinctInv'
  OBVIOUS
<1>1. ASSUME NEW new \in Updates, UpdateHardwareConfig(new) PROVE DistinctInv'
  <2>1. configs' = configs /\ updating'.new = new
    BY <1>1 DEF UpdateHardwareConfig
  <2> QED BY <2>1 DEF DistinctInv
<1>2. ASSUME configs' = configs, updating' = updating PROVE DistinctInv'
  BY <1>2 DEF DistinctInv
<1>3. CASE GetDpllPinsFails
  BY <1>3 DEF GetDpllPinsFails, DistinctInv, idle
<1>4. CASE ResolveConfigs
  <2> DEFINE new == updating.new
             prepared == [i \in DOMAIN new |-> enrich(new[i], getHardwareDefaults)]
             chosen == [i \in DOMAIN prepared |-> The(prepared[i])]
  <2>1. configs' = configs
    BY <1>4 DEF ResolveConfigs
  <2>2. updating.pc = "resolve" /\ updating' = IF \E i \in DOMAIN prepared : prepared[i] = {}
                                                THEN idle ELSE [pc |-> "store", new |-> chosen]
    BY <1>4 DEF ResolveConfigs
  <2>3. new \in Updates
    BY <2>2 DEF HWInv, UpdatingInv
  <2>4. /\ DOMAIN prepared = DOMAIN new
        /\ \A i \in DOMAIN new : prepared[i] = enrich(new[i], getHardwareDefaults)
    OBVIOUS
  <2>5. DOMAIN chosen = DOMAIN prepared /\ \A i \in DOMAIN chosen : chosen[i] = The(prepared[i])
    OBVIOUS
  <2> HIDE DEF new, prepared, chosen
  <2>6. CASE \E i \in DOMAIN prepared : prepared[i] = {}
    BY <2>1, <2>2, <2>6 DEF DistinctInv, idle
  <2>7. CASE \A i \in DOMAIN prepared : prepared[i] # {}
    <3>1. ASSUME NEW i \in DOMAIN chosen PROVE chosen[i].profile = new[i].profile
      <4>1. chosen[i] \in enrich(new[i], getHardwareDefaults)
        BY <2>4, <2>5, <2>7 DEF The
      <4>2. \E chain, b, s : chosen[i] = enrichWith(new[i], chain, getHardwareDefaults, b, s)
        BY <4>1 DEF enrich
      <4> QED BY <4>2 DEF enrichWith
    <3>2. DistinctProfiles(chosen)
      BY <2>3, <2>4, <2>5, <3>1 DEF DistinctProfiles
    <3>3. updating'.new = chosen
      BY <2>2, <2>7
    <3> QED BY <2>1, <3>2, <3>3 DEF DistinctInv
  <2> QED BY <2>6, <2>7
<1>5. CASE setHardwareConfigs
  BY <1>5 DEF setHardwareConfigs, DistinctInv, idle
<1>6. CASE SetPtpConfig
  BY <1>2, <1>6 DEF SetPtpConfig
<1>7. ASSUME NEW p \in Profiles, ApplyHardwareConfigsForProfile(p) PROVE DistinctInv'
  BY <1>2, <1>7 DEF ApplyHardwareConfigsForProfile
<1>8. ASSUME NEW p \in Profiles, NEW type \in {"locked", "lost"}, ApplyConditionForProfile(p, type)
      PROVE  DistinctInv'
  BY <1>2, <1>8 DEF ApplyConditionForProfile
<1>9. ASSUME NEW p \in Profiles, GetGNSSSerialPort(p) PROVE DistinctInv'
  <2>1. updating' = updating /\ \E at, x : configs' = [configs EXCEPT ![at].gnss = x]
    BY <1>9 DEF GetGNSSSerialPort
  <2>2. PICK at, x : configs' = [configs EXCEPT ![at].gnss = x]
    BY <2>1
  <2>3. /\ DOMAIN configs' = DOMAIN configs
        /\ \A j \in DOMAIN configs : configs'[j].chain = configs[j].chain
                                     /\ configs'[j].profile = configs[j].profile
    BY <2>2, OnlyGnss DEF HWInv, AreEnriched
  <2>4. DistinctProfiles(configs')
    BY <2>3 DEF DistinctInv, DistinctProfiles
  <2> QED BY <2>1, <2>4 DEF DistinctInv
<1>10. ASSUME NEW clock \in Clocks, ProcessDPLLDeviceNotifications(clock) PROVE DistinctInv'
  BY <1>2, <1>10 DEF ProcessDPLLDeviceNotifications
<1>11. CASE UNCHANGED hwVars
  BY <1>2, <1>11 DEF hwVars
<1> QED BY <1>1, <1>3, <1>4, <1>5, <1>6, <1>7, <1>8, <1>9, <1>10, <1>11 DEF HWNext

\* When the configurations handed over name different profiles, this holds
\* for all of them.
THEOREM InitConditionsOfAll ==
  ASSUME \A new \in Updates : DistinctProfiles(new)
  PROVE  HWSpec => []InitHolds
<1>1. HWInit => DistinctInv
  <2> SUFFICES ASSUME HWInit PROVE DistinctInv
    OBVIOUS
  <2>1. DOMAIN configs = {} /\ updating.pc = "idle"
    BY EmptySlice DEF HWInit, idle
  <2> QED BY <2>1 DEF DistinctInv, DistinctProfiles
<1>2. HWInv /\ DistinctInv /\ [HWNext]_hwVars => DistinctInv'
  BY DistinctStep
<1>3. InitHoldsAlone /\ DistinctInv => InitHolds
  <2> SUFFICES ASSUME InitHoldsAlone, DistinctInv, NEW name \in Profiles,
                      <<"profile", name>> \in applied,
                      NEW i \in DOMAIN configs, ProfileNamesMatch(name, configs[i].profile)
               PROVE  Wanted(i)
    BY DEF InitHolds, Wanted
  <2>1. Alone(name, i)
    BY DEF Alone, ProfileNamesMatch, DistinctInv, DistinctProfiles
  <2> QED BY <2>1 DEF InitHoldsAlone
<1> QED BY <1>1, <1>2, <1>3, HWInvariant, InitConditionsHold, PTL DEF HWSpec
=============================================================================
