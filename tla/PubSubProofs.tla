---------------------------- MODULE PubSubProofs ----------------------------
(***************************************************************************)
(* Proofs about the subscription store and its users: the type of the      *)
(* state, the agreement of slots, free list and resource index, of store   *)
(* and store file, one subscription per endpoint and resource, and that    *)
(* every subscriber is notified of the current event, for any numbers of   *)
(* resources, clients, subscriptions, events, failures and restarts.       *)
(***************************************************************************)
EXTENDS PubSub, SequenceTheorems, TLAPS

-----------------------------------------------------------------------------
(* Sequences without repetition.                                           *)

\* The domain of a sequence.
LEMMA SeqDomain ==
  ASSUME NEW S, NEW q \in Seq(S)
  PROVE  DOMAIN q = 1..Len(q) /\ Len(q) \in Nat
OBVIOUS

\* Appending a new element keeps a sequence free of repetitions
\* (insertLocked's update of resourceIndex, Unsubscribe's of free).
LEMMA AppendNew ==
  ASSUME NEW S, NEW q \in Seq(S), NEW x \in S, x \notin Range(q), IsInjective(q)
  PROVE  /\ Append(q, x) \in Seq(S)
         /\ IsInjective(Append(q, x))
         /\ Range(Append(q, x)) = Range(q) \cup {x}
<1>1. Append(q, x) \in Seq(S)
  OBVIOUS
<1>2. IsInjective(Append(q, x))
  BY DEF IsInjective, Range
<1>3. \A y : y \in Range(Append(q, x)) => y \in Range(q) \cup {x}
  BY DEF Range
<1>4. \A y \in Range(q) : y \in Range(Append(q, x))
  <2> SUFFICES ASSUME NEW y \in Range(q) PROVE y \in Range(Append(q, x))
    OBVIOUS
  <2>1. PICK i \in 1..Len(q) : q[i] = y
    BY DEF Range
  <2>2. Append(q, x)[i] = y /\ i \in 1..Len(Append(q, x))
    BY <2>1
  <2> QED  BY <2>2 DEF Range
<1>5. x \in Range(Append(q, x))
  <2>1. Append(q, x)[Len(q) + 1] = x /\ Len(q) + 1 \in 1..Len(Append(q, x))
    OBVIOUS
  <2> QED  BY <2>1 DEF Range
<1> QED  BY <1>1, <1>2, <1>3, <1>4, <1>5

\* Cutting off the last element removes it and nothing else (insertLocked's
\* use of the last free slot).
LEMMA ButLast ==
  ASSUME NEW S, NEW q \in Seq(S), Len(q) >= 1, IsInjective(q)
  PROVE  /\ SubSeq(q, 1, Len(q) - 1) \in Seq(S)
         /\ IsInjective(SubSeq(q, 1, Len(q) - 1))
         /\ Range(SubSeq(q, 1, Len(q) - 1)) = Range(q) \ {q[Len(q)]}
         /\ q[Len(q)] \in Range(q)
<1> DEFINE n == Len(q)  p == SubSeq(q, 1, n - 1)
<1>1. n \in Nat /\ n >= 1
  OBVIOUS
<1>2. p \in Seq(S) /\ Len(p) = n - 1 /\ \A i \in 1..(n - 1) : p[i] = q[i]
  <2>1. \A i \in 1..(n - 1) : q[i] \in S
    BY <1>1
  <2>2. 1 \in Int /\ n - 1 \in Int /\ (n - 1) - 1 + 1 = n - 1
    BY <1>1
  <2>3. /\ p \in Seq(S)
        /\ Len(p) = IF 1 <= n - 1 THEN (n - 1) - 1 + 1 ELSE 0
        /\ \A i \in 1..((n - 1) - 1 + 1) : p[i] = q[1 + i - 1]
    BY <2>1, <2>2, SubSeqProperties
  <2> HIDE DEF p
  <2>4. Len(p) = n - 1
    <3>1. CASE 1 <= n - 1
      <4>1. Len(p) = (n - 1) - 1 + 1
        BY <2>3, <3>1
      <4> QED  BY <2>2, <4>1
    <3>2. CASE ~(1 <= n - 1)
      <4>1. Len(p) = 0
        BY <2>3, <3>2
      <4>2. \A k \in Nat : k >= 1 /\ ~(1 <= k - 1) => k - 1 = 0
        OBVIOUS
      <4>3. n - 1 = 0
        BY <1>1, <3>2, <4>2, Zenon
      <4> QED  BY <4>1, <4>3
    <3> QED  BY <3>1, <3>2
  <2>5. ASSUME NEW i \in 1..(n - 1) PROVE p[i] = q[i]
    <3>1. i \in 1..((n - 1) - 1 + 1) /\ 1 + i - 1 = i
      BY <1>1
    <3> QED  BY <2>3, <3>1
  <2> QED  BY <2>3, <2>4, <2>5
<1> HIDE DEF p
<1>3. IsInjective(p)
  BY <1>1, <1>2 DEF IsInjective
<1>4. q[n] \in Range(q)
  BY <1>1 DEF Range
<1>5. \A y \in Range(p) : y \in Range(q) /\ y # q[n]
  <2> SUFFICES ASSUME NEW i \in 1..(n - 1) PROVE p[i] \in Range(q) /\ p[i] # q[n]
    BY <1>2 DEF Range
  <2>1. i \in 1..n /\ i # n /\ n \in 1..n
    BY <1>1
  <2>2. p[i] = q[i]
    BY <1>2
  <2> QED  BY <2>1, <2>2 DEF Range, IsInjective
<1>6. \A y \in Range(q) \ {q[n]} : y \in Range(p)
  <2> SUFFICES ASSUME NEW y \in Range(q), y # q[n] PROVE y \in Range(p)
    OBVIOUS
  <2>1. PICK i \in 1..n : q[i] = y
    BY DEF Range
  <2>2. i \in 1..(n - 1)
    BY <1>1, <2>1
  <2>3. p[i] = y /\ i \in 1..Len(p)
    BY <1>2, <2>1, <2>2
  <2> QED  BY <2>3 DEF Range
<1> QED  BY <1>2, <1>3, <1>4, <1>5, <1>6 DEF p

\* The swap-and-truncate of Unsubscribe removes the slot and nothing else.
LEMMA RemoveIndex ==
  ASSUME NEW S, NEW q \in Seq(S), NEW x \in Range(q), IsInjective(q)
  PROVE  /\ removeIndex(q, x) \in Seq(S)
         /\ IsInjective(removeIndex(q, x))
         /\ Range(removeIndex(q, x)) = Range(q) \ {x}
<1> DEFINE n == Len(q)
           i == CHOOSE j \in 1..n : q[j] = x
           e == [q EXCEPT ![i] = q[n]]
           p == SubSeq(e, 1, n - 1)
<1>1. n \in Nat /\ i \in 1..n /\ q[i] = x
  BY DEF Range
<1>2. removeIndex(q, x) = p
  <2>1. ~(\A j \in 1..n : q[j] # x)
    BY <1>1
  <2> QED  BY <2>1 DEF removeIndex
<1> HIDE DEF i
<1>3. e \in Seq(S) /\ Len(e) = n /\ n >= 1
  <2>1. q[n] \in S
    BY <1>1
  <2>2. q \in [1..n -> S]
    BY <1>1
  <2>3. e \in [1..n -> S]
    BY <2>1, <2>2
  <2> QED  BY <1>1, <2>3
<1>4. \A j \in 1..n : e[j] = IF j = i THEN q[n] ELSE q[j]
  BY <1>1
<1> HIDE DEF e
<1>5. p \in Seq(S) /\ Len(p) = n - 1 /\ \A j \in 1..(n - 1) : p[j] = e[j]
  <2>1. \A j \in 1..(n - 1) : e[j] \in S
    BY <1>1, <1>3
  <2>2. 1 \in Int /\ n - 1 \in Int /\ (n - 1) - 1 + 1 = n - 1
    BY <1>1
  <2>3. /\ p \in Seq(S)
        /\ Len(p) = IF 1 <= n - 1 THEN (n - 1) - 1 + 1 ELSE 0
        /\ \A j \in 1..((n - 1) - 1 + 1) : p[j] = e[1 + j - 1]
    BY <2>1, <2>2, SubSeqProperties
  <2> HIDE DEF p
  <2>4. Len(p) = n - 1
    <3>1. CASE 1 <= n - 1
      <4>1. Len(p) = (n - 1) - 1 + 1
        BY <2>3, <3>1
      <4> QED  BY <2>2, <4>1
    <3>2. CASE ~(1 <= n - 1)
      <4>1. Len(p) = 0
        BY <2>3, <3>2
      <4>2. n - 1 = 0
        BY <1>1, <1>3, <3>2
      <4> QED  BY <4>1, <4>2
    <3> QED  BY <3>1, <3>2
  <2>5. ASSUME NEW j \in 1..(n - 1) PROVE p[j] = e[j]
    <3>1. j \in 1..((n - 1) - 1 + 1) /\ 1 + j - 1 = j
      BY <1>1
    <3> QED  BY <2>3, <3>1
  <2> QED  BY <2>3, <2>4, <2>5
<1>6. \A j \in 1..(n - 1) : p[j] = IF j = i THEN q[n] ELSE q[j]
  BY <1>1, <1>3, <1>4, <1>5
<1> HIDE DEF p
<1>7. IsInjective(p)
  <2> SUFFICES ASSUME NEW a \in 1..(n - 1), NEW b \in 1..(n - 1), p[a] = p[b] PROVE a = b
    BY <1>5 DEF IsInjective
  <2>1. a \in 1..n /\ b \in 1..n /\ n \in 1..n /\ a # n /\ b # n
    BY <1>1, <1>3
  <2> QED  BY <1>6, <2>1 DEF IsInjective
<1>8. \A y \in Range(p) : y \in Range(q) /\ y # x
  <2> SUFFICES ASSUME NEW a \in 1..(n - 1) PROVE p[a] \in Range(q) /\ p[a] # x
    BY <1>5 DEF Range
  <2>1. a \in 1..n /\ n \in 1..n /\ a # n
    BY <1>1, <1>3
  <2>2. CASE a = i
    <3>1. p[a] = q[n] /\ i # n
      BY <1>6, <2>1, <2>2
    <3> QED  BY <1>1, <2>1, <3>1 DEF Range, IsInjective
  <2>3. CASE a # i
    <3>1. p[a] = q[a]
      BY <1>6, <2>3
    <3> QED  BY <1>1, <2>1, <2>3, <3>1 DEF Range, IsInjective
  <2> QED  BY <2>2, <2>3
<1>9. \A y \in Range(q) \ {x} : y \in Range(p)
  <2> SUFFICES ASSUME NEW y \in Range(q), y # x PROVE y \in Range(p)
    OBVIOUS
  <2>1. PICK b \in 1..n : q[b] = y
    BY DEF Range
  <2>2. b # i
    BY <1>1, <2>1
  <2>3. CASE b = n
    <3>1. i \in 1..(n - 1)
      BY <1>1, <2>2, <2>3
    <3>2. p[i] = y
      BY <1>6, <2>1, <2>3, <3>1
    <3> QED  BY <1>5, <3>1, <3>2 DEF Range
  <2>4. CASE b # n
    <3>1. b \in 1..(n - 1)
      BY <1>1, <2>4
    <3>2. p[b] = y
      BY <1>6, <2>1, <2>2, <3>1
    <3> QED  BY <1>5, <3>1, <3>2 DEF Range
  <2> QED  BY <2>3, <2>4
<1> QED  BY <1>2, <1>5, <1>7, <1>8, <1>9

-----------------------------------------------------------------------------
(* Slots, free list and index under the three ways they change.            *)

StoreOK ==
  /\ subs \in Seq(Slots)
  /\ free \in Seq(1..Len(subs))
  /\ resourceIndex \in [Res -> Seq(1..Len(subs))]

Slotted == StoreOK /\ IndexMatches

\* Active slots hold a record of a resource and a client.
LEMMA ActiveSlot ==
  ASSUME NEW s \in Slots, Active(s)
  PROVE  s.ID \in Ids /\ s.Resource \in Res /\ s.Endpoint \in Client
BY DEF Slots, Active, Record, NoRecord

\* A record in a new slot (insertLocked without a free slot, LoadFromStore).
LEMMA AddSlot ==
  ASSUME Slotted, NEW s \in Slots, Active(s),
         subs' = Append(subs, s), free' = free,
         resourceIndex' = [resourceIndex EXCEPT ![s.Resource] = Append(@, Len(subs) + 1)]
  PROVE  Slotted'
<1> DEFINE n == Len(subs)  r == s.Resource
<1>1. n \in Nat /\ r \in Res /\ subs \in Seq(Slots)
  BY ActiveSlot DEF Slotted, StoreOK
<1>2. subs' \in Seq(Slots) /\ Len(subs') = n + 1
      /\ (\A i \in 1..n : subs'[i] = subs[i]) /\ subs'[n + 1] = s
  BY <1>1
<1>3. \A q \in Seq(1..n) : q \in Seq(1..(n + 1))
  BY <1>1, SeqMonotonic
<1>4. free' \in Seq(1..(n + 1))
  BY <1>3 DEF Slotted, StoreOK
<1>5. \A t \in Res : resourceIndex[t] \in Seq(1..(n + 1)) /\ n + 1 \notin Range(resourceIndex[t])
  <2> SUFFICES ASSUME NEW t \in Res
               PROVE resourceIndex[t] \in Seq(1..(n + 1)) /\ n + 1 \notin Range(resourceIndex[t])
    OBVIOUS
  <2>1. resourceIndex[t] \in Seq(1..n)
    BY DEF Slotted, StoreOK
  <2>2. Range(resourceIndex[t]) \subseteq 1..n
    BY <2>1 DEF Range
  <2>3. n + 1 \notin 1..n
    BY <1>1
  <2> QED  BY <1>3, <2>1, <2>2, <2>3
<1>6. \A t \in Res : resourceIndex'[t] = IF t = r THEN Append(resourceIndex[r], n + 1) ELSE resourceIndex[t]
  BY <1>1 DEF Slotted, StoreOK
<1>7. n + 1 \in 1..(n + 1)
  BY <1>1
<1>8. /\ Append(resourceIndex[r], n + 1) \in Seq(1..(n + 1))
      /\ IsInjective(Append(resourceIndex[r], n + 1))
      /\ Range(Append(resourceIndex[r], n + 1)) = Range(resourceIndex[r]) \cup {n + 1}
  <2>1. IsInjective(resourceIndex[r])
    BY <1>1 DEF Slotted, IndexMatches
  <2> QED  BY <1>1, <1>5, <1>7, <2>1, AppendNew
<1>9. StoreOK'
  <2>1. \A t \in Res : resourceIndex'[t] \in Seq(1..(n + 1))
    BY <1>5, <1>6, <1>8
  <2>2. resourceIndex' \in [Res -> Seq(1..(n + 1))]
    BY <2>1 DEF Slotted, StoreOK
  <2> QED  BY <1>2, <1>4, <2>2 DEF StoreOK
<1>10. \A i \in 1..(n + 1) : i \in 1..n \/ i = n + 1
  BY <1>1
<1>11. \A i \in 1..n : i \in 1..(n + 1) /\ i # n + 1
  BY <1>1
<1>12. Range(free') = {i \in 1..Len(subs') : ~Active(subs'[i])}
  <2>1. Range(free) = {i \in 1..n : ~Active(subs[i])}
    BY DEF Slotted, IndexMatches
  <2> QED  BY <1>2, <1>10, <1>11, <2>1
<1>13. ASSUME NEW t \in Res
       PROVE /\ IsInjective(resourceIndex'[t])
             /\ Range(resourceIndex'[t]) = {i \in 1..Len(subs') : Active(subs'[i]) /\ subs'[i].Resource = t}
  <2>1. /\ IsInjective(resourceIndex[t])
        /\ Range(resourceIndex[t]) = {i \in 1..n : Active(subs[i]) /\ subs[i].Resource = t}
    BY DEF Slotted, IndexMatches
  <2>2. CASE t = r
    <3>1. Range(resourceIndex'[t]) = Range(resourceIndex[t]) \cup {n + 1}
      BY <1>6, <1>8, <2>2
    <3>2. {i \in 1..(n + 1) : Active(subs'[i]) /\ subs'[i].Resource = t}
          = {i \in 1..n : Active(subs[i]) /\ subs[i].Resource = t} \cup {n + 1}
      BY <1>2, <1>7, <1>10, <1>11, <2>2
    <3> QED  BY <1>2, <1>6, <1>8, <2>1, <2>2, <3>1, <3>2
  <2>3. CASE t # r
    <3>1. resourceIndex'[t] = resourceIndex[t]
      BY <1>6, <2>3
    <3>2. {i \in 1..(n + 1) : Active(subs'[i]) /\ subs'[i].Resource = t}
          = {i \in 1..n : Active(subs[i]) /\ subs[i].Resource = t}
      BY <1>2, <1>10, <1>11, <2>3
    <3> QED  BY <1>2, <2>1, <3>1, <3>2
  <2> QED  BY <2>2, <2>3
<1>14. IsInjective(free')
  BY DEF Slotted, IndexMatches
<1> QED  BY <1>9, <1>12, <1>13, <1>14 DEF Slotted, IndexMatches

\* A record in the last free slot (insertLocked with a free slot).
LEMMA ReuseSlot ==
  ASSUME Slotted, NEW s \in Slots, Active(s), free # <<>>,
         subs' = [subs EXCEPT ![free[Len(free)]] = s],
         free' = SubSeq(free, 1, Len(free) - 1),
         resourceIndex' = [resourceIndex EXCEPT ![s.Resource] = Append(@, free[Len(free)])]
  PROVE  Slotted'
<1> DEFINE n == Len(subs)  r == s.Resource  x == free[Len(free)]
<1>1. n \in Nat /\ r \in Res /\ subs \in Seq(Slots) /\ free \in Seq(1..n)
  BY ActiveSlot DEF Slotted, StoreOK
<1>2. Len(free) >= 1 /\ IsInjective(free) /\ Range(free) = {i \in 1..n : ~Active(subs[i])}
  <2>1. Len(free) \in Nat \ {0}
    BY <1>1, EmptySeq
  <2> QED  BY <2>1 DEF Slotted, IndexMatches
<1>3. /\ free' \in Seq(1..n) /\ IsInjective(free')
      /\ Range(free') = Range(free) \ {x} /\ x \in Range(free)
  BY <1>1, <1>2, ButLast
<1>4. x \in 1..n /\ ~Active(subs[x])
  BY <1>2, <1>3
<1> HIDE DEF x
<1>5. subs' = [subs EXCEPT ![x] = s]
      /\ resourceIndex' = [resourceIndex EXCEPT ![r] = Append(@, x)]
  BY DEF x
<1>6. subs' \in Seq(Slots) /\ Len(subs') = n
      /\ \A i \in 1..n : subs'[i] = IF i = x THEN s ELSE subs[i]
  <2>1. subs \in [1..n -> Slots]
    BY <1>1
  <2>2. subs' \in [1..n -> Slots]
    BY <1>5, <2>1
  <2> QED  BY <1>1, <1>5, <2>1, <2>2
<1>7. \A t \in Res : /\ resourceIndex[t] \in Seq(1..n)
                     /\ IsInjective(resourceIndex[t])
                     /\ Range(resourceIndex[t]) = {i \in 1..n : Active(subs[i]) /\ subs[i].Resource = t}
  BY DEF Slotted, StoreOK, IndexMatches
<1>8. x \notin Range(resourceIndex[r])
  BY <1>1, <1>4, <1>7
<1>9. /\ Append(resourceIndex[r], x) \in Seq(1..n)
      /\ IsInjective(Append(resourceIndex[r], x))
      /\ Range(Append(resourceIndex[r], x)) = Range(resourceIndex[r]) \cup {x}
  BY <1>1, <1>4, <1>7, <1>8, AppendNew
<1>10. \A t \in Res : resourceIndex'[t] = IF t = r THEN Append(resourceIndex[r], x) ELSE resourceIndex[t]
  BY <1>1, <1>5 DEF Slotted, StoreOK
<1>11. StoreOK'
  <2>1. \A t \in Res : resourceIndex'[t] \in Seq(1..n)
    BY <1>7, <1>9, <1>10
  <2>2. resourceIndex' \in [Res -> Seq(1..n)]
    BY <1>5, <2>1 DEF Slotted, StoreOK
  <2> QED  BY <1>3, <1>6, <2>2 DEF StoreOK
<1>12. Range(free') = {i \in 1..Len(subs') : ~Active(subs'[i])}
  BY <1>2, <1>3, <1>4, <1>6
<1>13. ASSUME NEW t \in Res
       PROVE /\ IsInjective(resourceIndex'[t])
             /\ Range(resourceIndex'[t]) = {i \in 1..Len(subs') : Active(subs'[i]) /\ subs'[i].Resource = t}
  <2>1. CASE t = r
    <3>1. {i \in 1..n : Active(subs'[i]) /\ subs'[i].Resource = t}
          = {i \in 1..n : Active(subs[i]) /\ subs[i].Resource = t} \cup {x}
      BY <1>4, <1>6, <2>1
    <3>2. Range(resourceIndex'[t]) = Range(resourceIndex[t]) \cup {x}
      BY <1>9, <1>10, <2>1
    <3> QED  BY <1>6, <1>7, <1>9, <1>10, <2>1, <3>1, <3>2
  <2>2. CASE t # r
    <3>1. {i \in 1..n : Active(subs'[i]) /\ subs'[i].Resource = t}
          = {i \in 1..n : Active(subs[i]) /\ subs[i].Resource = t}
      BY <1>4, <1>6, <2>2
    <3>2. resourceIndex'[t] = resourceIndex[t]
      BY <1>10, <2>2
    <3> QED  BY <1>6, <1>7, <3>1, <3>2
  <2> QED  BY <2>1, <2>2
<1> QED  BY <1>3, <1>11, <1>12, <1>13 DEF Slotted, IndexMatches

\* An active slot is given up (Unsubscribe).
LEMMA FreeSlot ==
  ASSUME Slotted, NEW x \in 1..Len(subs), Active(subs[x]),
         subs' = [subs EXCEPT ![x] = NoRecord],
         free' = Append(free, x),
         resourceIndex' = [resourceIndex EXCEPT ![subs[x].Resource] = removeIndex(@, x)]
  PROVE  Slotted'
<1> DEFINE n == Len(subs)  r == subs[x].Resource
<1>1. n \in Nat /\ subs \in Seq(Slots) /\ free \in Seq(1..n) /\ subs[x] \in Slots
  BY DEF Slotted, StoreOK
<1>2. r \in Res
  BY <1>1, ActiveSlot
<1>3. ~Active(NoRecord) /\ NoRecord \in Slots
  BY DEF Active, Slots
<1>4. subs' \in Seq(Slots) /\ Len(subs') = n
      /\ \A i \in 1..n : subs'[i] = IF i = x THEN NoRecord ELSE subs[i]
  <2>1. subs \in [1..n -> Slots]
    BY <1>1
  <2>2. subs' \in [1..n -> Slots]
    BY <1>3, <2>1
  <2> QED  BY <1>1, <2>1, <2>2
<1>5. IsInjective(free) /\ Range(free) = {i \in 1..n : ~Active(subs[i])}
  BY DEF Slotted, IndexMatches
<1>6. /\ free' \in Seq(1..n) /\ IsInjective(free')
      /\ Range(free') = Range(free) \cup {x}
  <2>1. x \notin Range(free)
    BY <1>5
  <2> QED  BY <1>1, <1>5, <2>1, AppendNew
<1>7. \A t \in Res : /\ resourceIndex[t] \in Seq(1..n)
                     /\ IsInjective(resourceIndex[t])
                     /\ Range(resourceIndex[t]) = {i \in 1..n : Active(subs[i]) /\ subs[i].Resource = t}
  BY DEF Slotted, StoreOK, IndexMatches
<1>8. /\ removeIndex(resourceIndex[r], x) \in Seq(1..n)
      /\ IsInjective(removeIndex(resourceIndex[r], x))
      /\ Range(removeIndex(resourceIndex[r], x)) = Range(resourceIndex[r]) \ {x}
  <2>1. x \in Range(resourceIndex[r])
    BY <1>2, <1>7
  <2> QED  BY <1>2, <1>7, <2>1, RemoveIndex
<1>9. \A t \in Res : resourceIndex'[t] = IF t = r THEN removeIndex(resourceIndex[r], x) ELSE resourceIndex[t]
  BY <1>2 DEF Slotted, StoreOK
<1>10. StoreOK'
  <2>1. \A t \in Res : resourceIndex'[t] \in Seq(1..n)
    BY <1>7, <1>8, <1>9
  <2>2. resourceIndex' \in [Res -> Seq(1..n)]
    BY <2>1 DEF Slotted, StoreOK
  <2> QED  BY <1>4, <1>6, <2>2 DEF StoreOK
<1>11. Range(free') = {i \in 1..Len(subs') : ~Active(subs'[i])}
  BY <1>3, <1>4, <1>5, <1>6
<1>12. ASSUME NEW t \in Res
       PROVE /\ IsInjective(resourceIndex'[t])
             /\ Range(resourceIndex'[t]) = {i \in 1..Len(subs') : Active(subs'[i]) /\ subs'[i].Resource = t}
  <2>1. CASE t = r
    <3>1. {i \in 1..n : Active(subs'[i]) /\ subs'[i].Resource = t}
          = {i \in 1..n : Active(subs[i]) /\ subs[i].Resource = t} \ {x}
      BY <1>3, <1>4, <2>1
    <3>2. Range(resourceIndex'[t]) = Range(resourceIndex[t]) \ {x}
      BY <1>8, <1>9, <2>1
    <3> QED  BY <1>4, <1>7, <1>8, <1>9, <2>1, <3>1, <3>2
  <2>2. CASE t # r
    <3>1. {i \in 1..n : Active(subs'[i]) /\ subs'[i].Resource = t}
          = {i \in 1..n : Active(subs[i]) /\ subs[i].Resource = t}
      BY <1>3, <1>4, <2>2
    <3>2. resourceIndex'[t] = resourceIndex[t]
      BY <1>9, <2>2
    <3> QED  BY <1>4, <1>7, <3>1, <3>2
  <2> QED  BY <2>1, <2>2
<1> QED  BY <1>6, <1>10, <1>11, <1>12 DEF Slotted, IndexMatches

\* The empty store (UnsubscribeAll, a restart, the initial state).
LEMMA EmptySlots ==
  ASSUME subs = <<>>, free = <<>>, resourceIndex = [r \in Res |-> <<>>]
  PROVE  Slotted
<1>1. Len(subs) = 0 /\ 1..0 = {}
  OBVIOUS
<1>2. StoreOK
  BY <1>1 DEF StoreOK
<1>3. Range(free) = {} /\ IsInjective(free)
  BY DEF Range, IsInjective
<1>4. \A r \in Res : Range(resourceIndex[r]) = {} /\ IsInjective(resourceIndex[r])
  BY DEF Range, IsInjective
<1> QED  BY <1>1, <1>2, <1>3, <1>4 DEF Slotted, IndexMatches

-----------------------------------------------------------------------------
(* The inductive invariant of the store.                                   *)

RecordsOK ==
  /\ nextId \in 0..MaxIds
  /\ saved \subseteq Slots \ {NoRecord}
  /\ toLoad \subseteq saved

StoreInv == Slotted /\ RecordsOK

LEMMA InitStore == Init => StoreInv
<1> SUFFICES ASSUME Init PROVE StoreInv
  OBVIOUS
<1>1. Slotted
  BY EmptySlots DEF Init
<1>2. RecordsOK
  BY PubSubAssumption DEF Init, RecordsOK, PubSubAssumption
<1> QED  BY <1>1, <1>2 DEF StoreInv

\* What save writes are records (both outcomes of pubsub.go save).
LEMMA SavedRecords ==
  ASSUME NEW q \in Seq(Slots), save(q), saved \subseteq Slots \ {NoRecord}
  PROVE  saved' \subseteq Slots \ {NoRecord}
BY DEF save, Range, Active

\* Steps that leave the subscription store alone.
LEMMA StoreUnchanged ==
  ASSUME StoreInv, UNCHANGED storeVars
  PROVE  StoreInv'
BY DEF StoreInv, Slotted, StoreOK, IndexMatches, RecordsOK, storeVars

LEMMA SubscribeStore ==
  ASSUME StoreInv, toLoad = {}, NEW c \in Client, NEW r \in Res, Subscribe(c, r)
  PROVE  StoreInv'
<1> DEFINE s == Record(nextId + 1, r, c)
<1>1. nextId + 1 \in Ids /\ nextId \in Nat
  BY PubSubAssumption DEF Subscribe, StoreInv, RecordsOK, Ids, PubSubAssumption
<1>2. s \in Slots /\ Active(s) /\ s.Resource = r
  <2>1. s \in Slots
    BY <1>1 DEF Slots
  <2>2. s.ID = nextId + 1 /\ NoRecord.ID = 0 /\ s.Resource = r
    BY DEF Record, NoRecord
  <2>3. nextId + 1 # 0
    BY <1>1
  <2> QED  BY <2>1, <2>2, <2>3 DEF Active
<1>3. insertLocked(r, c) /\ UNCHANGED toLoad
  BY DEF Subscribe
<1> HIDE DEF s
<1>4. Slotted'
  <2>1. CASE free = <<>>
    <3>1. /\ subs' = Append(subs, s) /\ free' = free
          /\ resourceIndex' = [resourceIndex EXCEPT ![r] = Append(@, Len(subs) + 1)]
      BY <1>3, <2>1 DEF insertLocked, s
    <3> QED  BY <1>2, <3>1, AddSlot DEF StoreInv
  <2>2. CASE free # <<>>
    <3>1. /\ subs' = [subs EXCEPT ![free[Len(free)]] = s]
          /\ free' = SubSeq(free, 1, Len(free) - 1)
          /\ resourceIndex' = [resourceIndex EXCEPT ![r] = Append(@, free[Len(free)])]
      BY <1>3, <2>2 DEF insertLocked, s
    <3> QED  BY <1>2, <2>2, <3>1, ReuseSlot DEF StoreInv
  <2> QED  BY <2>1, <2>2
<1>5. save(subs') /\ nextId' = nextId + 1
  BY <1>3 DEF insertLocked
<1>6. subs' \in Seq(Slots)
  BY <1>4 DEF Slotted, StoreOK
<1>7. saved' \subseteq Slots \ {NoRecord}
  BY <1>5, <1>6, SavedRecords DEF StoreInv, RecordsOK
<1>8. nextId' \in 0..MaxIds
  BY <1>1, <1>5 DEF Ids
<1>9. toLoad' = {}
  BY <1>3
<1> QED  BY <1>4, <1>7, <1>8, <1>9 DEF StoreInv, RecordsOK

LEMMA UnsubscribeStore ==
  ASSUME StoreInv, toLoad = {}, NEW id \in Ids, Unsubscribe(id)
  PROVE  StoreInv'
<1>1. PICK x \in SlotOf(id) : unsubscribeSlot(x)
  BY DEF Unsubscribe
<1>2. x \in 1..Len(subs) /\ Active(subs[x])
  BY DEF SlotOf
<1>3. Slotted'
  BY <1>1, <1>2, FreeSlot DEF unsubscribeSlot, StoreInv
<1>4. save(subs')
  BY <1>1 DEF unsubscribeSlot
<1>5. subs' \in Seq(Slots)
  BY <1>3 DEF Slotted, StoreOK
<1>6. saved' \subseteq Slots \ {NoRecord}
  BY <1>4, <1>5, SavedRecords DEF StoreInv, RecordsOK
<1>7. toLoad' = {} /\ nextId' = nextId
  BY DEF Unsubscribe
<1> QED  BY <1>3, <1>6, <1>7 DEF StoreInv, RecordsOK

LEMMA UnsubscribeAllStore ==
  ASSUME StoreInv, toLoad = {}, UnsubscribeAll
  PROVE  StoreInv'
<1>1. subs' = <<>> /\ free' = <<>> /\ resourceIndex' = [r \in Res |-> <<>>]
  BY DEF UnsubscribeAll
<1>2. Slotted'
  <2>1. (subs = <<>> /\ free = <<>> /\ resourceIndex = [r \in Res |-> <<>>] => Slotted)'
    BY EmptySlots, PTL
  <2> QED  BY <1>1, <2>1
<1>3. save(<<>>) /\ <<>> \in Seq(Slots)
  BY DEF UnsubscribeAll
<1>4. saved' \subseteq Slots \ {NoRecord}
  BY <1>3, SavedRecords DEF StoreInv, RecordsOK
<1>5. toLoad' = {} /\ nextId' = nextId
  BY DEF UnsubscribeAll
<1> QED  BY <1>2, <1>4, <1>5 DEF StoreInv, RecordsOK

LEMMA RestartStore ==
  ASSUME StoreInv, Restart
  PROVE  StoreInv'
<1>1. subs' = <<>> /\ free' = <<>> /\ resourceIndex' = [r \in Res |-> <<>>]
  BY DEF Restart
<1>2. Slotted'
  <2>1. (subs = <<>> /\ free = <<>> /\ resourceIndex = [r \in Res |-> <<>>] => Slotted)'
    BY EmptySlots, PTL
  <2> QED  BY <1>1, <2>1
<1>3. saved' = saved /\ toLoad' = saved /\ nextId' = nextId
  BY DEF Restart
<1> QED  BY <1>2, <1>3 DEF StoreInv, RecordsOK

LEMMA LoadStore ==
  ASSUME StoreInv, NEW s \in toLoad, LoadFromStore(s)
  PROVE  StoreInv'
<1>1. s \in Slots /\ Active(s)
  BY DEF StoreInv, RecordsOK, Active
<1>2. Slotted'
  BY <1>1, AddSlot DEF LoadFromStore, StoreInv
<1>3. saved' = saved /\ toLoad' \subseteq toLoad /\ nextId' = nextId
  BY DEF LoadFromStore
<1> QED  BY <1>2, <1>3 DEF StoreInv, RecordsOK

LEMMA NextStore == StoreInv /\ [Next]_vars => StoreInv'
<1> SUFFICES ASSUME StoreInv, [Next]_vars PROVE StoreInv'
  OBVIOUS
<1>1. CASE UNCHANGED vars
  BY <1>1, StoreUnchanged DEF vars
<1>2. CASE Restart
  BY <1>2, RestartStore
<1>3. ASSUME NEW s \in toLoad, LoadFromStore(s) PROVE StoreInv'
  BY <1>3, LoadStore
<1>4. CASE toLoad = {} /\ Serve
  <2>1. ASSUME NEW c \in Client, NEW r \in Res, Subscribe(c, r) PROVE StoreInv'
    BY <1>4, <2>1, SubscribeStore
  <2>2. ASSUME NEW id \in Ids, Unsubscribe(id) PROVE StoreInv'
    BY <1>4, <2>2, UnsubscribeStore
  <2>3. CASE UnsubscribeAll
    BY <1>4, <2>3, UnsubscribeAllStore
  <2>4. ASSUME NEW c \in Client, ReadState(c) \/ PublishToID(c) \/ Respond(c) PROVE StoreInv'
    BY <2>4, StoreUnchanged DEF ReadState, PublishToID, Respond
  <2>5. ASSUME NEW c \in Client, NEW id \in Ids, Get(c, id) PROVE StoreInv'
    BY <2>5, StoreUnchanged DEF Get
  <2>6. ASSUME NEW id \in Ids, PublishWrite(id) PROVE StoreInv'
    BY <2>6, StoreUnchanged DEF PublishWrite
  <2>7. ASSUME NEW r \in Res, Update(r) PROVE StoreInv'
    BY <2>7, StoreUnchanged DEF Update
  <2>8. CASE CacheClear \/ Publish
    BY <2>8, StoreUnchanged DEF CacheClear, Publish
  <2> QED  BY <1>4, <2>1, <2>2, <2>3, <2>4, <2>5, <2>6, <2>7, <2>8 DEF Serve
<1> QED  BY <1>1, <1>2, <1>3, <1>4 DEF Next

\* The store's invariant holds throughout.
LEMMA StoreInvariant == Spec => []StoreInv
BY InitStore, NextStore, PTL DEF Spec

\* Slots, free list and resource index of the subscription store agree after
\* any sequence of subscriptions, removals, clears and reloads, for any number
\* of resources, clients and subscriptions: every active subscription is
\* listed once and a reused slot is never an active one.
THEOREM IndexAgrees == Spec => []IndexMatches
<1>1. StoreInv => IndexMatches
  BY DEF StoreInv, Slotted
<1> QED  BY <1>1, StoreInvariant, PTL

-----------------------------------------------------------------------------
(* One subscription per endpoint and resource.                             *)

SameTarget(s, t) == s.Resource = t.Resource /\ s.Endpoint = t.Endpoint

SavedDistinct == \A s, t \in saved : SameTarget(s, t) => s = t
LoadedDistinct ==
  \A s \in toLoad, i \in 1..Len(subs) : Active(subs[i]) => ~SameTarget(s, subs[i])

\* A reload repeats no target: what is saved has none twice, and what is
\* still to be loaded has none that was loaded.
UniqueInv == OneSubscription /\ SavedDistinct /\ LoadedDistinct

\* save keeps the saved records distinct (both outcomes).
LEMMA SaveDistinct ==
  ASSUME UniqueInv, subs' \in Seq(Slots), OneSubscription', save(subs')
  PROVE  SavedDistinct'
<1>1. CASE saved' = saved
  BY <1>1 DEF UniqueInv, SavedDistinct
<1>2. CASE saved' = {s \in Range(subs') : Active(s)}
  <2> SUFFICES ASSUME NEW s \in saved', NEW t \in saved', SameTarget(s, t) PROVE s = t
    BY DEF SavedDistinct
  <2>1. PICK i \in 1..Len(subs') : subs'[i] = s
    BY <1>2 DEF Range
  <2>2. PICK j \in 1..Len(subs') : subs'[j] = t
    BY <1>2 DEF Range
  <2>3. Active(subs'[i]) /\ Active(subs'[j])
    BY <1>2, <2>1, <2>2
  <2>4. i = j
    BY <2>1, <2>2, <2>3 DEF OneSubscription, SameTarget
  <2> QED  BY <2>1, <2>2, <2>4
<1> QED  BY <1>1, <1>2 DEF save

LEMMA SubscribeUnique ==
  ASSUME StoreInv, UniqueInv, toLoad = {}, NEW c \in Client, NEW r \in Res, Subscribe(c, r)
  PROVE  UniqueInv'
<1> DEFINE s == Record(nextId + 1, r, c)  n == Len(subs)
<1>1. s.Resource = r /\ s.Endpoint = c
  BY DEF Record
<1>2. insertLocked(r, c) /\ toLoad' = {} /\ Existing(r, c) = {}
  BY DEF Subscribe
<1> HIDE DEF s
<1>3. n \in Nat /\ subs \in Seq(Slots) /\ free \in Seq(1..n)
  BY DEF StoreInv, Slotted, StoreOK
<1>4. PICK x \in 1..(n + 1) :
        /\ Len(subs') \in {n, n + 1} /\ x \in 1..Len(subs') /\ subs'[x] = s
        /\ \A i \in 1..Len(subs') : i # x => i \in 1..n /\ subs'[i] = subs[i]
  <2>1. CASE free = <<>>
    <3>1. subs' = Append(subs, s)
      BY <1>2, <2>1 DEF insertLocked, s
    <3>2. n + 1 \in 1..(n + 1)
      BY <1>3
    <3> QED  BY <1>3, <3>1, <3>2
  <2>2. CASE free # <<>>
    <3>1. subs' = [subs EXCEPT ![free[Len(free)]] = s]
      BY <1>2, <2>2 DEF insertLocked, s
    <3>2. Len(free) \in Nat \ {0}
      BY <1>3, <2>2, EmptySeq
    <3>3. free[Len(free)] \in 1..n
      BY <1>3, <3>2
    <3>4. subs' \in [1..n -> Slots \cup {s}]
      BY <1>3, <3>1, <3>3
    <3>5. Len(subs') = n
      BY <1>3, <3>4
    <3>6. \A i \in 1..n : i # free[Len(free)] => subs'[i] = subs[i]
      BY <1>3, <3>1
    <3>7. subs'[free[Len(free)]] = s
      BY <1>3, <3>1, <3>3
    <3>8. free[Len(free)] \in 1..(n + 1)
      BY <1>3, <3>3
    <3> QED  BY <3>3, <3>5, <3>6, <3>7, <3>8
  <2> QED  BY <2>1, <2>2
<1>5. \A i \in 1..n : Active(subs[i]) => ~SameTarget(subs[i], s)
  <2> SUFFICES ASSUME NEW i \in 1..n, Active(subs[i]), SameTarget(subs[i], s) PROVE FALSE
    OBVIOUS
  <2>1. subs[i].Resource = r /\ subs[i].Endpoint = c
    BY <1>1 DEF SameTarget
  <2>2. i \in Range(resourceIndex[r])
    BY <2>1 DEF StoreInv, Slotted, IndexMatches
  <2> QED  BY <1>2, <2>1, <2>2 DEF Existing
<1>6. OneSubscription'
  <2> SUFFICES ASSUME NEW i \in 1..Len(subs'), NEW j \in 1..Len(subs'),
                      Active(subs'[i]), Active(subs'[j]), SameTarget(subs'[i], subs'[j])
               PROVE  i = j
    BY DEF OneSubscription, SameTarget
  <2>1. CASE i = x /\ j # x
    BY <1>4, <1>5, <2>1 DEF SameTarget
  <2>2. CASE i # x /\ j = x
    BY <1>4, <1>5, <2>2 DEF SameTarget
  <2>3. CASE i # x /\ j # x
    BY <1>4, <2>3 DEF UniqueInv, OneSubscription, SameTarget
  <2> QED  BY <2>1, <2>2, <2>3
<1>7. save(subs')
  BY <1>2 DEF insertLocked
<1>8. subs' \in Seq(Slots)
  BY SubscribeStore DEF StoreInv, Slotted, StoreOK
<1>9. SavedDistinct'
  BY <1>6, <1>7, <1>8, SaveDistinct
<1> QED  BY <1>2, <1>6, <1>9 DEF UniqueInv, LoadedDistinct

LEMMA UnsubscribeUnique ==
  ASSUME StoreInv, UniqueInv, toLoad = {}, NEW id \in Ids, Unsubscribe(id)
  PROVE  UniqueInv'
<1>1. PICK x \in SlotOf(id) : unsubscribeSlot(x)
  BY DEF Unsubscribe
<1>2. subs' = [subs EXCEPT ![x] = NoRecord] /\ save(subs')
  BY <1>1 DEF unsubscribeSlot
<1>3. subs \in Seq(Slots) /\ subs' \in Seq(Slots)
  BY UnsubscribeStore DEF StoreInv, Slotted, StoreOK
<1>4. Len(subs') = Len(subs) /\ \A i \in 1..Len(subs) : Active(subs'[i]) => subs'[i] = subs[i]
  BY <1>2, <1>3 DEF Active
<1>5. OneSubscription'
  BY <1>4 DEF UniqueInv, OneSubscription
<1>6. SavedDistinct'
  BY <1>2, <1>3, <1>5, SaveDistinct
<1>7. toLoad' = {}
  BY DEF Unsubscribe
<1> QED  BY <1>5, <1>6, <1>7 DEF UniqueInv, LoadedDistinct

LEMMA EmptyUnique ==
  ASSUME UniqueInv, subs' = <<>>
  PROVE  OneSubscription' /\ LoadedDistinct'
<1>1. 1..Len(subs') = {}
  OBVIOUS
<1> QED  BY <1>1 DEF OneSubscription, LoadedDistinct

LEMMA LoadUnique ==
  ASSUME StoreInv, UniqueInv, NEW s \in toLoad, LoadFromStore(s)
  PROVE  UniqueInv'
<1> DEFINE n == Len(subs)
<1>1. n \in Nat /\ subs \in Seq(Slots)
  BY DEF StoreInv, Slotted, StoreOK
<1>2. /\ subs' = Append(subs, s) /\ toLoad' = toLoad \ {s} /\ saved' = saved
  BY DEF LoadFromStore
<1>3. /\ Len(subs') = n + 1 /\ subs'[n + 1] = s
      /\ \A i \in 1..(n + 1) : i # n + 1 => i \in 1..n /\ subs'[i] = subs[i]
  BY <1>1, <1>2
<1>4. OneSubscription'
  <2> SUFFICES ASSUME NEW i \in 1..(n + 1), NEW j \in 1..(n + 1),
                      Active(subs'[i]), Active(subs'[j]), SameTarget(subs'[i], subs'[j])
               PROVE  i = j
    BY <1>3 DEF OneSubscription, SameTarget
  <2>1. CASE i = n + 1 /\ j # n + 1
    BY <1>3, <2>1 DEF UniqueInv, LoadedDistinct, SameTarget
  <2>2. CASE i # n + 1 /\ j = n + 1
    BY <1>3, <2>2 DEF UniqueInv, LoadedDistinct, SameTarget
  <2>3. CASE i # n + 1 /\ j # n + 1
    BY <1>3, <2>3 DEF UniqueInv, OneSubscription, SameTarget
  <2> QED  BY <2>1, <2>2, <2>3
<1>5. LoadedDistinct'
  <2> SUFFICES ASSUME NEW t \in toLoad', NEW i \in 1..(n + 1), Active(subs'[i]), SameTarget(t, subs'[i])
               PROVE  FALSE
    BY <1>3 DEF LoadedDistinct
  <2>1. t \in toLoad /\ t # s /\ t \in saved /\ s \in saved
    BY <1>2 DEF StoreInv, RecordsOK
  <2>2. CASE i = n + 1
    BY <1>3, <2>1, <2>2 DEF UniqueInv, SavedDistinct
  <2>3. CASE i # n + 1
    BY <1>3, <2>1, <2>3 DEF UniqueInv, LoadedDistinct
  <2> QED  BY <2>2, <2>3
<1> QED  BY <1>2, <1>4, <1>5 DEF UniqueInv, SavedDistinct

LEMMA UniqueUnchanged ==
  ASSUME UniqueInv, UNCHANGED storeVars
  PROVE  UniqueInv'
BY DEF UniqueInv, OneSubscription, SavedDistinct, LoadedDistinct, storeVars

LEMMA NextUnique == StoreInv /\ UniqueInv /\ [Next]_vars => UniqueInv'
<1> SUFFICES ASSUME StoreInv, UniqueInv, [Next]_vars PROVE UniqueInv'
  OBVIOUS
<1>1. CASE UNCHANGED vars
  BY <1>1, UniqueUnchanged DEF vars
<1>2. CASE Restart
  <2>1. subs' = <<>> /\ saved' = saved
    BY <1>2 DEF Restart
  <2> QED  BY <2>1, EmptyUnique DEF UniqueInv, SavedDistinct
<1>3. ASSUME NEW s \in toLoad, LoadFromStore(s) PROVE UniqueInv'
  BY <1>3, LoadUnique
<1>4. CASE toLoad = {} /\ Serve
  <2>1. ASSUME NEW c \in Client, NEW r \in Res, Subscribe(c, r) PROVE UniqueInv'
    BY <1>4, <2>1, SubscribeUnique
  <2>2. ASSUME NEW id \in Ids, Unsubscribe(id) PROVE UniqueInv'
    BY <1>4, <2>2, UnsubscribeUnique
  <2>3. CASE UnsubscribeAll
    <3>1. subs' = <<>> /\ save(subs') /\ subs' \in Seq(Slots)
      BY <2>3 DEF UnsubscribeAll
    <3>2. OneSubscription' /\ LoadedDistinct'
      BY <3>1, EmptyUnique
    <3> QED  BY <3>1, <3>2, SaveDistinct DEF UniqueInv
  <2>4. ASSUME NEW c \in Client, ReadState(c) \/ PublishToID(c) \/ Respond(c) PROVE UniqueInv'
    BY <2>4, UniqueUnchanged DEF ReadState, PublishToID, Respond
  <2>5. ASSUME NEW c \in Client, NEW id \in Ids, Get(c, id) PROVE UniqueInv'
    BY <2>5, UniqueUnchanged DEF Get
  <2>6. ASSUME NEW id \in Ids, PublishWrite(id) PROVE UniqueInv'
    BY <2>6, UniqueUnchanged DEF PublishWrite
  <2>7. ASSUME NEW r \in Res, Update(r) PROVE UniqueInv'
    BY <2>7, UniqueUnchanged DEF Update
  <2>8. CASE CacheClear \/ Publish
    BY <2>8, UniqueUnchanged DEF CacheClear, Publish
  <2> QED  BY <1>4, <2>1, <2>2, <2>3, <2>4, <2>5, <2>6, <2>7, <2>8 DEF Serve
<1> QED  BY <1>1, <1>2, <1>3, <1>4 DEF Next

\* No endpoint ever has two active subscriptions to a resource, through slot
\* reuse, failed saves and reloads of what was saved last.
THEOREM SubscribedOnce == Spec => []OneSubscription
<1>1. Init => UniqueInv
  <2> SUFFICES ASSUME Init PROVE UniqueInv
    OBVIOUS
  <2>1. subs = <<>> /\ saved = {} /\ toLoad = {} /\ 1..Len(subs) = {}
    BY DEF Init
  <2> QED  BY <2>1 DEF UniqueInv, OneSubscription, SavedDistinct, LoadedDistinct
<1>2. UniqueInv => OneSubscription
  BY DEF UniqueInv
<1> QED  BY <1>1, <1>2, NextUnique, StoreInvariant, PTL DEF Spec

-----------------------------------------------------------------------------
(* What is saved.                                                          *)

\* Appending adds one element.
LEMMA RangeAppend ==
  ASSUME NEW S, NEW q \in Seq(S), NEW x \in S
  PROVE  Range(Append(q, x)) = Range(q) \cup {x}
<1>1. \A y : y \in Range(Append(q, x)) => y \in Range(q) \cup {x}
  BY DEF Range
<1>2. \A y \in Range(q) : y \in Range(Append(q, x))
  <2> SUFFICES ASSUME NEW y \in Range(q) PROVE y \in Range(Append(q, x))
    OBVIOUS
  <2>1. PICK i \in 1..Len(q) : q[i] = y
    BY DEF Range
  <2>2. Append(q, x)[i] = y /\ i \in 1..Len(Append(q, x))
    BY <2>1
  <2> QED  BY <2>2 DEF Range
<1>3. x \in Range(Append(q, x))
  <2>1. Append(q, x)[Len(q) + 1] = x /\ Len(q) + 1 \in 1..Len(Append(q, x))
    OBVIOUS
  <2> QED  BY <2>1 DEF Range
<1> QED  BY <1>1, <1>2, <1>3

LEMMA RangeEmpty == Range(<<>>) = {}
BY DEF Range

\* A save leaves exactly the active records in the store, or the store dirty.
LEMMA SaveSaved ==
  ASSUME save(subs'), toLoad' = {}
  PROVE  SavedIsActive'
<1>1. CASE dirty' = TRUE
  BY <1>1 DEF SavedIsActive
<1>2. CASE saved' = {s \in Range(subs') : Active(s)}
  BY <1>2 DEF SavedIsActive
<1> QED  BY <1>1, <1>2 DEF save

LEMMA LoadSaved ==
  ASSUME StoreInv, SavedIsActive, NEW s \in toLoad, LoadFromStore(s)
  PROVE  SavedIsActive'
<1>1. s \in Slots /\ Active(s) /\ subs \in Seq(Slots)
  BY DEF StoreInv, RecordsOK, Active, Slotted, StoreOK
<1>2. /\ subs' = Append(subs, s) /\ toLoad' = toLoad \ {s}
      /\ saved' = saved /\ dirty' = dirty
  BY DEF LoadFromStore
<1>3. Range(subs') = Range(subs) \cup {s}
  BY <1>1, <1>2, RangeAppend
<1> QED  BY <1>1, <1>2, <1>3 DEF SavedIsActive

\* The store file always holds the active subscriptions and those a restart
\* has still to load, unless the last save failed, through any sequence of
\* requests, failed saves, restarts and reloads.  (pubsub.go save)
THEOREM SavedIsActiveAlways == Spec => []SavedIsActive
<1>1. Init => SavedIsActive
  BY RangeEmpty DEF Init, SavedIsActive
<1>2. StoreInv /\ SavedIsActive /\ [Next]_vars => SavedIsActive'
  <2> SUFFICES ASSUME StoreInv, SavedIsActive, [Next]_vars PROVE SavedIsActive'
    OBVIOUS
  <2> DEFINE Kept == UNCHANGED <<subs, saved, toLoad, dirty>>
  <2>1. Kept => SavedIsActive'
    BY DEF SavedIsActive
  <2>2. CASE UNCHANGED vars
    BY <2>1, <2>2 DEF vars, storeVars
  <2>3. CASE Restart
    <3>1. subs' = <<>> /\ toLoad' = saved /\ saved' = saved
      BY <2>3 DEF Restart
    <3> QED  BY <3>1, RangeEmpty DEF SavedIsActive
  <2>4. ASSUME NEW s \in toLoad, LoadFromStore(s) PROVE SavedIsActive'
    BY <2>4, LoadSaved
  <2>5. CASE toLoad = {} /\ Serve
    <3>1. ASSUME NEW c \in Client, NEW r \in Res, Subscribe(c, r) PROVE SavedIsActive'
      <4>1. save(subs') /\ toLoad' = {}
        BY <2>5, <3>1 DEF Subscribe, insertLocked
      <4> QED  BY <4>1, SaveSaved
    <3>2. ASSUME NEW id \in Ids, Unsubscribe(id) PROVE SavedIsActive'
      <4>1. save(subs') /\ toLoad' = {}
        BY <2>5, <3>2 DEF Unsubscribe, unsubscribeSlot
      <4> QED  BY <4>1, SaveSaved
    <3>3. CASE UnsubscribeAll
      <4>1. save(subs') /\ toLoad' = {}
        BY <2>5, <3>3 DEF UnsubscribeAll
      <4> QED  BY <4>1, SaveSaved
    <3>4. ASSUME NEW c \in Client, ReadState(c) \/ PublishToID(c) \/ Respond(c) PROVE SavedIsActive'
      BY <2>1, <3>4 DEF ReadState, PublishToID, Respond, storeVars
    <3>5. ASSUME NEW c \in Client, NEW id \in Ids, Get(c, id) PROVE SavedIsActive'
      BY <2>1, <3>5 DEF Get, storeVars
    <3>6. ASSUME NEW id \in Ids, PublishWrite(id) PROVE SavedIsActive'
      BY <2>1, <3>6 DEF PublishWrite, storeVars
    <3>7. ASSUME NEW r \in Res, Update(r) PROVE SavedIsActive'
      BY <2>1, <3>7 DEF Update, storeVars
    <3>8. CASE CacheClear \/ Publish
      BY <2>1, <3>8 DEF CacheClear, Publish, storeVars
    <3> QED  BY <2>5, <3>1, <3>2, <3>3, <3>4, <3>5, <3>6, <3>7, <3>8 DEF Serve
  <2> QED  BY <2>2, <2>3, <2>4, <2>5 DEF Next
<1> QED  BY <1>1, <1>2, StoreInvariant, PTL DEF Spec

-----------------------------------------------------------------------------
(* The type of the handlers, the reader and the event cache.               *)

ServeOK ==
  /\ dirty \in BOOLEAN
  /\ cache \in [Res -> 0..MaxUpdates] /\ updates \in 0..MaxUpdates
  /\ reader \in [pc : {"idle", "publish", "write"}, res : Res \cup {None},
                 ver : 0..MaxUpdates, targets : SUBSET Ids]
  /\ handler \in [Client -> Handlers]
  /\ seen \in [Ids -> 0..MaxUpdates] /\ unsure \subseteq Ids
  /\ fails \in 0..MaxFails /\ crashes \in 0..MaxCrashes

LEMMA IdleTyped ==
  /\ Idle \in Handlers
  /\ ReaderIdle \in [pc : {"idle", "publish", "write"}, res : Res \cup {None},
                     ver : 0..MaxUpdates, targets : SUBSET Ids]
BY PubSubAssumption DEF PubSubAssumption, Idle, Handlers, ReaderIdle

\* The requests a client can have under way.
LEMMA RequestTyped ==
  ASSUME NEW id \in Ids
  PROVE  /\ \A r \in Res : [Idle EXCEPT !.pc = "subscribed", !.id = id, !.res = r] \in Handlers
         /\ \A n \in Nat : [Idle EXCEPT !.pc = "get", !.id = id, !.slot = n] \in Handlers
<1>1. id \in 0..MaxIds /\ 0 \in 0..MaxIds /\ 0 \in 0..MaxUpdates
  BY PubSubAssumption DEF PubSubAssumption, Ids
<1> QED  BY <1>1 DEF Idle, Handlers

LEMMA NotifyTyped ==
  ASSUME NEW h \in Handlers, NEW v \in 0..MaxUpdates
  PROVE  [h EXCEPT !.pc = "notify", !.ver = v] \in Handlers
BY DEF Handlers

\* A bounded counter that steps stays in its bound (fails, updates, crashes).
LEMMA CountUp ==
  ASSUME NEW m \in Nat, NEW n \in 0..m, n < m
  PROVE  n + 1 \in 0..m
OBVIOUS

LEMMA SaveTyped ==
  ASSUME NEW q, save(q), dirty \in BOOLEAN, fails \in 0..MaxFails
  PROVE  dirty' \in BOOLEAN /\ fails' \in 0..MaxFails
<1>1. CASE fails' = fails /\ dirty' = FALSE
  BY <1>1
<1>2. CASE fails < MaxFails /\ fails' = fails + 1 /\ dirty' = TRUE
  BY <1>2, CountUp, PubSubAssumption DEF PubSubAssumption
<1> QED  BY <1>1, <1>2 DEF save

\* A write to a subscriber keeps the types.
LEMMA WriteTyped ==
  ASSUME ServeOK, NEW id \in Ids, NEW v \in 0..MaxUpdates, Arrives(id, v) \/ Fails
  PROVE  seen' \in [Ids -> 0..MaxUpdates] /\ fails' \in 0..MaxFails
<1>1. CASE Arrives(id, v)
  BY <1>1 DEF Arrives, ServeOK
<1>2. CASE Fails
  BY <1>2, CountUp, PubSubAssumption DEF Fails, ServeOK, PubSubAssumption
<1> QED  BY <1>1, <1>2

\* The targets of an event are subscriptions.
LEMMA TargetsAreIds ==
  ASSUME StoreInv, NEW r \in Res
  PROVE  getTargets(r) \subseteq Ids
<1> SUFFICES ASSUME NEW i \in Range(resourceIndex[r]), Active(subs[i]) PROVE subs[i].ID \in Ids
  BY DEF getTargets
<1>1. i \in 1..Len(subs) /\ subs \in Seq(Slots)
  BY DEF StoreInv, Slotted, StoreOK, IndexMatches
<1>2. subs[i] \in Slots
  BY <1>1
<1> QED  BY <1>2, ActiveSlot

\* What a step of a handler, with its slot of the handler array, leaves typed.
LEMMA HandlerStep ==
  ASSUME ServeOK, NEW c \in Client, NEW h \in Handlers, handler' = [handler EXCEPT ![c] = h]
  PROVE  handler' \in [Client -> Handlers]
BY DEF ServeOK

LEMMA SubscribeServe ==
  ASSUME StoreInv, ServeOK, NEW c \in Client, NEW r \in Res, Subscribe(c, r)
  PROVE  ServeOK'
<1>1. nextId + 1 \in Ids
  BY PubSubAssumption DEF Subscribe, StoreInv, RecordsOK, Ids, PubSubAssumption
<1>2. handler' \in [Client -> Handlers]
  BY <1>1, RequestTyped, HandlerStep DEF Subscribe
<1>3. dirty' \in BOOLEAN /\ fails' \in 0..MaxFails
  <2>1. save(subs')
    BY DEF Subscribe, insertLocked
  <2> QED  BY <2>1, SaveTyped DEF ServeOK
<1> QED  BY <1>2, <1>3 DEF ServeOK, Subscribe

LEMMA ReadStateServe ==
  ASSUME ServeOK, NEW c \in Client, handler[c].res \in Res, ReadState(c)
  PROVE  ServeOK'
<1>1. handler[c] \in Handlers /\ cache[handler[c].res] \in 0..MaxUpdates
  BY DEF ServeOK
<1>2. handler' \in [Client -> Handlers]
  <2>1. CASE cache[handler[c].res] = 0
    BY <2>1, IdleTyped, HandlerStep DEF ReadState
  <2>2. CASE cache[handler[c].res] # 0
    BY <1>1, <2>2, NotifyTyped, HandlerStep DEF ReadState
  <2> QED  BY <2>1, <2>2
<1> QED  BY <1>2 DEF ServeOK, ReadState, storeVars

LEMMA PublishToIDServe ==
  ASSUME ServeOK, NEW c \in Client, handler[c].id \in Ids, PublishToID(c)
  PROVE  ServeOK'
<1>1. handler[c].ver \in 0..MaxUpdates
  BY DEF ServeOK, Handlers
<1>2. handler' \in [Client -> Handlers]
  BY IdleTyped, HandlerStep DEF PublishToID
<1>3. UNCHANGED <<seen, fails>> \/ Arrives(handler[c].id, handler[c].ver) \/ Fails
  BY DEF PublishToID
<1>4. seen' \in [Ids -> 0..MaxUpdates] /\ fails' \in 0..MaxFails
  <2>1. CASE UNCHANGED <<seen, fails>>
    BY <2>1 DEF ServeOK
  <2>2. CASE Arrives(handler[c].id, handler[c].ver) \/ Fails
    BY <1>1, <2>2, WriteTyped
  <2> QED  BY <1>3, <2>1, <2>2
<1>5. unsure' \subseteq Ids
  BY DEF PublishToID, ServeOK
<1> QED  BY <1>2, <1>4, <1>5 DEF ServeOK, PublishToID, storeVars

LEMMA PublishServe ==
  ASSUME StoreInv, ServeOK, reader.pc = "publish" => reader.res \in Res, Publish
  PROVE  ServeOK'
<1>1. CASE getTargets(reader.res) = {}
  BY <1>1, IdleTyped DEF Publish, ServeOK, storeVars
<1>2. CASE getTargets(reader.res) # {}
  <2>1. reader' = [reader EXCEPT !.pc = "write", !.targets = getTargets(reader.res)]
    BY <1>2 DEF Publish
  <2>2. getTargets(reader.res) \in SUBSET Ids
    BY TargetsAreIds DEF Publish
  <2> QED  BY <2>1, <2>2 DEF Publish, ServeOK, storeVars
<1> QED  BY <1>1, <1>2

LEMMA PublishWriteServe ==
  ASSUME ServeOK, NEW id \in Ids, PublishWrite(id)
  PROVE  ServeOK'
<1>1. reader.ver \in 0..MaxUpdates /\ reader.targets \ {id} \in SUBSET Ids
  BY DEF ServeOK
<1>2. seen' \in [Ids -> 0..MaxUpdates] /\ fails' \in 0..MaxFails
  BY <1>1, WriteTyped DEF PublishWrite
<1>3. unsure' \subseteq Ids
  BY DEF PublishWrite, ServeOK
<1>4. reader' \in [pc : {"idle", "publish", "write"}, res : Res \cup {None},
                   ver : 0..MaxUpdates, targets : SUBSET Ids]
  <2>1. CASE reader' = ReaderIdle
    BY <2>1, IdleTyped
  <2>2. CASE reader' = [reader EXCEPT !.targets = reader.targets \ {id}]
    BY <1>1, <2>2 DEF ServeOK
  <2> QED  BY <2>1, <2>2 DEF PublishWrite
<1> QED  BY <1>2, <1>3, <1>4 DEF ServeOK, PublishWrite, storeVars

LEMMA UpdateServe ==
  ASSUME ServeOK, NEW r \in Res, Update(r)
  PROVE  ServeOK'
<1>1. updates + 1 \in 0..MaxUpdates
  BY CountUp, PubSubAssumption DEF Update, ServeOK, PubSubAssumption
<1>2. cache' \in [Res -> 0..MaxUpdates]
  BY <1>1 DEF Update, ServeOK
<1>3. reader' \in [pc : {"idle", "publish", "write"}, res : Res \cup {None},
                   ver : 0..MaxUpdates, targets : SUBSET Ids]
  BY <1>1 DEF Update, ReaderIdle
<1> QED  BY <1>1, <1>2, <1>3 DEF ServeOK, Update, storeVars

\* The remaining steps.
LEMMA OtherServe ==
  ASSUME StoreInv, ServeOK
  PROVE  /\ \A c \in Client : Respond(c) => ServeOK'
         /\ \A c \in Client, id \in Ids : Get(c, id) => ServeOK'
         /\ \A id \in Ids : Unsubscribe(id) => ServeOK'
         /\ UnsubscribeAll => ServeOK'
         /\ CacheClear => ServeOK'
         /\ Restart => ServeOK'
         /\ \A s \in toLoad : LoadFromStore(s) => ServeOK'
<1>0. 0 \in 0..MaxUpdates
  BY PubSubAssumption DEF PubSubAssumption
<1>1. ASSUME NEW c \in Client, Respond(c) PROVE ServeOK'
  BY <1>1, IdleTyped DEF Respond, ServeOK, storeVars
<1>2. ASSUME NEW c \in Client, NEW id \in Ids, Get(c, id) PROVE ServeOK'
  <2>1. PICK idx \in SlotOf(id) :
          handler' = [handler EXCEPT ![c] = [Idle EXCEPT !.pc = "get", !.id = id, !.slot = idx]]
    BY <1>2 DEF Get
  <2>2. idx \in Nat
    BY DEF SlotOf
  <2>3. handler' \in [Client -> Handlers]
    BY <2>1, <2>2, RequestTyped, HandlerStep
  <2> QED  BY <1>2, <2>3 DEF Get, ServeOK, storeVars
<1>3. ASSUME NEW id \in Ids, Unsubscribe(id) PROVE ServeOK'
  <2>1. save(subs')
    BY <1>3 DEF Unsubscribe, unsubscribeSlot
  <2>2. dirty' \in BOOLEAN /\ fails' \in 0..MaxFails
    BY <2>1, SaveTyped DEF ServeOK
  <2> QED  BY <1>3, <2>2 DEF Unsubscribe, ServeOK
<1>4. ASSUME UnsubscribeAll PROVE ServeOK'
  <2>1. save(<<>>)
    BY <1>4 DEF UnsubscribeAll
  <2>2. dirty' \in BOOLEAN /\ fails' \in 0..MaxFails
    BY <2>1, SaveTyped DEF ServeOK
  <2>3. handler' \in [Client -> Handlers]
    BY <1>4, IdleTyped DEF UnsubscribeAll, Detached, ServeOK
  <2> QED  BY <1>4, <2>2, <2>3 DEF UnsubscribeAll, ServeOK
<1>5. ASSUME CacheClear PROVE ServeOK'
  BY <1>0, <1>5 DEF CacheClear, ServeOK, storeVars
<1>6. ASSUME Restart PROVE ServeOK'
  <2>1. crashes' \in 0..MaxCrashes
    BY <1>6, CountUp, PubSubAssumption DEF Restart, ServeOK, PubSubAssumption
  <2>2. handler' \in [Client -> Handlers] /\ cache' \in [Res -> 0..MaxUpdates]
    BY <1>0, <1>6, IdleTyped DEF Restart
  <2> QED  BY <1>6, <2>1, <2>2, IdleTyped DEF Restart, ServeOK
<1>7. ASSUME NEW s \in toLoad, LoadFromStore(s) PROVE ServeOK'
  BY <1>7 DEF LoadFromStore, ServeOK
<1> QED  BY <1>1, <1>2, <1>3, <1>4, <1>5, <1>6, <1>7

-----------------------------------------------------------------------------
(* What a subscriber has received or is still owed.                        *)

\* The subscriptions that are active or saved.
Known == {s \in Range(subs) : Active(s)} \cup saved

Pending(c) == handler[c].pc \in {"subscribed", "notify"}

\* An ID names one subscription, and IDs are handed out in order.
IDsOK ==
  /\ \A s \in Known : s.ID <= nextId
  /\ \A s, t \in Known : s.ID = t.ID => s.Resource = t.Resource

\* A request under way knows the resource of its ID and no later event of it
\* than the event cache.
RequestOK(c) ==
  /\ handler[c].id \in 1..nextId
  /\ handler[c].res \in Res
  /\ \A s \in Known : s.ID = handler[c].id => s.Resource = handler[c].res
  /\ handler[c].pc = "notify" =>
       /\ handler[c].ver <= updates
       /\ cache[handler[c].res] # 0 => handler[c].ver <= cache[handler[c].res]
RequestsOK == \A c \in Client : Pending(c) => RequestOK(c)

\* While it publishes, the reader holds the current event of its resource,
\* and its targets are subscriptions to that resource.
ReaderOK ==
  /\ reader.pc = "idle" => reader = ReaderIdle
  /\ reader.pc # "idle" => reader.res \in Res /\ cache[reader.res] = reader.ver
  /\ reader.pc = "write" =>
       \A id \in reader.targets :
         /\ id <= nextId
         /\ \A s \in Known : s.ID = id => s.Resource = reader.res

\* No subscriber has seen an event later than the cached one.
SeenOK ==
  /\ \A id \in Ids : seen[id] <= updates /\ (id > nextId => seen[id] = 0)
  /\ \A r \in Res : cache[r] <= updates
  /\ \A s \in Known : cache[s.Resource] # 0 => seen[s.ID] <= cache[s.Resource]

\* Until the saved subscriptions are loaded nothing is served.
LoadingOK ==
  toLoad # {} => /\ \A r \in Res : cache[r] = 0
                 /\ reader = ReaderIdle
                 /\ \A c \in Client : handler[c] = Idle

\* The reader or a request will still write the cached event to s.
Owed(s) ==
  \/ reader.pc = "publish" /\ reader.res = s.Resource
  \/ reader.pc = "write" /\ s.ID \in reader.targets
  \/ \E c \in Client :
       /\ handler[c].id = s.ID
       /\ \/ handler[c].pc = "subscribed"
          \/ handler[c].pc = "notify" /\ handler[c].ver = cache[s.Resource]
Delivered(s) ==
  s.ID \notin unsure /\ cache[s.Resource] # 0 => seen[s.ID] = cache[s.Resource] \/ Owed(s)
DeliveredOrOwed == \A s \in Range(subs) : Active(s) => Delivered(s)

Bookkeeping == IDsOK /\ RequestsOK /\ ReaderOK /\ SeenOK /\ LoadingOK
ServeInv == StoreInv /\ ServeOK /\ Bookkeeping

LEMMA KnownTyped ==
  ASSUME StoreInv, NEW s \in Known
  PROVE  s \in Slots /\ Active(s) /\ s.ID \in Ids /\ s.Resource \in Res
<1>1. s \in Slots /\ Active(s)
  <2>1. subs \in Seq(Slots) /\ saved \subseteq Slots \ {NoRecord}
    BY DEF StoreInv, Slotted, StoreOK, RecordsOK
  <2>2. Range(subs) \subseteq Slots
    BY <2>1 DEF Range
  <2> QED  BY <2>1, <2>2 DEF Known, Active
<1> QED  BY <1>1, ActiveSlot

-----------------------------------------------------------------------------
(* How the known subscriptions and the event cache change in a step.       *)

\* A step adds at most one subscription, under a new ID.
Grows ==
  \/ Known' \subseteq Known /\ nextId' = nextId
  \/ /\ nextId' = nextId + 1 /\ nextId + 1 \in Ids
     /\ \E s : s.ID = nextId + 1 /\ Known' \subseteq Known \cup {s}

\* A step clears entries of the event cache or puts the latest event there.
CacheMoves ==
  /\ updates' \in Nat /\ updates' >= updates
  /\ \A r \in Res : cache'[r] = cache[r] \/ cache'[r] = 0 \/ cache'[r] = updates'

LEMMA SaveKnown ==
  ASSUME save(subs')
  PROVE  Known' \subseteq {s \in Range(subs') : Active(s)} \cup saved
BY DEF save, Known

LEMMA SubscribeGrows ==
  ASSUME StoreInv, NEW c \in Client, NEW r \in Res, Subscribe(c, r)
  PROVE  /\ Grows
         /\ Known' \subseteq Known \cup {Record(nextId + 1, r, c)}
         /\ Range(subs') \subseteq Range(subs) \cup {Record(nextId + 1, r, c)}
<1> DEFINE s == Record(nextId + 1, r, c)
<1>1. insertLocked(r, c) /\ nextId' = nextId + 1
  BY DEF Subscribe, insertLocked
<1>2. s.ID = nextId + 1
  BY DEF Record
<1>3. subs \in Seq(Slots) /\ free \in Seq(1..Len(subs))
  BY DEF StoreInv, Slotted, StoreOK
<1>4. Range(subs') \subseteq Range(subs) \cup {s}
  <2>1. CASE free = <<>>
    <3>1. subs' = Append(subs, s)
      BY <1>1, <2>1 DEF insertLocked
    <3> HIDE DEF s
    <3> QED  BY <1>3, <3>1 DEF Range
  <2>2. CASE free # <<>>
    <3>1. subs' = [subs EXCEPT ![free[Len(free)]] = s]
      BY <1>1, <2>2 DEF insertLocked
    <3> HIDE DEF s
    <3> QED  BY <1>3, <3>1 DEF Range
  <2> QED  BY <2>1, <2>2
<1>5. save(subs')
  BY <1>1 DEF insertLocked
<1> HIDE DEF s
<1>6. Known' \subseteq Known \cup {s}
  BY <1>4, <1>5, SaveKnown DEF Known
<1>7. Grows
  <2>1. nextId + 1 \in Ids
    BY PubSubAssumption DEF Subscribe, StoreInv, RecordsOK, Ids, PubSubAssumption
  <2> QED  BY <1>1, <1>2, <1>6, <2>1 DEF Grows
<1> QED  BY <1>4, <1>6, <1>7 DEF s

LEMMA UnsubscribeGrows ==
  ASSUME StoreInv, NEW id \in Ids, Unsubscribe(id)
  PROVE  Range(subs') \subseteq Range(subs) \cup {NoRecord} /\ Grows
<1>1. PICK x \in SlotOf(id) : subs' = [subs EXCEPT ![x] = NoRecord] /\ save(subs')
  BY DEF Unsubscribe, unsubscribeSlot
<1>2. subs \in Seq(Slots) /\ nextId' = nextId
  BY DEF StoreInv, Slotted, StoreOK, Unsubscribe
<1>3. Range(subs') \subseteq Range(subs) \cup {NoRecord}
  BY <1>1, <1>2 DEF Range
<1>4. Known' \subseteq Known
  BY <1>1, <1>3, SaveKnown DEF Known, Active
<1> QED  BY <1>2, <1>3, <1>4 DEF Grows

LEMMA NextGrows ==
  ASSUME StoreInv, [Next]_vars
  PROVE  Grows
<1>1. UNCHANGED storeVars => Grows
  BY DEF storeVars, Grows, Known
<1>2. CASE UNCHANGED vars
  BY <1>1, <1>2 DEF vars
<1>3. CASE Restart
  <2>1. subs' = <<>> /\ saved' = saved /\ nextId' = nextId
    BY <1>3 DEF Restart
  <2> QED  BY <2>1, RangeEmpty DEF Grows, Known
<1>4. ASSUME NEW s \in toLoad, LoadFromStore(s) PROVE Grows
  <2>1. s \in Slots /\ s \in saved /\ subs \in Seq(Slots)
    BY DEF StoreInv, RecordsOK, Slotted, StoreOK
  <2>2. subs' = Append(subs, s) /\ saved' = saved /\ nextId' = nextId
    BY <1>4 DEF LoadFromStore
  <2>3. Range(subs') = Range(subs) \cup {s}
    BY <2>1, <2>2, RangeAppend
  <2> QED  BY <2>1, <2>2, <2>3 DEF Grows, Known
<1>5. CASE toLoad = {} /\ Serve
  <2>1. ASSUME NEW c \in Client, NEW r \in Res, Subscribe(c, r) PROVE Grows
    BY <2>1, SubscribeGrows
  <2>2. ASSUME NEW id \in Ids, Unsubscribe(id) PROVE Grows
    BY <2>2, UnsubscribeGrows
  <2>3. CASE UnsubscribeAll
    <3>1. subs' = <<>> /\ save(subs') /\ nextId' = nextId
      BY <2>3 DEF UnsubscribeAll
    <3> QED  BY <3>1, RangeEmpty, SaveKnown DEF Grows, Known
  <2>4. ASSUME NEW c \in Client, ReadState(c) \/ PublishToID(c) \/ Respond(c) PROVE Grows
    BY <1>1, <2>4 DEF ReadState, PublishToID, Respond
  <2>5. ASSUME NEW c \in Client, NEW id \in Ids, Get(c, id) PROVE Grows
    BY <1>1, <2>5 DEF Get
  <2>6. ASSUME NEW id \in Ids, PublishWrite(id) PROVE Grows
    BY <1>1, <2>6 DEF PublishWrite
  <2>7. ASSUME NEW r \in Res, Update(r) PROVE Grows
    BY <1>1, <2>7 DEF Update
  <2>8. CASE CacheClear \/ Publish
    BY <1>1, <2>8 DEF CacheClear, Publish
  <2> QED  BY <1>5, <2>1, <2>2, <2>3, <2>4, <2>5, <2>6, <2>7, <2>8 DEF Serve
<1> QED  BY <1>2, <1>3, <1>4, <1>5 DEF Next

LEMMA NextCacheMoves ==
  ASSUME ServeOK, [Next]_vars
  PROVE  CacheMoves
<1>0. updates \in Nat /\ \A r \in Res : cache[r] \in Nat
  BY PubSubAssumption DEF ServeOK, PubSubAssumption
<1>1. UNCHANGED <<cache, updates>> => CacheMoves
  BY <1>0 DEF CacheMoves
<1>2. ASSUME UNCHANGED updates, cache' = [r \in Res |-> 0] PROVE CacheMoves
  BY <1>0, <1>2 DEF CacheMoves
<1>3. ASSUME NEW r \in Res, Update(r) PROVE CacheMoves
  <2>1. updates' = updates + 1 /\ cache' = [cache EXCEPT ![r] = updates + 1]
    BY <1>3 DEF Update
  <2>2. cache \in [Res -> 0..MaxUpdates]
    BY DEF ServeOK
  <2> QED  BY <1>0, <2>1, <2>2 DEF CacheMoves
<1>4. CASE UNCHANGED vars
  BY <1>1, <1>4 DEF vars
<1>5. CASE Restart
  BY <1>2, <1>5 DEF Restart
<1>6. ASSUME NEW s \in toLoad, LoadFromStore(s) PROVE CacheMoves
  BY <1>1, <1>6 DEF LoadFromStore
<1>7. CASE toLoad = {} /\ Serve
  <2>1. ASSUME NEW c \in Client, NEW r \in Res, Subscribe(c, r) PROVE CacheMoves
    BY <1>1, <2>1 DEF Subscribe
  <2>2. ASSUME NEW id \in Ids, Unsubscribe(id) \/ PublishWrite(id) PROVE CacheMoves
    BY <1>1, <2>2 DEF Unsubscribe, PublishWrite
  <2>3. CASE UnsubscribeAll \/ Publish
    BY <1>1, <2>3 DEF UnsubscribeAll, Publish
  <2>4. ASSUME NEW c \in Client, ReadState(c) \/ PublishToID(c) \/ Respond(c) PROVE CacheMoves
    BY <1>1, <2>4 DEF ReadState, PublishToID, Respond
  <2>5. ASSUME NEW c \in Client, NEW id \in Ids, Get(c, id) PROVE CacheMoves
    BY <1>1, <2>5 DEF Get
  <2>6. CASE CacheClear
    BY <1>2, <2>6 DEF CacheClear
  <2> QED  BY <1>3, <1>7, <2>1, <2>2, <2>3, <2>4, <2>5, <2>6 DEF Serve
<1> QED  BY <1>4, <1>5, <1>6, <1>7 DEF Next

-----------------------------------------------------------------------------
(* The bookkeeping of requests, reader and event cache is inductive.       *)

LEMMA NextIDs ==
  ASSUME StoreInv, IDsOK, Grows
  PROVE  IDsOK' /\ nextId' >= nextId
<1>1. nextId \in Nat /\ \A s \in Known : s.ID \in Nat /\ s.ID < nextId + 1
  <2>1. nextId \in Nat
    BY PubSubAssumption DEF PubSubAssumption, StoreInv, RecordsOK
  <2>2. \A s \in Known : s.ID \in Nat
    BY KnownTyped, PubSubAssumption DEF PubSubAssumption, Ids
  <2> QED  BY <2>1, <2>2 DEF IDsOK
<1>2. CASE Known' \subseteq Known /\ nextId' = nextId
  BY <1>1, <1>2 DEF IDsOK
<1>3. ASSUME nextId' = nextId + 1, NEW t, t.ID = nextId + 1, Known' \subseteq Known \cup {t}
      PROVE  IDsOK' /\ nextId' >= nextId
  <2>1. \A s \in Known' : s.ID <= nextId'
    BY <1>1, <1>3
  <2>2. \A s \in Known' : s # t => s \in Known /\ s.ID # t.ID
    BY <1>1, <1>3
  <2>3. \A s, u \in Known' : s.ID = u.ID => s.Resource = u.Resource
    BY <2>2 DEF IDsOK
  <2> QED  BY <1>1, <1>3, <2>1, <2>3 DEF IDsOK
<1> QED  BY <1>2, <1>3 DEF Grows

\* A subscription with an ID handed out before is known from before.
LEMMA OldKnown ==
  ASSUME StoreInv, Grows, NEW s \in Known', s.ID \in Nat, s.ID <= nextId
  PROVE  s \in Known
<1>1. nextId \in Nat
  BY PubSubAssumption DEF PubSubAssumption, StoreInv, RecordsOK
<1>2. s.ID # nextId + 1
  BY <1>1
<1> QED  BY <1>2 DEF Grows

\* The steps of a client's request.
RequestMoves(c) ==
  \/ handler'[c] = handler[c]
  \/ handler'[c].pc \in {"idle", "get"}
  \/ \E r \in Res : Subscribe(c, r)
  \/ ReadState(c)

LEMMA OtherHandlers ==
  ASSUME ServeOK, NEW c \in Client, NEW h, handler' = [handler EXCEPT ![c] = h]
  PROVE  handler'[c] = h /\ \A d \in Client : d # c => handler'[d] = handler[d]
BY DEF ServeOK

LEMMA NextRequestMoves ==
  ASSUME ServeOK, [Next]_vars
  PROVE  \A c \in Client : RequestMoves(c)
<1> SUFFICES ASSUME NEW c \in Client PROVE RequestMoves(c)
  OBVIOUS
<1>0. Idle.pc = "idle"
  BY DEF Idle
<1>1. handler' = handler => RequestMoves(c)
  BY DEF RequestMoves
<1>2. CASE UNCHANGED vars
  BY <1>1, <1>2 DEF vars
<1>3. CASE Restart
  BY <1>0, <1>3 DEF Restart, RequestMoves
<1>4. ASSUME NEW s \in toLoad, LoadFromStore(s) PROVE RequestMoves(c)
  BY <1>1, <1>4 DEF LoadFromStore
<1>5. CASE Serve
  <2>1. ASSUME NEW d \in Client, NEW r \in Res, Subscribe(d, r) PROVE RequestMoves(c)
    <3>1. CASE c = d
      BY <2>1, <3>1 DEF RequestMoves
    <3>2. CASE c # d
      BY <2>1, <3>2, OtherHandlers DEF Subscribe, RequestMoves
    <3> QED  BY <3>1, <3>2
  <2>2. ASSUME NEW d \in Client, ReadState(d) PROVE RequestMoves(c)
    <3>1. CASE c = d
      BY <2>2, <3>1 DEF RequestMoves
    <3>2. CASE c # d
      BY <2>2, <3>2, OtherHandlers DEF ReadState, RequestMoves
    <3> QED  BY <3>1, <3>2
  <2>3. ASSUME NEW d \in Client, PublishToID(d) \/ Respond(d) PROVE RequestMoves(c)
    <3>1. handler' = [handler EXCEPT ![d] = Idle]
      BY <2>3 DEF PublishToID, Respond
    <3> QED  BY <1>0, <3>1, OtherHandlers DEF RequestMoves
  <2>4. ASSUME NEW d \in Client, NEW id \in Ids, Get(d, id) PROVE RequestMoves(c)
    <3>1. PICK idx : handler' = [handler EXCEPT ![d] = [Idle EXCEPT !.pc = "get", !.id = id, !.slot = idx]]
      BY <2>4 DEF Get
    <3>2. [Idle EXCEPT !.pc = "get", !.id = id, !.slot = idx].pc = "get"
      BY DEF Idle
    <3> QED  BY <3>1, <3>2, OtherHandlers DEF RequestMoves
  <2>5. CASE UnsubscribeAll
    BY <1>0, <2>5 DEF UnsubscribeAll, Detached, RequestMoves
  <2>6. ASSUME NEW id \in Ids, Unsubscribe(id) \/ PublishWrite(id) PROVE RequestMoves(c)
    BY <1>1, <2>6 DEF Unsubscribe, PublishWrite
  <2>7. ASSUME NEW r \in Res, Update(r) PROVE RequestMoves(c)
    BY <1>1, <2>7 DEF Update
  <2>8. CASE CacheClear \/ Publish
    BY <1>1, <2>8 DEF CacheClear, Publish
  <2> QED  BY <1>5, <2>1, <2>2, <2>3, <2>4, <2>5, <2>6, <2>7, <2>8 DEF Serve
<1> QED  BY <1>2, <1>3, <1>4, <1>5 DEF Next

\* A request that is not served in this step.
LEMMA RequestWaits ==
  ASSUME ServeInv, Grows, CacheMoves, NEW c \in Client, handler'[c] = handler[c], RequestOK(c)
  PROVE  RequestOK(c)'
<1> DEFINE h == handler[c]
<1>1. nextId \in Nat /\ h.id \in Nat /\ h.id <= nextId /\ updates \in Nat /\ h.ver \in Nat
  <2>1. nextId \in Nat
    BY PubSubAssumption DEF PubSubAssumption, ServeInv, StoreInv, RecordsOK
  <2>2. h.ver \in Nat /\ updates \in Nat
    BY PubSubAssumption DEF PubSubAssumption, ServeInv, ServeOK, Handlers
  <2> QED  BY <2>1, <2>2 DEF RequestOK
<1>2. nextId' >= nextId /\ nextId' \in Nat
  BY <1>1, NextIDs DEF ServeInv, Bookkeeping, Grows
<1>3. h.id \in 1..nextId'
  BY <1>1, <1>2 DEF RequestOK
<1>4. \A s \in Known' : s.ID = h.id => s.Resource = h.res
  <2> SUFFICES ASSUME NEW s \in Known', s.ID = h.id PROVE s.Resource = h.res
    OBVIOUS
  <2>1. s \in Known
    BY <1>1, OldKnown DEF ServeInv
  <2> QED  BY <2>1 DEF RequestOK
<1>5. h.pc = "notify" => h.ver <= updates' /\ (cache'[h.res] # 0 => h.ver <= cache'[h.res])
  <2> SUFFICES ASSUME h.pc = "notify" PROVE h.ver <= updates' /\ (cache'[h.res] # 0 => h.ver <= cache'[h.res])
    OBVIOUS
  <2>1. h.ver <= updates /\ h.res \in Res /\ (cache[h.res] # 0 => h.ver <= cache[h.res])
    BY DEF RequestOK
  <2>2. updates' >= updates
    BY DEF CacheMoves
  <2>3. updates' \in Nat
    BY DEF CacheMoves
  <2>4. h.ver <= updates'
    BY <1>1, <2>1, <2>2, <2>3
  <2>5. cache'[h.res] = cache[h.res] \/ cache'[h.res] = 0 \/ cache'[h.res] = updates'
    BY <2>1 DEF CacheMoves
  <2> QED  BY <2>1, <2>4, <2>5
<1> QED  BY <1>3, <1>4, <1>5 DEF RequestOK

LEMMA SubscribeRequest ==
  ASSUME ServeInv, NEW c \in Client, NEW r \in Res, Subscribe(c, r)
  PROVE  RequestOK(c)'
<1>1. nextId \in Nat /\ nextId' = nextId + 1
  BY PubSubAssumption DEF PubSubAssumption, ServeInv, StoreInv, RecordsOK, Subscribe, insertLocked
<1>2. handler'[c].pc = "subscribed" /\ handler'[c].id = nextId + 1 /\ handler'[c].res = r
  <2> DEFINE h == [Idle EXCEPT !.pc = "subscribed", !.id = nextId + 1, !.res = r]
  <2>1. handler' = [handler EXCEPT ![c] = h]
    BY DEF Subscribe
  <2>2. h.pc = "subscribed" /\ h.id = nextId + 1 /\ h.res = r
    BY DEF Idle
  <2> HIDE DEF h
  <2>3. handler'[c] = h
    BY <2>1, OtherHandlers DEF ServeInv
  <2> QED  BY <2>2, <2>3
<1>3. ASSUME NEW s \in Known', s.ID = nextId + 1 PROVE s.Resource = r
  <2>1. s \notin Known
    <3>1. ~(nextId + 1 <= nextId)
      BY <1>1
    <3> QED  BY <1>3, <3>1 DEF ServeInv, Bookkeeping, IDsOK
  <2>2. s = Record(nextId + 1, r, c)
    BY <2>1, SubscribeGrows DEF ServeInv
  <2> QED  BY <2>2 DEF Record
<1>4. nextId + 1 \in 1..nextId'
  BY <1>1
<1> QED  BY <1>2, <1>3, <1>4 DEF RequestOK

LEMMA ReadStateRequest ==
  ASSUME ServeInv, NEW c \in Client, ReadState(c), Pending(c)'
  PROVE  RequestOK(c)'
<1> DEFINE h == handler[c]  v == cache[h.res]
<1>1. RequestOK(c) /\ h \in Handlers /\ h.pc = "subscribed"
  BY DEF ServeInv, Bookkeeping, RequestsOK, Pending, ReadState, ServeOK
<1>2. v # 0
  <2> SUFFICES ASSUME v = 0 PROVE FALSE
    OBVIOUS
  <2>1. handler' = [handler EXCEPT ![c] = Idle]
    BY DEF ReadState
  <2>2. handler'[c] = Idle
    BY <2>1, OtherHandlers DEF ServeInv
  <2> QED  BY <2>2 DEF Pending, Idle
<1>3. handler'[c] = [h EXCEPT !.pc = "notify", !.ver = v]
  BY <1>2, OtherHandlers DEF ReadState, ServeInv
<1>4. /\ handler'[c].id = h.id /\ handler'[c].res = h.res /\ handler'[c].ver = v
  BY <1>1, <1>3 DEF Handlers
<1>5. Known' = Known /\ nextId' = nextId /\ cache' = cache /\ updates' = updates
  BY DEF ReadState, storeVars, Known
<1>6. v <= updates /\ v <= v
  <2>1. h.res \in Res
    BY <1>1 DEF RequestOK
  <2>2. v \in Nat /\ v <= updates
    BY <2>1, PubSubAssumption DEF PubSubAssumption, ServeInv, ServeOK, Bookkeeping, SeenOK
  <2> QED  BY <2>2
<1> QED  BY <1>1, <1>4, <1>5, <1>6 DEF RequestOK

LEMMA NextRequests ==
  ASSUME ServeInv, [Next]_vars
  PROVE  RequestsOK'
<1> SUFFICES ASSUME NEW c \in Client, Pending(c)' PROVE RequestOK(c)'
  BY DEF RequestsOK
<1>1. Grows /\ CacheMoves /\ RequestMoves(c)
  BY NextGrows, NextCacheMoves, NextRequestMoves DEF ServeInv
<1>2. CASE handler'[c] = handler[c]
  <2>1. RequestOK(c)
    BY <1>2 DEF ServeInv, Bookkeeping, RequestsOK, Pending
  <2> QED  BY <1>1, <1>2, <2>1, RequestWaits
<1>3. CASE \E r \in Res : Subscribe(c, r)
  BY <1>3, SubscribeRequest
<1>4. CASE ReadState(c)
  BY <1>4, ReadStateRequest
<1> QED  BY <1>1, <1>2, <1>3, <1>4 DEF RequestMoves, Pending

\* A step that leaves reader and event cache alone.
LEMMA ReaderWaits ==
  ASSUME ServeInv, Grows, UNCHANGED <<reader, cache>>
  PROVE  ReaderOK'
<1>1. nextId \in Nat /\ nextId' \in Nat /\ nextId' >= nextId /\ reader.targets \subseteq Nat
  <2>1. nextId \in Nat
    BY PubSubAssumption DEF PubSubAssumption, ServeInv, StoreInv, RecordsOK
  <2>2. reader.targets \subseteq Ids
    BY DEF ServeInv, ServeOK
  <2> QED  BY <2>1, <2>2, NextIDs, PubSubAssumption DEF PubSubAssumption, Ids, ServeInv, Bookkeeping, Grows
<1>2. ASSUME reader.pc = "write", NEW id \in reader.targets
      PROVE  id <= nextId' /\ \A s \in Known' : s.ID = id => s.Resource = reader.res
  <2>1. id <= nextId /\ id \in Nat
    BY <1>1, <1>2 DEF ServeInv, Bookkeeping, ReaderOK
  <2>2. id <= nextId'
    BY <1>1, <2>1
  <2>3. ASSUME NEW s \in Known', s.ID = id PROVE s.Resource = reader.res
    <3>1. s \in Known
      BY <2>1, <2>3, OldKnown DEF ServeInv
    <3> QED  BY <1>2, <2>3, <3>1 DEF ServeInv, Bookkeeping, ReaderOK
  <2> QED  BY <2>2, <2>3
<1> QED  BY <1>2 DEF ServeInv, Bookkeeping, ReaderOK

LEMMA UpdateReader ==
  ASSUME ServeInv, NEW r \in Res, Update(r)
  PROVE  ReaderOK'
<1>1. reader'.pc = "publish" /\ reader'.res = r /\ reader'.ver = updates + 1
  BY DEF Update, ReaderIdle
<1>2. cache'[r] = updates + 1
  BY DEF Update, ServeInv, ServeOK
<1> QED  BY <1>1, <1>2 DEF ReaderOK

LEMMA PublishReader ==
  ASSUME ServeInv, Publish
  PROVE  ReaderOK'
<1> DEFINE r == reader.res  T == getTargets(r)
<1>1. r \in Res /\ cache[r] = reader.ver
  BY DEF Publish, ServeInv, Bookkeeping, ReaderOK
<1>2. Known' = Known /\ nextId' = nextId /\ cache' = cache
  BY DEF Publish, storeVars, Known
<1>3. CASE reader' = ReaderIdle
  BY <1>3 DEF ReaderOK, ReaderIdle
<1>4. CASE reader' = [reader EXCEPT !.pc = "write", !.targets = T]
  <2>1. ASSUME NEW id \in T
        PROVE  id <= nextId /\ \A s \in Known : s.ID = id => s.Resource = r
    <3>1. PICK i \in Range(resourceIndex[r]) : Active(subs[i]) /\ subs[i].ID = id
      BY DEF getTargets
    <3>2. i \in 1..Len(subs) /\ subs[i].Resource = r /\ subs \in Seq(Slots)
      BY <1>1 DEF ServeInv, StoreInv, Slotted, StoreOK, IndexMatches
    <3>3. subs[i] \in Known
      BY <3>1, <3>2 DEF Known, Range
    <3> QED  BY <3>1, <3>2, <3>3 DEF ServeInv, Bookkeeping, IDsOK
  <2>2. reader'.pc = "write" /\ reader'.res = r /\ reader'.ver = reader.ver /\ reader'.targets = T
    <3> HIDE DEF T
    <3> QED  BY <1>4 DEF ServeInv, ServeOK
  <2> HIDE DEF T
  <2> QED  BY <1>1, <1>2, <2>1, <2>2 DEF ReaderOK
<1> QED  BY <1>3, <1>4 DEF Publish

LEMMA PublishWriteReader ==
  ASSUME ServeInv, NEW id \in Ids, PublishWrite(id)
  PROVE  ReaderOK'
<1>1. Known' = Known /\ nextId' = nextId /\ cache' = cache
  BY DEF PublishWrite, storeVars, Known
<1>2. CASE reader' = ReaderIdle
  BY <1>2 DEF ReaderOK, ReaderIdle
<1>3. CASE reader' = [reader EXCEPT !.targets = reader.targets \ {id}]
  <2>1. /\ reader'.pc = reader.pc /\ reader'.res = reader.res /\ reader'.ver = reader.ver
        /\ reader'.targets = reader.targets \ {id}
    BY <1>3 DEF ServeInv, ServeOK
  <2>2. reader.pc = "write"
    BY DEF PublishWrite
  <2> QED  BY <1>1, <2>1, <2>2 DEF ServeInv, Bookkeeping, ReaderOK
<1> QED  BY <1>2, <1>3 DEF PublishWrite

LEMMA NextReader ==
  ASSUME ServeInv, [Next]_vars
  PROVE  ReaderOK'
<1>1. UNCHANGED <<reader, cache>> => ReaderOK'
  BY ReaderWaits, NextGrows DEF ServeInv
<1>2. reader' = ReaderIdle => ReaderOK'
  BY DEF ReaderOK, ReaderIdle
<1>3. CASE UNCHANGED vars
  BY <1>1, <1>3 DEF vars
<1>4. CASE Restart
  BY <1>2, <1>4 DEF Restart
<1>5. ASSUME NEW s \in toLoad, LoadFromStore(s) PROVE ReaderOK'
  BY <1>1, <1>5 DEF LoadFromStore
<1>6. CASE Serve
  <2>1. ASSUME NEW c \in Client, NEW r \in Res, Subscribe(c, r) PROVE ReaderOK'
    BY <1>1, <2>1 DEF Subscribe
  <2>2. ASSUME NEW c \in Client, ReadState(c) \/ PublishToID(c) \/ Respond(c) PROVE ReaderOK'
    BY <1>1, <2>2 DEF ReadState, PublishToID, Respond
  <2>3. ASSUME NEW c \in Client, NEW id \in Ids, Get(c, id) PROVE ReaderOK'
    BY <1>1, <2>3 DEF Get
  <2>4. ASSUME NEW id \in Ids, Unsubscribe(id) PROVE ReaderOK'
    BY <1>1, <2>4 DEF Unsubscribe
  <2>5. ASSUME NEW id \in Ids, PublishWrite(id) PROVE ReaderOK'
    BY <2>5, PublishWriteReader
  <2>6. CASE UnsubscribeAll
    BY <1>1, <2>6 DEF UnsubscribeAll
  <2>7. ASSUME NEW r \in Res, Update(r) PROVE ReaderOK'
    BY <2>7, UpdateReader
  <2>8. CASE CacheClear
    BY <1>2, <2>8 DEF CacheClear
  <2>9. CASE Publish
    BY <2>9, PublishReader
  <2> QED  BY <1>6, <2>1, <2>2, <2>3, <2>4, <2>5, <2>6, <2>7, <2>8, <2>9 DEF Serve
<1> QED  BY <1>3, <1>4, <1>5, <1>6 DEF Next

LEMMA KnownResource == StoreInv => \A t \in Known : t.Resource \in Res
BY KnownTyped

\* A step that writes to no subscriber.
LEMMA SeenKept ==
  ASSUME ServeInv, StoreInv', Grows, CacheMoves, seen' = seen
  PROVE  SeenOK'
<1>1. /\ nextId \in Nat /\ nextId' \in Nat /\ nextId' >= nextId
      /\ updates \in Nat /\ updates' \in Nat /\ updates' >= updates
      /\ \A id \in Ids : seen[id] \in Nat /\ id \in Nat
      /\ \A r \in Res : cache[r] \in Nat
  <2>1. nextId \in Nat
    BY PubSubAssumption DEF PubSubAssumption, ServeInv, StoreInv, RecordsOK
  <2>2. nextId' \in Nat /\ nextId' >= nextId
    BY <2>1 DEF Grows
  <2>3. updates \in Nat /\ (\A id \in Ids : seen[id] \in Nat) /\ \A r \in Res : cache[r] \in Nat
    BY PubSubAssumption DEF PubSubAssumption, ServeInv, ServeOK
  <2> QED  BY <2>1, <2>2, <2>3, PubSubAssumption DEF PubSubAssumption, CacheMoves, Ids
<1>2. /\ \A id \in Ids : seen[id] <= updates /\ (id > nextId => seen[id] = 0)
      /\ \A r \in Res : cache[r] <= updates
      /\ \A s \in Known : cache[s.Resource] # 0 => seen[s.ID] <= cache[s.Resource]
  BY DEF ServeInv, Bookkeeping, SeenOK
<1>3. \A id \in Ids : seen[id] <= updates' /\ (id > nextId' => seen[id] = 0)
  BY <1>1, <1>2
<1>4. \A r \in Res : cache'[r] <= updates'
  BY <1>1, <1>2 DEF CacheMoves
<1>5. ASSUME NEW s \in Known, cache'[s.Resource] # 0
      PROVE  seen[s.ID] <= cache'[s.Resource]
  <2>1. s.ID \in Ids /\ s.Resource \in Res
    BY KnownTyped DEF ServeInv
  <2>2. cache'[s.Resource] = cache[s.Resource] \/ cache'[s.Resource] = updates'
    BY <1>5, <2>1 DEF CacheMoves
  <2> QED  BY <1>2, <1>3, <1>5, <2>1, <2>2
<1>6. ASSUME NEW s \in Known', s \notin Known, cache'[s.Resource] # 0
      PROVE  seen[s.ID] <= cache'[s.Resource]
  <2>1. s.ID = nextId + 1 /\ s.ID \in Ids
    BY <1>6 DEF Grows
  <2>2. seen[s.ID] = 0
    BY <1>1, <1>2, <2>1
  <2>3. s.Resource \in Res
    <3>1. (StoreInv => \A t \in Known : t.Resource \in Res)'
      BY KnownResource, PTL
    <3> QED  BY <3>1, <1>6
  <2>4. cache'[s.Resource] \in Nat
    BY <1>1, <2>3 DEF CacheMoves
  <2> QED  BY <2>2, <2>4
<1> QED  BY <1>3, <1>4, <1>5, <1>6 DEF SeenOK

\* A write of a current or earlier event.
LEMMA SeenWritten ==
  ASSUME ServeInv, NEW id \in Ids, NEW v \in Nat, NEW r \in Res,
         id <= nextId, v <= updates, cache[r] # 0 => v <= cache[r],
         \A s \in Known : s.ID = id => s.Resource = r,
         seen' = [seen EXCEPT ![id] = v], UNCHANGED <<storeVars, cache, updates>>
  PROVE  SeenOK'
<1>1. Known' = Known /\ nextId' = nextId
  BY DEF storeVars, Known
<1>2. nextId \in Nat /\ id \in Nat
  BY PubSubAssumption DEF PubSubAssumption, ServeInv, StoreInv, RecordsOK, Ids
<1>3. \A i \in Ids : seen'[i] = IF i = id THEN v ELSE seen[i]
  BY DEF ServeInv, ServeOK
<1>4. \A s \in Known : s.ID \in Ids
  BY KnownTyped DEF ServeInv
<1>5. \A i \in Ids : seen'[i] <= updates /\ (i > nextId => seen'[i] = 0)
  BY <1>2, <1>3 DEF ServeInv, Bookkeeping, SeenOK
<1>6. \A s \in Known : cache[s.Resource] # 0 => seen'[s.ID] <= cache[s.Resource]
  BY <1>3, <1>4 DEF ServeInv, Bookkeeping, SeenOK
<1> QED  BY <1>1, <1>5, <1>6 DEF ServeInv, Bookkeeping, SeenOK

LEMMA PublishToIDSeen ==
  ASSUME ServeInv, NEW c \in Client, PublishToID(c), seen' = [seen EXCEPT ![handler[c].id] = handler[c].ver]
  PROVE  SeenOK'
<1> DEFINE id == handler[c].id  v == handler[c].ver  r == handler[c].res
<1>1. RequestOK(c) /\ handler[c].pc = "notify"
  BY DEF PublishToID, ServeInv, Bookkeeping, RequestsOK, Pending
<1>2. nextId \in 0..MaxIds /\ v \in Nat
  BY PubSubAssumption DEF PubSubAssumption, ServeInv, StoreInv, RecordsOK, ServeOK, Handlers
<1>3. id \in Ids /\ id <= nextId
  BY <1>1, <1>2, PubSubAssumption DEF PubSubAssumption, RequestOK, Ids
<1>4. UNCHANGED <<storeVars, cache, updates>>
  BY DEF PublishToID
<1>5. r \in Res /\ v <= updates /\ (cache[r] # 0 => v <= cache[r]) /\ \A s \in Known : s.ID = id => s.Resource = r
  BY <1>1 DEF RequestOK
<1> QED  BY <1>2, <1>3, <1>4, <1>5, SeenWritten

LEMMA PublishWriteSeen ==
  ASSUME ServeInv, NEW id \in Ids, PublishWrite(id), seen' = [seen EXCEPT ![id] = reader.ver]
  PROVE  SeenOK'
<1> DEFINE v == reader.ver  r == reader.res
<1>1. reader.pc = "write" /\ id \in reader.targets /\ UNCHANGED <<storeVars, cache, updates>>
  BY DEF PublishWrite
<1>2. r \in Res /\ cache[r] = v /\ id <= nextId /\ \A s \in Known : s.ID = id => s.Resource = r
  BY <1>1 DEF ServeInv, Bookkeeping, ReaderOK
<1>3. v \in Nat /\ v <= updates
  BY <1>2, PubSubAssumption DEF PubSubAssumption, ServeInv, ServeOK, Bookkeeping, SeenOK
<1>4. v <= cache[r]
  BY <1>2, <1>3
<1> HIDE DEF v, r
<1> QED  BY <1>1, <1>2, <1>3, <1>4, SeenWritten DEF v

LEMMA NextSeen ==
  ASSUME ServeInv, [Next]_vars
  PROVE  SeenOK'
<1>0. seen' = seen => SeenOK'
  BY SeenKept, NextStore, NextGrows, NextCacheMoves DEF ServeInv
<1>1. CASE UNCHANGED vars
  BY <1>0, <1>1 DEF vars
<1>2. CASE Restart
  BY <1>0, <1>2 DEF Restart
<1>3. ASSUME NEW s \in toLoad, LoadFromStore(s) PROVE SeenOK'
  BY <1>0, <1>3 DEF LoadFromStore
<1>4. CASE Serve
  <2>1. ASSUME NEW c \in Client, NEW r \in Res, Subscribe(c, r) PROVE SeenOK'
    BY <1>0, <2>1 DEF Subscribe
  <2>2. ASSUME NEW c \in Client, ReadState(c) \/ Respond(c) PROVE SeenOK'
    BY <1>0, <2>2 DEF ReadState, Respond
  <2>3. ASSUME NEW c \in Client, PublishToID(c) PROVE SeenOK'
    BY <1>0, <2>3, PublishToIDSeen DEF PublishToID, Arrives, Fails
  <2>4. ASSUME NEW c \in Client, NEW id \in Ids, Get(c, id) PROVE SeenOK'
    BY <1>0, <2>4 DEF Get
  <2>5. ASSUME NEW id \in Ids, Unsubscribe(id) PROVE SeenOK'
    BY <1>0, <2>5 DEF Unsubscribe
  <2>6. ASSUME NEW id \in Ids, PublishWrite(id) PROVE SeenOK'
    BY <1>0, <2>6, PublishWriteSeen DEF PublishWrite, Arrives, Fails
  <2>7. ASSUME NEW r \in Res, Update(r) PROVE SeenOK'
    BY <1>0, <2>7 DEF Update
  <2>8. CASE UnsubscribeAll \/ CacheClear \/ Publish
    BY <1>0, <2>8 DEF UnsubscribeAll, CacheClear, Publish
  <2> QED  BY <1>4, <2>1, <2>2, <2>3, <2>4, <2>5, <2>6, <2>7, <2>8 DEF Serve
<1> QED  BY <1>1, <1>2, <1>3, <1>4 DEF Next

LEMMA NextLoading ==
  ASSUME LoadingOK, [Next]_vars
  PROVE  LoadingOK'
<1>1. UNCHANGED <<toLoad, cache, reader, handler>> => LoadingOK'
  BY DEF LoadingOK
<1>2. CASE UNCHANGED vars
  BY <1>1, <1>2 DEF vars, storeVars
<1>3. CASE Restart
  BY <1>3 DEF Restart, LoadingOK
<1>4. ASSUME NEW s \in toLoad, LoadFromStore(s) PROVE LoadingOK'
  <2>1. toLoad # {} /\ UNCHANGED <<cache, reader, handler>>
    BY <1>4 DEF LoadFromStore
  <2> QED  BY <2>1 DEF LoadingOK
<1>5. CASE toLoad = {} /\ Serve
  <2>0. toLoad' = toLoad => LoadingOK'
    BY <1>5 DEF LoadingOK
  <2>1. ASSUME NEW c \in Client, NEW r \in Res, Subscribe(c, r) PROVE LoadingOK'
    BY <2>0, <2>1 DEF Subscribe
  <2>2. ASSUME NEW c \in Client, ReadState(c) \/ PublishToID(c) \/ Respond(c) PROVE LoadingOK'
    BY <2>0, <2>2 DEF ReadState, PublishToID, Respond, storeVars
  <2>3. ASSUME NEW c \in Client, NEW id \in Ids, Get(c, id) PROVE LoadingOK'
    BY <2>0, <2>3 DEF Get, storeVars
  <2>4. ASSUME NEW id \in Ids, Unsubscribe(id) \/ PublishWrite(id) PROVE LoadingOK'
    BY <2>0, <2>4 DEF Unsubscribe, PublishWrite, storeVars
  <2>5. ASSUME NEW r \in Res, Update(r) PROVE LoadingOK'
    BY <2>0, <2>5 DEF Update, storeVars
  <2>6. CASE UnsubscribeAll \/ CacheClear \/ Publish
    BY <2>0, <2>6 DEF UnsubscribeAll, CacheClear, Publish, storeVars
  <2> QED  BY <1>5, <2>1, <2>2, <2>3, <2>4, <2>5, <2>6 DEF Serve
<1> QED  BY <1>2, <1>3, <1>4, <1>5 DEF Next

LEMMA NextServe ==
  ASSUME ServeInv, [Next]_vars
  PROVE  ServeInv'
<1>1. StoreInv'
  BY NextStore DEF ServeInv
<1>2. Bookkeeping'
  <2>1. IDsOK'
    BY NextIDs, NextGrows DEF ServeInv, Bookkeeping
  <2>2. LoadingOK'
    BY NextLoading DEF ServeInv, Bookkeeping
  <2> QED  BY <2>1, <2>2, NextRequests, NextReader, NextSeen DEF Bookkeeping
<1>3. ServeOK'
  <2>0. StoreInv /\ ServeOK
    BY DEF ServeInv
  <2>1. CASE UNCHANGED vars
    BY <2>0, <2>1 DEF vars, storeVars, ServeOK
  <2>2. ASSUME NEW c \in Client, ReadState(c) \/ PublishToID(c) \/ Respond(c) PROVE ServeOK'
    <3>1. CASE ReadState(c)
      <4>1. handler[c].res \in Res
        BY <3>1 DEF ReadState, ServeInv, Bookkeeping, RequestsOK, RequestOK, Pending
      <4> QED  BY <2>0, <3>1, <4>1, ReadStateServe
    <3>2. CASE PublishToID(c)
      <4>1. handler[c].id \in 1..nextId
        BY <3>2 DEF PublishToID, ServeInv, Bookkeeping, RequestsOK, RequestOK, Pending
      <4>2. handler[c].id \in Ids
        BY <4>1, PubSubAssumption DEF PubSubAssumption, ServeInv, StoreInv, RecordsOK, Ids
      <4> QED  BY <2>0, <3>2, <4>2, PublishToIDServe
    <3>3. CASE Respond(c)
      BY <2>0, <3>3, OtherServe
    <3> QED  BY <2>2, <3>1, <3>2, <3>3
  <2>3. CASE Publish
    BY <2>0, <2>3, PublishServe DEF ServeInv, Bookkeeping, ReaderOK
  <2>4. ASSUME NEW c \in Client, NEW r \in Res, Subscribe(c, r) PROVE ServeOK'
    BY <2>0, <2>4, SubscribeServe
  <2>5. ASSUME NEW r \in Res, Update(r) PROVE ServeOK'
    BY <2>0, <2>5, UpdateServe
  <2>6. ASSUME NEW id \in Ids, PublishWrite(id) PROVE ServeOK'
    BY <2>0, <2>6, PublishWriteServe
  <2> QED  BY <2>0, <2>1, <2>2, <2>3, <2>4, <2>5, <2>6, OtherServe DEF Next, Serve
<1> QED  BY <1>1, <1>2, <1>3 DEF ServeInv

-----------------------------------------------------------------------------
(* Every active subscriber has received the current event or is owed it.   *)

LEMMA ActiveKnown ==
  ASSUME StoreInv, NEW s \in Range(subs), Active(s)
  PROVE  s \in Known /\ s.ID \in Ids /\ s.Resource \in Res
<1>1. s \in Known
  BY DEF Known
<1> QED  BY <1>1, KnownTyped

\* Steps after which whoever owed a write to s still owes it.
LEMMA OwedKept ==
  ASSUME NEW s, Owed(s), reader' = reader \/ reader = ReaderIdle,
         cache'[s.Resource] = cache[s.Resource],
         \A c \in Client : Pending(c) /\ handler[c].id = s.ID => handler'[c] = handler[c]
  PROVE  Owed(s)'
BY DEF Owed, Pending, ReaderIdle

LEMMA DeliveredKept ==
  ASSUME NEW s, Delivered(s), seen'[s.ID] = seen[s.ID], s.ID \in unsure => s.ID \in unsure',
         cache'[s.Resource] = cache[s.Resource], Owed(s) => Owed(s)'
  PROVE  Delivered(s)'
BY DEF Delivered

LEMMA SubscribeDelivered ==
  ASSUME ServeInv, DeliveredOrOwed, NEW c \in Client, NEW r \in Res, Subscribe(c, r)
  PROVE  DeliveredOrOwed'
<1> SUFFICES ASSUME NEW s \in Range(subs'), Active(s) PROVE Delivered(s)'
  BY DEF DeliveredOrOwed, Active
<1>1. UNCHANGED <<cache, reader, seen, unsure>> /\ handler[c] = Idle
  BY DEF Subscribe
<1> DEFINE h == [Idle EXCEPT !.pc = "subscribed", !.id = nextId + 1, !.res = r]
<1>2. handler' = [handler EXCEPT ![c] = h]
  BY DEF Subscribe
<1>3. h.pc = "subscribed" /\ h.id = nextId + 1
  BY DEF Idle
<1> HIDE DEF h
<1>4. handler'[c] = h /\ \A d \in Client : d # c => handler'[d] = handler[d]
  BY <1>2, OtherHandlers DEF ServeInv
<1>5. CASE s \in Range(subs)
  <2>1. Delivered(s)
    BY <1>5 DEF DeliveredOrOwed
  <2>2. Owed(s) => Owed(s)'
    BY <1>1, <1>4, OwedKept DEF Pending, Idle
  <2> QED  BY <1>1, <2>1, <2>2, DeliveredKept
<1>6. CASE s = Record(nextId + 1, r, c)
  <2>1. s.ID = nextId + 1
    BY <1>6 DEF Record
  <2>2. Owed(s)'
    BY <1>3, <1>4, <2>1 DEF Owed
  <2> QED  BY <2>2 DEF Delivered
<1> QED  BY <1>5, <1>6, SubscribeGrows DEF ServeInv

LEMMA ReadStateDelivered ==
  ASSUME ServeInv, DeliveredOrOwed, NEW c \in Client, ReadState(c)
  PROVE  DeliveredOrOwed'
<1>1. UNCHANGED <<subs, cache, reader, seen, unsure>> /\ handler[c].pc = "subscribed"
  BY DEF ReadState, storeVars
<1> SUFFICES ASSUME NEW s \in Range(subs), Active(s) PROVE Delivered(s)'
  BY <1>1 DEF DeliveredOrOwed, Active
<1>2. Delivered(s)
  BY DEF DeliveredOrOwed
<1>3. \A d \in Client : d # c => handler'[d] = handler[d]
  BY OtherHandlers DEF ReadState, ServeInv
<1>4. CASE handler[c].id # s.ID
  <2>1. Owed(s) => Owed(s)'
    BY <1>1, <1>3, <1>4, OwedKept
  <2> QED  BY <1>1, <1>2, <2>1, DeliveredKept
<1>5. CASE handler[c].id = s.ID
  <2> DEFINE v == cache[handler[c].res]
  <2>1. handler[c].res = s.Resource /\ handler[c] \in Handlers
    BY <1>1, <1>5, ActiveKnown DEF ServeInv, ServeOK, Bookkeeping, RequestsOK, RequestOK, Pending
  <2>2. CASE v = 0
    BY <1>1, <2>1, <2>2 DEF Delivered
  <2>3. CASE v # 0
    <3>1. handler'[c] = [handler[c] EXCEPT !.pc = "notify", !.ver = v]
      BY <2>3, OtherHandlers DEF ReadState, ServeInv
    <3>2. handler'[c].pc = "notify" /\ handler'[c].ver = v /\ handler'[c].id = s.ID
      BY <1>5, <2>1, <3>1 DEF Handlers
    <3>3. Owed(s)'
      BY <1>1, <2>1, <3>2 DEF Owed
    <3> QED  BY <3>3 DEF Delivered
  <2> QED  BY <2>2, <2>3
<1> QED  BY <1>4, <1>5

LEMMA PublishToIDDelivered ==
  ASSUME ServeInv, DeliveredOrOwed, NEW c \in Client, PublishToID(c)
  PROVE  DeliveredOrOwed'
<1> DEFINE id == handler[c].id  v == handler[c].ver
<1>1. UNCHANGED <<subs, cache, reader>> /\ handler[c].pc = "notify"
  BY DEF PublishToID, storeVars
<1> SUFFICES ASSUME NEW s \in Range(subs), Active(s) PROVE Delivered(s)'
  BY <1>1 DEF DeliveredOrOwed, Active
<1>2. Delivered(s) /\ s \in Known /\ s.ID \in Ids /\ s.Resource \in Res
  BY ActiveKnown DEF DeliveredOrOwed, ServeInv
<1>3. \A d \in Client : d # c => handler'[d] = handler[d]
  BY OtherHandlers DEF PublishToID, ServeInv
<1>4. seen \in [Ids -> Nat] /\ v \in Nat /\ cache[s.Resource] \in Nat
  BY <1>2, PubSubAssumption DEF PubSubAssumption, ServeInv, ServeOK, Handlers
<1>5. CASE id # s.ID
  <2>1. Owed(s) => Owed(s)'
    BY <1>1, <1>3, <1>5, OwedKept
  <2>2. seen'[s.ID] = seen[s.ID]
    BY <1>2, <1>4, <1>5 DEF PublishToID, Arrives, Fails
  <2>3. s.ID \in unsure => s.ID \in unsure'
    BY DEF PublishToID
  <2> QED  BY <1>1, <1>2, <2>1, <2>2, <2>3, DeliveredKept
<1>6. CASE id = s.ID
  <2> SUFFICES ASSUME s.ID \notin unsure', cache[s.Resource] # 0
               PROVE  seen'[s.ID] = cache[s.Resource] \/ Owed(s)'
    BY <1>1 DEF Delivered
  <2> DEFINE cur == cache[s.Resource]
  <2>1. SlotOf(id) # {}
    <3>1. PICK i \in DOMAIN subs : subs[i] = s
      BY DEF Range
    <3>2. i \in 1..Len(subs)
      BY DEF ServeInv, StoreInv, Slotted, StoreOK
    <3> QED  BY <1>6, <3>1, <3>2 DEF SlotOf
  <2>2. RequestOK(c)
    BY <1>1 DEF ServeInv, Bookkeeping, RequestsOK, Pending
  <2>3. v <= cur
    BY <1>1, <1>2, <1>6, <2>2 DEF RequestOK
  <2>4. seen[s.ID] <= cur
    BY <1>2 DEF ServeInv, Bookkeeping, SeenOK
  <2>5. s.ID \notin unsure
    BY DEF PublishToID
  <2>6. seen[s.ID] = cur \/ Owed(s)
    BY <1>2, <2>5 DEF Delivered
  <2>7. ASSUME Owed(s), v # cur PROVE Owed(s)'
    BY <1>1, <1>3, <2>7 DEF Owed
  <2>8. CASE Arrives(id, v) /\ ~(seen[id] > v)
    <3>1. seen'[s.ID] = v
      BY <1>2, <1>4, <1>6, <2>8 DEF Arrives
    <3>2. CASE v = cur
      BY <3>1, <3>2
    <3>3. CASE v # cur
      <4>1. v < cur /\ seen[s.ID] <= v
        BY <1>2, <1>4, <1>6, <2>3, <2>8, <3>3
      <4>2. seen[s.ID] # cur
        BY <1>2, <1>4, <4>1
      <4> QED  BY <2>6, <2>7, <3>3, <4>2
    <3> QED  BY <3>2, <3>3
  <2>9. CASE Fails /\ ~(seen[id] < v)
    <3>1. seen' = seen
      BY <2>9 DEF Fails
    <3>2. CASE v = cur
      <4>1. seen[s.ID] = cur
        BY <1>2, <1>4, <1>6, <2>4, <2>9, <3>2
      <4> QED  BY <3>1, <4>1
    <3>3. CASE v # cur
      BY <2>6, <2>7, <3>1, <3>3
    <3> QED  BY <3>2, <3>3
  <2>10. (Arrives(id, v) /\ ~(seen[id] > v)) \/ (Fails /\ ~(seen[id] < v))
    BY <1>6, <2>1 DEF PublishToID
  <2> QED  BY <2>8, <2>9, <2>10
<1> QED  BY <1>5, <1>6

\* Steps of handlers without an event: no request with something to write
\* changes, and no subscription is added.
LEMMA QuietDelivered ==
  ASSUME ServeInv, DeliveredOrOwed, UNCHANGED <<cache, reader, seen, unsure>>,
         Range(subs') \subseteq Range(subs) \cup {NoRecord},
         \A c \in Client : Pending(c) => handler'[c] = handler[c]
  PROVE  DeliveredOrOwed'
<1> SUFFICES ASSUME NEW s \in Range(subs'), Active(s) PROVE Delivered(s)'
  BY DEF DeliveredOrOwed, Active
<1>1. s \in Range(subs)
  BY DEF Active
<1>2. Delivered(s)
  BY <1>1 DEF DeliveredOrOwed
<1>3. Owed(s) => Owed(s)'
  BY OwedKept
<1> QED  BY <1>2, <1>3, DeliveredKept

LEMMA UpdateDelivered ==
  ASSUME ServeInv, DeliveredOrOwed, NEW r \in Res, Update(r)
  PROVE  DeliveredOrOwed'
<1>1. UNCHANGED <<subs, handler, seen, unsure>> /\ reader = ReaderIdle
  BY DEF Update, storeVars
<1> SUFFICES ASSUME NEW s \in Range(subs), Active(s) PROVE Delivered(s)'
  BY <1>1 DEF DeliveredOrOwed, Active
<1>2. Delivered(s) /\ s.Resource \in Res
  BY ActiveKnown DEF DeliveredOrOwed, ServeInv
<1>3. CASE s.Resource = r
  <2>1. reader'.pc = "publish" /\ reader'.res = r
    BY DEF Update, ReaderIdle
  <2>2. Owed(s)'
    BY <1>3, <2>1 DEF Owed
  <2> QED  BY <2>2 DEF Delivered
<1>4. CASE s.Resource # r
  <2>1. cache'[s.Resource] = cache[s.Resource]
    BY <1>2, <1>4 DEF Update, ServeInv, ServeOK
  <2>2. Owed(s) => Owed(s)'
    BY <1>1, <2>1, OwedKept
  <2> QED  BY <1>1, <1>2, <2>1, <2>2, DeliveredKept
<1> QED  BY <1>3, <1>4

LEMMA PublishDelivered ==
  ASSUME ServeInv, DeliveredOrOwed, Publish
  PROVE  DeliveredOrOwed'
<1>1. UNCHANGED <<subs, cache, handler, seen, unsure>> /\ reader.pc = "publish"
  BY DEF Publish, storeVars
<1> SUFFICES ASSUME NEW s \in Range(subs), Active(s) PROVE Delivered(s)'
  BY <1>1 DEF DeliveredOrOwed, Active
<1>2. Delivered(s) /\ s.Resource \in Res
  BY ActiveKnown DEF DeliveredOrOwed, ServeInv
<1>3. CASE reader.res = s.Resource
  <2> DEFINE T == getTargets(reader.res)
  <2>1. s.ID \in T
    <3>1. PICK i \in DOMAIN subs : subs[i] = s
      BY DEF Range
    <3>2. i \in Range(resourceIndex[s.Resource])
      BY <1>2, <3>1 DEF ServeInv, StoreInv, Slotted, StoreOK, IndexMatches
    <3> QED  BY <1>3, <3>1, <3>2 DEF getTargets
  <2>2. reader' = [reader EXCEPT !.pc = "write", !.targets = T]
    BY <2>1 DEF Publish
  <2> HIDE DEF T
  <2>3. reader'.pc = "write" /\ reader'.targets = T
    BY <2>2 DEF ServeInv, ServeOK
  <2>4. Owed(s)'
    BY <2>1, <2>3 DEF Owed
  <2> QED  BY <2>4 DEF Delivered
<1>4. CASE reader.res # s.Resource
  <2>1. Owed(s) => Owed(s)'
    BY <1>1, <1>4 DEF Owed
  <2> QED  BY <1>1, <1>2, <2>1, DeliveredKept
<1> QED  BY <1>3, <1>4

LEMMA PublishWriteDelivered ==
  ASSUME ServeInv, DeliveredOrOwed, NEW id \in Ids, PublishWrite(id)
  PROVE  DeliveredOrOwed'
<1>1. UNCHANGED <<subs, cache, handler>> /\ reader.pc = "write" /\ id \in reader.targets
  BY DEF PublishWrite, storeVars
<1> SUFFICES ASSUME NEW s \in Range(subs), Active(s) PROVE Delivered(s)'
  BY <1>1 DEF DeliveredOrOwed, Active
<1>2. Delivered(s) /\ s \in Known /\ s.ID \in Ids /\ s.Resource \in Res
  BY ActiveKnown DEF DeliveredOrOwed, ServeInv
<1>3. seen \in [Ids -> 0..MaxUpdates]
  BY DEF ServeInv, ServeOK
<1>4. CASE s.ID = id
  <2>1. cache[s.Resource] = reader.ver
    BY <1>1, <1>2, <1>4 DEF ServeInv, Bookkeeping, ReaderOK
  <2>2. seen'[id] = reader.ver \/ id \in unsure'
    BY <1>3 DEF PublishWrite, Arrives, Fails
  <2> QED  BY <1>1, <1>4, <2>1, <2>2 DEF Delivered
<1>5. CASE s.ID # id
  <2>1. seen'[s.ID] = seen[s.ID] /\ (s.ID \in unsure => s.ID \in unsure')
    BY <1>2, <1>3, <1>5 DEF PublishWrite, Arrives, Fails
  <2>2. ASSUME s.ID \in reader.targets PROVE Owed(s)'
    <3>1. reader' = [reader EXCEPT !.targets = reader.targets \ {id}]
      BY <1>5, <2>2 DEF PublishWrite
    <3>2. reader'.pc = "write" /\ reader'.targets = reader.targets \ {id}
      BY <1>1, <3>1 DEF ServeInv, ServeOK
    <3> QED  BY <1>5, <2>2, <3>2 DEF Owed
  <2>3. Owed(s) => Owed(s)'
    BY <1>1, <2>2 DEF Owed
  <2> QED  BY <1>1, <1>2, <2>1, <2>3, DeliveredKept
<1> QED  BY <1>4, <1>5

\* An event cache without an event owes nobody anything.
LEMMA ClearedDelivered ==
  ASSUME StoreInv', \A r \in Res : cache'[r] = 0
  PROVE  DeliveredOrOwed'
<1>1. (StoreInv => \A t \in Known : t.Resource \in Res)'
  BY KnownResource, PTL
<1>2. \A s \in Range(subs') : Active(s) => cache'[s.Resource] = 0
  BY <1>1 DEF Known, Active
<1> QED  BY <1>2 DEF DeliveredOrOwed, Delivered, Active

LEMMA NextDelivered ==
  ASSUME ServeInv, DeliveredOrOwed, [Next]_vars
  PROVE  DeliveredOrOwed'
<1>0. StoreInv' /\ StoreInv
  BY NextStore DEF ServeInv
<1>1. UNCHANGED <<subs, cache, reader, seen, unsure, handler>> => DeliveredOrOwed'
  BY QuietDelivered
<1>2. CASE UNCHANGED vars
  BY <1>1, <1>2 DEF vars, storeVars
<1>3. CASE Restart
  <2>1. \A r \in Res : cache'[r] = 0
    BY <1>3 DEF Restart
  <2> QED  BY <1>0, <2>1, ClearedDelivered
<1>4. ASSUME NEW s \in toLoad, LoadFromStore(s) PROVE DeliveredOrOwed'
  <2>1. \A r \in Res : cache'[r] = 0
    BY <1>4 DEF LoadFromStore, ServeInv, Bookkeeping, LoadingOK
  <2> QED  BY <1>0, <2>1, ClearedDelivered
<1>5. CASE Serve
  <2>1. ASSUME NEW c \in Client, NEW r \in Res, Subscribe(c, r) PROVE DeliveredOrOwed'
    BY <2>1, SubscribeDelivered
  <2>2. ASSUME NEW c \in Client, ReadState(c) PROVE DeliveredOrOwed'
    BY <2>2, ReadStateDelivered
  <2>3. ASSUME NEW c \in Client, PublishToID(c) PROVE DeliveredOrOwed'
    BY <2>3, PublishToIDDelivered
  <2>4. ASSUME NEW c \in Client, Respond(c) PROVE DeliveredOrOwed'
    <3>1. \A d \in Client : Pending(d) => handler'[d] = handler[d]
      BY <2>4, OtherHandlers DEF Respond, Pending, ServeInv
    <3> QED  BY <2>4, <3>1, QuietDelivered DEF Respond, storeVars
  <2>5. ASSUME NEW c \in Client, NEW id \in Ids, Get(c, id) PROVE DeliveredOrOwed'
    <3>1. PICK h : handler' = [handler EXCEPT ![c] = h]
      BY <2>5 DEF Get
    <3>2. handler[c] = Idle
      BY <2>5 DEF Get
    <3>3. \A d \in Client : Pending(d) => handler'[d] = handler[d]
      BY <3>1, <3>2, OtherHandlers DEF Pending, ServeInv, Idle
    <3> QED  BY <2>5, <3>3, QuietDelivered DEF Get, storeVars
  <2>6. ASSUME NEW id \in Ids, Unsubscribe(id) PROVE DeliveredOrOwed'
    <3>1. UNCHANGED <<cache, reader, seen, unsure, handler>>
      BY <2>6 DEF Unsubscribe
    <3> QED  BY <1>0, <2>6, <3>1, UnsubscribeGrows, QuietDelivered
  <2>7. CASE UnsubscribeAll
    <3>1. subs' = <<>>
      BY <2>7 DEF UnsubscribeAll
    <3> QED  BY <3>1, RangeEmpty DEF DeliveredOrOwed
  <2>8. ASSUME NEW r \in Res, Update(r) PROVE DeliveredOrOwed'
    BY <2>8, UpdateDelivered
  <2>9. CASE CacheClear
    <3>1. \A r \in Res : cache'[r] = 0
      BY <2>9 DEF CacheClear
    <3> QED  BY <1>0, <3>1, ClearedDelivered
  <2>10. CASE Publish
    BY <2>10, PublishDelivered
  <2>11. ASSUME NEW id \in Ids, PublishWrite(id) PROVE DeliveredOrOwed'
    BY <2>11, PublishWriteDelivered
  <2> QED  BY <1>5, <2>1, <2>2, <2>3, <2>4, <2>5, <2>6, <2>7, <2>8, <2>9, <2>10, <2>11 DEF Serve
<1> QED  BY <1>2, <1>3, <1>4, <1>5 DEF Next

LEMMA InitServe == Init => ServeInv /\ DeliveredOrOwed
<1> SUFFICES ASSUME Init PROVE ServeInv /\ DeliveredOrOwed
  OBVIOUS
<1>1. StoreInv
  BY InitStore
<1>2. ServeOK
  <2>1. /\ 0 \in 0..MaxUpdates /\ 0 \in 0..MaxFails /\ 0 \in 0..MaxCrashes
    BY PubSubAssumption DEF PubSubAssumption
  <2>2. dirty \in BOOLEAN /\ unsure \subseteq Ids
    BY DEF Init
  <2>3. /\ cache \in [Res -> 0..MaxUpdates] /\ updates \in 0..MaxUpdates
        /\ seen \in [Ids -> 0..MaxUpdates]
        /\ fails \in 0..MaxFails /\ crashes \in 0..MaxCrashes
    BY <2>1 DEF Init
  <2>4. handler \in [Client -> Handlers]
    BY IdleTyped DEF Init
  <2> QED  BY <2>2, <2>3, <2>4, IdleTyped DEF Init, ServeOK
<1>3. Known = {} /\ Range(subs) = {}
  BY RangeEmpty DEF Init, Known
<1>4. RequestsOK /\ ReaderOK /\ LoadingOK /\ IDsOK
  BY <1>3 DEF Init, RequestsOK, Pending, Idle, ReaderOK, ReaderIdle, LoadingOK, IDsOK
<1>5. SeenOK
  BY <1>3 DEF Init, SeenOK
<1>6. DeliveredOrOwed
  BY <1>3 DEF DeliveredOrOwed
<1> QED  BY <1>1, <1>2, <1>4, <1>5, <1>6 DEF ServeInv, Bookkeeping

LEMMA ServeInvariant == Spec => [](ServeInv /\ DeliveredOrOwed)
<1>1. ServeInv /\ DeliveredOrOwed /\ [Next]_vars => (ServeInv /\ DeliveredOrOwed)'
  BY NextServe, NextDelivered
<1> QED  BY <1>1, InitServe, PTL DEF Spec

\* The state of the proxy has its type, so every index the store keeps is a
\* slot of subs, in whatever order requests, events, failed saves and restarts
\* come.  (pubsub.go indexes subs without a check)
THEOREM PubSubTyped == Spec => []TypeOK
<1>1. ServeInv => TypeOK
  BY DEF ServeInv, ServeOK, StoreInv, Slotted, StoreOK, RecordsOK, TypeOK
<1> QED  BY <1>1, ServeInvariant, PTL

\* A subscriber whose creation has ended has the current event of its resource
\* whenever no event is being published, unless a write to it failed or its
\* initial notification was overtaken: no interleaving of creations, removals,
\* events and restarts loses one, for any numbers of them.
\* (cep.go handleCreateSubscription, pubsub.go Publish)
THEOREM NotifiedAlways == Spec => []NotifiedOfCurrent
<1>1. ServeInv /\ DeliveredOrOwed => NotifiedOfCurrent
  <2> SUFFICES ASSUME ServeInv, DeliveredOrOwed, reader = ReaderIdle, NEW i \in 1..Len(subs),
                      Active(subs[i]), subs[i].ID \notin unsure, cache[subs[i].Resource] # 0,
                      \A c \in Client : handler[c].pc \in {"subscribed", "notify"} => handler[c].id # subs[i].ID
               PROVE  seen[subs[i].ID] = cache[subs[i].Resource]
    BY DEF NotifiedOfCurrent
  <2>1. subs[i] \in Range(subs)
    BY DEF Range, ServeInv, StoreInv, Slotted, StoreOK
  <2>2. ~Owed(subs[i])
    BY DEF Owed, ReaderIdle
  <2> QED  BY <2>1, <2>2 DEF DeliveredOrOwed, Delivered
<1> QED  BY <1>1, ServeInvariant, PTL
=============================================================================
