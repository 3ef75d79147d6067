------------------------------- MODULE PubSub -------------------------------
(***************************************************************************)
(* The subscription store of the cloud-event-proxy (pkg/cep/pubsub.go) with *)
(* the HTTP handlers and the IPC reader that use it concurrently.          *)
(*                                                                         *)
(*  POST   -> Subscribe; read the event cache; write it to the subscriber  *)
(*  DELETE -> Unsubscribe, UnsubscribeAll                                  *)
(*  GET    -> Get, which returns a pointer into subs                       *)
(*  reader -> EventCache.Update; getTargets; write to each target          *)
(*                                                                         *)
(* An event is its version: Update numbers the changes of the event cache. *)
(* seen[id] is what the subscriber received last under subscription id.    *)
(* Slots of subs are numbered from 1.                                      *)
(*                                                                         *)
(* History: unsure holds the subscriptions whose last write failed or whose*)
(* initial notification was overtaken by a published event; dirty: the     *)
(* last save failed.                                                       *)
(***************************************************************************)
EXTENDS Naturals, Sequences, FiniteSets, Functions

CONSTANTS
  Res,        \* resources that can be subscribed to
  Client,     \* clients, each with one endpoint and one request at a time
  None,       \* the empty string of an unused slot
  MaxIds,     \* bound: subscriptions created
  MaxUpdates, \* bound: events
  MaxFails,   \* bound: failed saves and failed writes
  MaxCrashes  \* bound: restarts

ASSUME PubSubAssumption ==
  /\ None \notin Res \cup Client
  /\ MaxIds \in Nat /\ MaxUpdates \in Nat /\ MaxFails \in Nat /\ MaxCrashes \in Nat

VARIABLES
  subs, free, resourceIndex,  \* PubSub
  saved,                      \* the records in the Store, as a set
  toLoad,                     \* records LoadFromStore has not yet put into subs
  nextId,                     \* the last ID handed out
  cache,                      \* EventCache: cache[r] is a version, 0 if absent
  updates,                    \* the last version
  reader,                     \* the IPC reader between Update and its last write
  handler,                    \* handler[c]: the request of client c
  seen,                       \* seen[id]
  fails, crashes,             \* counters of the bounds
  unsure, dirty               \* history

storeVars == <<subs, free, resourceIndex, saved, toLoad, nextId, dirty>>
vars == <<storeVars, cache, updates, reader, handler, seen, fails, crashes, unsure>>

Ids == 1..MaxIds
Record(i, r, c) == [ID |-> i, Resource |-> r, Endpoint |-> c]
NoRecord == Record(0, None, None)
Slots == {Record(i, r, c) : i \in Ids, r \in Res, c \in Client} \cup {NoRecord}
Active(s) == s # NoRecord

Idle == [pc |-> "idle", id |-> 0, res |-> None, ver |-> 0, slot |-> 0]
ReaderIdle == [pc |-> "idle", res |-> None, ver |-> 0, targets |-> {}]

-----------------------------------------------------------------------------
(* PubSub, under its lock.                                                 *)

\* save writes the active records; its error is only logged.
save(newSubs) ==
  \/ /\ saved' = {s \in Range(newSubs) : Active(s)}
     /\ dirty' = FALSE /\ UNCHANGED fails
  \/ /\ fails < MaxFails /\ fails' = fails + 1
     /\ dirty' = TRUE /\ UNCHANGED saved

\* indices without the entry idx: the last entry takes its place.
removeTruncated(indices, idx) == SubSeq(indices, 1, Len(indices) - 1)
removeIndex(indices, idx) ==
  IF \A i \in 1..Len(indices) : indices[i] # idx THEN indices
  ELSE LET n == Len(indices)
           i == CHOOSE j \in 1..n : indices[j] = idx
       IN SubSeq([indices EXCEPT ![i] = indices[n]], 1, n - 1)

Existing(r, c) ==
  {i \in Range(resourceIndex[r]) : Active(subs[i]) /\ subs[i].Endpoint = c}

insertLocked(r, c) ==
  LET s == Record(nextId + 1, r, c)
      reuse == free # <<>>
      idx == IF reuse THEN free[Len(free)] ELSE Len(subs) + 1
      newSubs == IF reuse THEN [subs EXCEPT ![idx] = s] ELSE Append(subs, s)
  IN /\ subs' = newSubs
     /\ free' = IF reuse THEN SubSeq(free, 1, Len(free) - 1) ELSE free
     /\ resourceIndex' = [resourceIndex EXCEPT ![r] = Append(@, idx)]
     /\ nextId' = nextId + 1
     /\ save(newSubs)

SlotOf(id) == {i \in 1..Len(subs) : subs[i].ID = id /\ Active(subs[i])}

unsubscribeSlot(idx) ==
  LET newSubs == [subs EXCEPT ![idx] = NoRecord]
      r == subs[idx].Resource
  IN /\ subs' = newSubs
     /\ free' = Append(free, idx)
     /\ resourceIndex' = [resourceIndex EXCEPT ![r] = removeIndex(@, idx)]
     /\ save(newSubs)

-----------------------------------------------------------------------------
(* HTTP handlers.  A client has one request under way.                     *)

\* POST for a resource that has no subscription of this endpoint yet; the
\* other case answers 409 and changes nothing.
Subscribe(c, r) ==
  /\ handler[c] = Idle /\ nextId < MaxIds
  /\ Existing(r, c) = {}
  /\ insertLocked(r, c)
  /\ handler' = [handler EXCEPT ![c] = [Idle EXCEPT !.pc = "subscribed", !.id = nextId + 1, !.res = r]]
  /\ UNCHANGED <<toLoad, cache, updates, reader, seen, crashes, unsure>>

\* GetBySource: without an event there is no initial notification.
ReadState(c) ==
  /\ handler[c].pc = "subscribed"
  /\ LET v == cache[handler[c].res] IN
     handler' = [handler EXCEPT ![c] = IF v = 0 THEN Idle ELSE [@ EXCEPT !.pc = "notify", !.ver = v]]
  /\ UNCHANGED <<storeVars, cache, updates, reader, seen, fails, crashes, unsure>>

\* A write to a subscriber: it arrives, or it fails and is only logged.
Arrives(id, v) == seen' = [seen EXCEPT ![id] = v] /\ UNCHANGED fails
Fails == fails < MaxFails /\ fails' = fails + 1 /\ UNCHANGED seen

\* PublishToID: nothing is written when the subscription is already gone.
PublishToID(c) ==
  LET id == handler[c].id
      v  == handler[c].ver
  IN /\ handler[c].pc = "notify"
     /\ handler' = [handler EXCEPT ![c] = Idle]
     /\ \/ SlotOf(id) = {} /\ UNCHANGED <<seen, unsure, fails>>
        \/ /\ SlotOf(id) # {} /\ Arrives(id, v)
           /\ unsure' = IF seen[id] > v THEN unsure \cup {id} ELSE unsure
        \/ /\ SlotOf(id) # {} /\ Fails
           /\ unsure' = IF seen[id] < v THEN unsure \cup {id} ELSE unsure
     /\ UNCHANGED <<storeVars, cache, updates, reader, crashes>>

\* DELETE of one subscription, by anyone who knows its ID.
Unsubscribe(id) ==
  /\ \E idx \in SlotOf(id) : unsubscribeSlot(idx)
  /\ UNCHANGED <<toLoad, nextId, cache, updates, reader, handler, seen, crashes, unsure>>

\* DELETE of all.  A pointer that Get handed out keeps the abandoned array.
Detached == [c \in Client |-> IF handler[c].pc = "get" THEN Idle ELSE handler[c]]
UnsubscribeAllUnsaved ==
  /\ subs # <<>>
  /\ subs' = <<>> /\ free' = <<>> /\ resourceIndex' = [r \in Res |-> <<>>]
  /\ handler' = Detached
  /\ UNCHANGED <<saved, dirty, fails, toLoad, nextId, cache, updates, reader, seen, crashes, unsure>>
UnsubscribeAll ==
  /\ subs # <<>>
  /\ subs' = <<>> /\ free' = <<>> /\ resourceIndex' = [r \in Res |-> <<>>]
  /\ save(<<>>)
  /\ handler' = Detached
  /\ UNCHANGED <<toLoad, nextId, cache, updates, reader, seen, crashes, unsure>>

\* GET by ID: Get returns the slot's address and unlocks; the handler then
\* reads the slot without the lock to answer.
Get(c, id) ==
  /\ handler[c] = Idle
  /\ \E idx \in SlotOf(id) :
       handler' = [handler EXCEPT ![c] = [Idle EXCEPT !.pc = "get", !.id = id, !.slot = idx]]
  /\ UNCHANGED <<storeVars, cache, updates, reader, seen, fails, crashes, unsure>>
Respond(c) ==
  /\ handler[c].pc = "get"
  /\ handler' = [handler EXCEPT ![c] = Idle]
  /\ UNCHANGED <<storeVars, cache, updates, reader, seen, fails, crashes, unsure>>

-----------------------------------------------------------------------------
(* The IPC reader: handleIncomingEvents with EventCache and Publish.       *)

Update(r) ==
  /\ reader = ReaderIdle /\ updates < MaxUpdates
  /\ updates' = updates + 1
  /\ cache' = [cache EXCEPT ![r] = updates + 1]
  /\ reader' = [ReaderIdle EXCEPT !.pc = "publish", !.res = r, !.ver = updates + 1]
  /\ UNCHANGED <<storeVars, handler, seen, fails, crashes, unsure>>

CacheClear ==
  /\ reader = ReaderIdle
  /\ cache' = [r \in Res |-> 0]
  /\ UNCHANGED <<storeVars, updates, reader, handler, seen, fails, crashes, unsure>>

getTargets(r) == {subs[i].ID : i \in {j \in Range(resourceIndex[r]) : Active(subs[j])}}

Publish ==
  /\ reader.pc = "publish"
  /\ reader' = IF getTargets(reader.res) = {} THEN ReaderIdle
               ELSE [reader EXCEPT !.pc = "write", !.targets = getTargets(reader.res)]
  /\ UNCHANGED <<storeVars, cache, updates, handler, seen, fails, crashes, unsure>>

PublishWrite(id) ==
  /\ reader.pc = "write" /\ id \in reader.targets
  /\ reader' = IF reader.targets = {id} THEN ReaderIdle
               ELSE [reader EXCEPT !.targets = @ \ {id}]
  /\ \/ Arrives(id, reader.ver) /\ unsure' = unsure \ {id}
     \/ Fails /\ unsure' = unsure \cup {id}
  /\ UNCHANGED <<storeVars, cache, updates, handler, crashes>>

\* The proxy restarts: main calls LoadFromStore, which puts the saved records
\* into new slots one by one, before it listens on its socket and port.
Restart ==
  /\ crashes < MaxCrashes /\ crashes' = crashes + 1
  /\ subs' = <<>> /\ free' = <<>> /\ resourceIndex' = [r \in Res |-> <<>>]
  /\ toLoad' = saved
  /\ cache' = [r \in Res |-> 0]
  /\ reader' = ReaderIdle /\ handler' = [c \in Client |-> Idle]
  /\ dirty' = FALSE
  /\ UNCHANGED <<saved, nextId, updates, seen, fails, unsure>>
LoadFromStore(s) ==
  /\ s \in toLoad /\ toLoad' = toLoad \ {s}
  /\ subs' = Append(subs, s)
  /\ resourceIndex' = [resourceIndex EXCEPT ![s.Resource] = Append(@, Len(subs) + 1)]
  /\ UNCHANGED <<free, saved, nextId, dirty, cache, updates, reader, handler, seen, fails, crashes, unsure>>

-----------------------------------------------------------------------------
Init ==
  /\ subs = <<>> /\ free = <<>> /\ resourceIndex = [r \in Res |-> <<>>]
  /\ saved = {} /\ toLoad = {} /\ nextId = 0 /\ dirty = FALSE
  /\ cache = [r \in Res |-> 0] /\ updates = 0 /\ reader = ReaderIdle
  /\ handler = [c \in Client |-> Idle]
  /\ seen = [id \in Ids |-> 0] /\ unsure = {}
  /\ fails = 0 /\ crashes = 0

Serve ==
  \/ \E c \in Client, r \in Res : Subscribe(c, r)
  \/ \E c \in Client : ReadState(c) \/ PublishToID(c) \/ Respond(c)
  \/ \E c \in Client, id \in Ids : Get(c, id)
  \/ \E id \in Ids : Unsubscribe(id) \/ PublishWrite(id)
  \/ UnsubscribeAll
  \/ \E r \in Res : Update(r)
  \/ CacheClear
  \/ Publish

Next ==
  \/ toLoad = {} /\ Serve
  \/ \E s \in toLoad : LoadFromStore(s)
  \/ Restart

Spec == Init /\ [][Next]_vars

-----------------------------------------------------------------------------
Handlers == [pc : {"idle", "subscribed", "notify", "get"}, id : 0..MaxIds,
             res : Res \cup {None}, ver : 0..MaxUpdates, slot : Nat]

\* The state has its type: in particular every index the store keeps is a
\* slot of subs (pubsub.go indexes subs without a check).
TypeOK ==
  /\ subs \in Seq(Slots)
  /\ free \in Seq(1..Len(subs))
  /\ resourceIndex \in [Res -> Seq(1..Len(subs))]
  /\ saved \subseteq Slots \ {NoRecord} /\ toLoad \subseteq saved
  /\ nextId \in 0..MaxIds /\ dirty \in BOOLEAN
  /\ cache \in [Res -> 0..MaxUpdates] /\ updates \in 0..MaxUpdates
  /\ reader \in [pc : {"idle", "publish", "write"}, res : Res \cup {None},
                 ver : 0..MaxUpdates, targets : SUBSET Ids]
  /\ handler \in [Client -> Handlers]
  /\ seen \in [Ids -> 0..MaxUpdates] /\ unsure \subseteq Ids
  /\ fails \in 0..MaxFails /\ crashes \in 0..MaxCrashes

\* Through any sequence of subscriptions, removals with slot reuse and
\* reloads, the index of a resource lists each active slot of it exactly
\* once and nothing else, and free lists the unused slots exactly once:
\* Publish reaches every subscriber once and insertLocked never overwrites
\* one.  (pubsub.go insertLocked, Unsubscribe, UnsubscribeAll, LoadFromStore)
IndexMatches ==
  /\ IsInjective(free)
  /\ Range(free) = {i \in 1..Len(subs) : ~Active(subs[i])}
  /\ \A r \in Res :
       /\ IsInjective(resourceIndex[r])
       /\ Range(resourceIndex[r]) = {i \in 1..Len(subs) : Active(subs[i]) /\ subs[i].Resource = r}

\* No endpoint has two active subscriptions to a resource, so none is
\* notified twice, also after a reload.  (pubsub.go Subscribe)
OneSubscription ==
  \A i, j \in 1..Len(subs) :
    /\ Active(subs[i]) /\ Active(subs[j])
    /\ subs[i].Resource = subs[j].Resource /\ subs[i].Endpoint = subs[j].Endpoint
    => i = j

\* Once its creation has ended and no event is being published, a subscriber
\* has received the current event of its resource, unless a write to it
\* failed or its initial notification was overtaken: a change that falls
\* between Subscribe, the read of the event cache and the choice of targets
\* is never missed.  (cep.go handleCreateSubscription, pubsub.go Publish)
NotifiedOfCurrent ==
  reader = ReaderIdle =>
    \A i \in 1..Len(subs) :
      LET s == subs[i] IN
      /\ Active(s) /\ s.ID \notin unsure /\ cache[s.Resource] # 0
      /\ \A c \in Client : handler[c].pc \in {"subscribed", "notify"} => handler[c].id # s.ID
      => seen[s.ID] = cache[s.Resource]

\* The store holds the active subscriptions and those still to be loaded,
\* unless the last save failed: a restart neither forgets a subscription nor revives a
\* deleted one.  (pubsub.go save)
SavedIsActive ==
  ~dirty => saved = {s \in Range(subs) : Active(s)} \cup toLoad

\* pubsub.go: "Get returns the subscription with the given ID."  What the
\* handler will read is that subscription.
GetReturnsRequested ==
  \A c \in Client : handler[c].pc = "get" => subs[handler[c].slot].ID = handler[c].id
=============================================================================
