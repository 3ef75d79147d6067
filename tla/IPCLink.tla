------------------------------- MODULE IPCLink -------------------------------
(***************************************************************************)
(* How clock states travel from the daemon to the cloud-event-proxy:       *)
(* ipc.Cache (dedup store and outbound channel), ipc.Link (dial, serve,    *)
(* answer status requests), the Unix socket, and the proxy's accept loop   *)
(* and EventCache.                                                         *)
(*                                                                         *)
(*  Send/Clear --store,outCh--> Link --conns--> AcceptDaemonConnections    *)
(*                               ^--status_request--|      --> entries     *)
(*                                                                         *)
(* The callers of Send and Clear hold the clock manager's mutex, so the    *)
(* cache has one writer; the Link's Snapshot runs between its steps.       *)
(*                                                                         *)
(* History: lost holds the keys whose latest state the proxy may miss for  *)
(* good, missed the keys whose latest state was dropped while the proxy    *)
(* was down.  Only the properties read them.                               *)
(***************************************************************************)
EXTENDS Naturals, Sequences

CONSTANTS
  Keys,        \* cache keys: records with fields type, profile, iface
  Values,      \* message values
  NoEntry,     \* an absent entry of the cache or of the event cache
  OutCap,      \* capacity of Cache.outCh (100 in daemon.go)
  WireCap,     \* messages the socket buffers before a write waits
  MaxConns,    \* bound: connections open or waiting in the listener's backlog
  MaxSends,    \* bound: changes of the cache
  MaxClears,   \* bound: Clear calls
  MaxTimeouts, \* bound: writes that exceed linkWriteTimeout
  MaxCrashes   \* bound: restarts of the proxy

ASSUME LinkAssumption ==
  /\ NoEntry \notin Values
  /\ OutCap \in Nat \ {0} /\ WireCap \in Nat \ {0} /\ MaxConns \in Nat \ {0}
  /\ MaxSends \in Nat /\ MaxClears \in Nat /\ MaxTimeouts \in Nat /\ MaxCrashes \in Nat

VARIABLES
  store,    \* Cache.store
  outCh,    \* Cache.outCh
  clearing, \* Clear has emptied the store and not yet sent cache_clear
  link,     \* where Link.Run is: "dial", "serve" or "write"
  todo,     \* messages serve took and has not yet written
  conns,    \* connections the proxy has not finished, oldest first
  up,       \* the proxy is running
  entries,  \* EventCache.entries, per data value
  sends, clears, timeouts, crashes,   \* counters of the bounds
  lost, missed   \* history

cacheVars == <<store, outCh, clearing, sends, clears>>
linkVars  == <<link, todo, timeouts>>
proxyVars == <<up, entries, crashes>>
vars == <<cacheVars, linkVars, conns, proxyVars, lost, missed>>

\* The data value of the event of a message's type that the message sets
\* (buildResourceAddress): the profile is not part of it.
ResourceOf(k) == <<k.type, k.iface>>
Resources == {ResourceOf(k) : k \in Keys}

SetMsg(k, v) == [kind |-> "set", key |-> k, val |-> v]
ClearMsg == [kind |-> "clear"]
Messages == [kind : {"set"}, key : Keys, val : Values] \cup {ClearMsg}

EmptyCache == [k \in Keys |-> NoEntry]
NoEntries  == [r \in Resources |-> NoEntry]

-----------------------------------------------------------------------------
(* Cache.                                                                  *)

\* A non-blocking send on outCh: a full channel drops the message.
Enqueue(m) ==
  outCh' = IF Len(outCh) < OutCap THEN Append(outCh, m) ELSE outCh
Dropped == Len(outCh) >= OutCap

ValuesEqual(k, v) == store[k] = v

\* A Send of a value the cache already holds for the key changes nothing.
Send(k, v) ==
  /\ ~clearing /\ sends < MaxSends
  /\ ~ValuesEqual(k, v)
  /\ store' = [store EXCEPT ![k] = v]
  /\ Enqueue(SetMsg(k, v))
  /\ lost' = IF Dropped THEN lost \cup {k} ELSE lost \ {k}
  /\ missed' = IF Dropped /\ ~up THEN missed \cup {k} ELSE missed \ {k}
  /\ sends' = sends + 1
  /\ UNCHANGED <<clearing, clears, linkVars, conns, proxyVars>>

SendClear ==
  /\ Enqueue(ClearMsg)
  /\ lost' = IF Dropped THEN Keys ELSE {}
EmptyStore == store' = EmptyCache /\ UNCHANGED <<outCh, lost>>

ClearSentFirst ==
  /\ \/ /\ ~clearing /\ clears < MaxClears
        /\ SendClear /\ UNCHANGED store
        /\ clears' = clears + 1 /\ clearing' = TRUE
     \/ /\ clearing /\ EmptyStore
        /\ clearing' = FALSE /\ UNCHANGED clears
  /\ missed' = {}
  /\ UNCHANGED <<sends, linkVars, conns, proxyVars>>
\* Clear empties the store under the cache's lock and sends after unlocking.
Clear ==
  /\ \/ /\ ~clearing /\ clears < MaxClears
        /\ EmptyStore
        /\ clears' = clears + 1 /\ clearing' = TRUE
     \/ /\ clearing /\ SendClear /\ UNCHANGED store
        /\ clearing' = FALSE /\ UNCHANGED clears
  /\ missed' = {}
  /\ UNCHANGED <<sends, linkVars, conns, proxyVars>>

Snapshot == {SetMsg(k, store[k]) : k \in {j \in Keys : store[j] # NoEntry}}

-----------------------------------------------------------------------------
(* What a message means for a key.                                         *)

About(m, k) == m = ClearMsg \/ m.key = k
Says(m, k) == IF m = ClearMsg THEN NoEntry ELSE m.val

\* The entry of k after the messages of s were applied to an entry v.
After(v, s, k) ==
  LET on == {i \in 1..Len(s) : About(s[i], k)}
  IN IF on = {} THEN v
     ELSE Says(s[CHOOSE i \in on : \A j \in on : j <= i], k)

\* The same for a set of messages with at most one about k.
AfterSet(v, T, k) ==
  LET on == {m \in T : About(m, k)}
  IN IF on = {} THEN v ELSE Says(CHOOSE m \in on : TRUE, k)

InSeq(m, s) == \E i \in 1..Len(s) : s[i] = m
SomeAbout(s, k) == \E i \in 1..Len(s) : About(s[i], k)

\* The keys without a state, when a cache_clear gets lost and none follows.
Uncleared == {k \in Keys : store[k] = NoEntry}

-----------------------------------------------------------------------------
(* Link.                                                                   *)

\* The Link's own connection is the newest one, as long as the Link has not
\* closed it and the proxy has not died.
N == Len(conns)
Linked == conns # <<>> /\ conns[N].open

NewConn == [data |-> <<>>, open |-> TRUE, req |-> "none"]

\* The listener's backlog accepts a dial while an older connection is read.
Dial ==
  /\ link = "dial" /\ up /\ N < MaxConns
  /\ conns' = Append(conns, NewConn)
  /\ link' = "serve"
  /\ UNCHANGED <<cacheVars, todo, timeouts, proxyVars, lost, missed>>

TakeOut ==
  /\ link = "serve" /\ outCh # <<>>
  /\ todo' = {Head(outCh)} /\ outCh' = Tail(outCh)
  /\ link' = "write"
  /\ UNCHANGED <<store, clearing, sends, clears, timeouts, conns, proxyVars, lost, missed>>

\* A dropped state is in the snapshot; it reaches the proxy for good unless
\* an older message about its key is still queued behind the snapshot.
AnsweredBySnapshot == {k \in Keys : store[k] # NoEntry /\ ~SomeAbout(outCh, k)}

TakeStatus ==
  /\ link = "serve" /\ Linked /\ conns[N].req = "sent"
  /\ conns' = [conns EXCEPT ![N].req = "taken"]
  /\ todo' = Snapshot
  /\ link' = IF Snapshot = {} THEN "serve" ELSE "write"
  /\ lost' = lost \ AnsweredBySnapshot
  /\ UNCHANGED <<cacheVars, timeouts, proxyVars, missed>>

Transmit(m) ==
  /\ link = "write" /\ Linked /\ Len(conns[N].data) < WireCap
  /\ conns' = [conns EXCEPT ![N].data = Append(@, m)]
  /\ todo' = todo \ {m}
  /\ link' = IF todo = {m} THEN "serve" ELSE "write"
  /\ UNCHANGED <<cacheVars, timeouts, proxyVars, lost, missed>>

\* The write deadline passes while the socket is full: what serve had taken
\* is gone and the connection is closed.
TransmitTimeout ==
  /\ link = "write" /\ Linked /\ Len(conns[N].data) = WireCap /\ timeouts < MaxTimeouts
  /\ conns' = [conns EXCEPT ![N].open = FALSE]
  /\ todo' = {} /\ link' = "dial" /\ timeouts' = timeouts + 1
  /\ lost' = IF ClearMsg \in todo /\ ~InSeq(ClearMsg, outCh) /\ ~clearing
             THEN lost \cup Uncleared ELSE lost
  /\ UNCHANGED <<cacheVars, proxyVars, missed>>

\* The peer is gone: serve ends when the scanner does, or a write fails.
PeerGoneOnWrite ==
  /\ ~Linked /\ link = "write"
  /\ todo' = {} /\ link' = "dial"
  /\ UNCHANGED <<cacheVars, timeouts, conns, proxyVars, lost, missed>>
PeerGone ==
  /\ ~Linked /\ link \in {"serve", "write"}
  /\ todo' = {} /\ link' = "dial"
  /\ UNCHANGED <<cacheVars, timeouts, conns, proxyVars, lost, missed>>

-----------------------------------------------------------------------------
(* Cloud-event-proxy.                                                      *)

Accept ==
  /\ up /\ conns # <<>> /\ conns[1].req = "none" /\ conns[1].open
  /\ conns' = [conns EXCEPT ![1].req = "sent"]
  /\ UNCHANGED <<cacheVars, linkVars, proxyVars, lost, missed>>

\* The status request cannot be written to a connection the Link has already
\* closed; the proxy closes it unread.
AcceptFails ==
  /\ up /\ conns # <<>> /\ conns[1].req = "none" /\ ~conns[1].open
  /\ conns' = Tail(conns)
  /\ lost' = IF /\ InSeq(ClearMsg, conns[1].data)
                /\ \A i \in 2..N : ~InSeq(ClearMsg, conns[i].data)
                /\ ClearMsg \notin todo /\ ~InSeq(ClearMsg, outCh) /\ ~clearing
             THEN lost \cup Uncleared ELSE lost
  /\ UNCHANGED <<cacheVars, linkVars, proxyVars, missed>>

setDataValue(r, v) == [entries EXCEPT ![r] = v]
Update(m) == setDataValue(ResourceOf(m.key), m.val)
HandleIncoming ==
  /\ up /\ conns # <<>> /\ conns[1].req # "none" /\ conns[1].data # <<>>
  /\ LET m == Head(conns[1].data) IN
     entries' = IF m = ClearMsg THEN NoEntries ELSE Update(m)
  /\ conns' = [conns EXCEPT ![1].data = Tail(@)]
  /\ UNCHANGED <<cacheVars, linkVars, up, crashes, lost, missed>>

Disconnected ==
  /\ up /\ conns # <<>> /\ conns[1].req # "none" /\ conns[1].data = <<>> /\ ~conns[1].open
  /\ conns' = Tail(conns)
  /\ UNCHANGED <<cacheVars, linkVars, proxyVars, lost, missed>>

\* The event cache is not persisted, so the proxy restarts empty: only an
\* older message still queued in the daemon can mislead it.
Crash ==
  /\ up /\ crashes < MaxCrashes
  /\ up' = FALSE /\ conns' = <<>> /\ entries' = NoEntries
  /\ lost' = {k \in lost : SomeAbout(outCh, k)}
  /\ crashes' = crashes + 1
  /\ UNCHANGED <<cacheVars, linkVars, missed>>

Restart ==
  /\ ~up /\ up' = TRUE
  /\ UNCHANGED <<cacheVars, linkVars, conns, entries, crashes, lost, missed>>

-----------------------------------------------------------------------------
Init ==
  /\ store = EmptyCache /\ outCh = <<>> /\ clearing = FALSE
  /\ link = "dial" /\ todo = {} /\ conns = <<>>
  /\ up \in BOOLEAN /\ entries = NoEntries
  /\ sends = 0 /\ clears = 0 /\ timeouts = 0 /\ crashes = 0
  /\ lost = {} /\ missed = {}

LinkStep == Dial \/ TakeOut \/ TakeStatus \/ (\E m \in todo : Transmit(m)) \/ PeerGone
ProxyStep == Accept \/ AcceptFails \/ HandleIncoming \/ Disconnected

Next ==
  \/ \E k \in Keys, v \in Values : Send(k, v)
  \/ Clear
  \/ LinkStep
  \/ TransmitTimeout
  \/ ProxyStep
  \/ Crash
  \/ Restart

Spec == Init /\ [][Next]_vars

\* The Link's goroutine and the proxy's accept loop keep running, the kubelet
\* restarts the proxy, and Clear finishes once begun.  select in serve may
\* prefer outCh, which holds finitely many messages.
FairSpec ==
  /\ Spec
  /\ WF_vars(LinkStep) /\ WF_vars(ProxyStep) /\ WF_vars(Restart)
  /\ WF_vars(clearing /\ Clear)

-----------------------------------------------------------------------------
Conns == [data : Seq(Messages), open : BOOLEAN, req : {"none", "sent", "taken"}]

\* The state has its type, the outbound channel of the cache and the socket
\* keep their capacity, and serve writes exactly while it holds a message.
TypeOK ==
  /\ store \in [Keys -> Values \cup {NoEntry}]
  /\ outCh \in Seq(Messages) /\ Len(outCh) <= OutCap
  /\ clearing \in BOOLEAN /\ up \in BOOLEAN
  /\ link \in {"dial", "serve", "write"}
  /\ todo \subseteq Messages /\ (todo # {} <=> link = "write")
  /\ conns \in Seq(Conns) /\ N <= MaxConns
  /\ \A i \in 1..N : Len(conns[i].data) <= WireCap
  /\ entries \in [Resources -> Values \cup {NoEntry}]
  /\ sends \in 0..MaxSends /\ clears \in 0..MaxClears
  /\ timeouts \in 0..MaxTimeouts /\ crashes \in 0..MaxCrashes
  /\ lost \subseteq Keys /\ missed \subseteq Keys

Sole(k) == \A j \in Keys : ResourceOf(j) = ResourceOf(k) => j = k

\* The proxy reads the Link's connection and its status request was answered.
Answered == N = 1 /\ Linked /\ conns[1].req = "taken"

\* The entry of k once everything under way has been applied.
Arriving(k) ==
  LET a == After(entries[ResourceOf(k)], conns[1].data, k)
      b == AfterSet(a, todo, k)
      c == After(b, outCh, k)
  IN IF clearing THEN NoEntry ELSE c

\* Once the status request of a connection was answered, the messages under
\* way lead the proxy to the state the cache holds of every key that is not
\* lost: whatever the interleaving of snapshot, queued messages, clears,
\* reconnects, timeouts and restarts of the proxy before.  (link.go serve,
\* cache.go Send, Clear and Snapshot, cep.go handleIncomingEvents)
PeerFollows ==
  Answered => \A k \in Keys \ lost : Sole(k) => Arriving(k) = store[k]

\* When the clocks stop changing, the proxy ends up with the state of every
\* key that is not lost, after any finite number of restarts and timeouts.
\* (link.go Run reconnects; cep.go AcceptDaemonConnections asks for the state)
Converges ==
  \A k \in Keys : <>[](k \notin lost /\ Sole(k) => entries[ResourceOf(k)] = store[k])

-----------------------------------------------------------------------------
(* What the repository says of the pipeline.                               *)

\* Nothing is under way on an answered connection.
Quiet == Answered /\ conns[1].data = <<>> /\ todo = {} /\ outCh = <<>> /\ ~clearing

\* cache.go: after a message was dropped because the proxy was down, "when it
\* comes back up it will request a snapshot, and will receive the missed
\* event": the proxy ends up with the state that was dropped.
MissedEventReceived ==
  Quiet => \A k \in missed : Sole(k) => entries[ResourceOf(k)] = store[k]

\* cache.go: Clear "sends a cache_clear message to notify the peer that all
\* prior state is invalidated".
PriorStateInvalidated ==
  Quiet => \A k \in Keys : Sole(k) /\ store[k] = NoEntry => entries[ResourceOf(k)] = NoEntry

\* docs/cloud-event-proxy/cep-v2-mermaid.md: the proxy's Event Cache holds
\* "per-profile state".
PerProfileState ==
  Quiet => \A k \in Keys : store[k] # NoEntry => entries[ResourceOf(k)] = store[k]
=============================================================================
