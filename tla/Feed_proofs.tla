----------------------------- MODULE Feed_proofs -----------------------------
(***************************************************************************)
(* Proofs about the feed, for any number of viewers, guests, writers and   *)
(* snapshots: frames that are broadcast under the poller's mutex are the   *)
(* newest, and the poll loop follows the viewers although the channel that *)
(* tells it of them drops values.                                          *)
(***************************************************************************)
EXTENDS Feed, TLAPS

Broadcasting(w) == writer[w].pc \in {"try", "drop", "put"}

\* Poller.mu is held by exactly the locked writer that is in Broadcast.
MuInv == \A w \in Locked : Broadcasting(w) <=> mu = w

FeedInv == FeedTypeOK /\ MuInv /\ FramesInStoreOrder /\ LoopFollowsViewers

\* The state space of one writer, one channel.
Writer == [pc : {"idle", "store", "try", "drop", "put"}, frame : Stamps]
Channel == {{}} \cup {{n} : n \in Stamps}

LEMMA FeedInitInv == Init => FeedInv
<1> SUFFICES ASSUME Init PROVE FeedInv
  OBVIOUS
<1>1. FeedTypeOK
  <2>1. 0 \in Stamps /\ budget \in 0..MaxRequests
    BY FeedAssumption DEF Init, Stamps
  <2>2. ch \in [Viewers -> Channel] /\ shown \in [Viewers -> Stamps]
    BY <2>1 DEF Init, Channel, NoFrame
  <2>3. writer \in [Writers -> Writer]
    BY <2>1 DEF Init, Writer
  <2> QED
    BY <2>1, <2>2, <2>3 DEF Init, FeedTypeOK, Channel, Writer
<1>2. MuInv /\ FramesInStoreOrder
  BY FeedAssumption DEF Init, MuInv, Broadcasting, FramesInStoreOrder, Locked, Writers
<1>3. LoopFollowsViewers
  BY DEF Init, LoopFollowsViewers
<1> QED
  BY <1>1, <1>2, <1>3 DEF FeedInv

-----------------------------------------------------------------------------
(* The writers                                                             *)

\* What a step of a writer leaves alone.
LEMMA OutsideWriters ==
  ASSUME FeedInv, UNCHANGED <<hubVars, streamVars, loopVars, main>>
  PROVE  /\ LoopFollowsViewers'
         /\ transitions' \in {{}, {0}, {1}} /\ clients' \subseteq Viewers
         /\ stream' \in [Viewers -> {"off", "joining", "open", "leaving"}]
         /\ vanished' \subseteq Viewers /\ revoked' \subseteq Guests
         /\ ch' \in [Viewers -> Channel] /\ shown' \in [Viewers -> Stamps]
         /\ active' \in BOOLEAN /\ linger' \in {"off", "armed", "fired"}
         /\ hubDone' \in BOOLEAN /\ loopDone' \in BOOLEAN
         /\ main' \in {"serving", "stopping", "draining", "closed"}
  BY DEF FeedInv, FeedTypeOK, LoopFollowsViewers, Channel, hubVars, streamVars, loopVars

LEMMA PublishInv == ASSUME FeedInv, NEW w \in Writers, Publish(w) PROVE FeedInv'
<1> USE DEF FeedInv
<1>1. PICK n \in {published, published + 1} \cap Stamps :
        /\ published' = n
        /\ mu' = IF w \in Locked THEN w ELSE Nobody
        /\ writer' = [writer EXCEPT ![w] = [pc |-> "try", frame |-> n]]
  BY DEF Publish
<1>2. \A u \in Locked : ~Broadcasting(u)
  BY FeedAssumption DEF Publish, MuInv, Writers
<1>3. budget' \in 0..MaxRequests
  BY FeedAssumption DEF Publish, Ready, FeedTypeOK
<1>4. FeedTypeOK'
  BY <1>1, <1>3, OutsideWriters DEF Publish, FeedTypeOK, Channel, Writers, Locked
<1>5. \A u \in Writers : writer'[u] = IF u = w THEN [pc |-> "try", frame |-> n] ELSE writer[u]
  BY <1>1 DEF FeedTypeOK
<1>6. MuInv'
  BY <1>1, <1>2, <1>5, FeedAssumption DEF MuInv, Broadcasting, Writers, Locked
<1>7. FramesInStoreOrder'
  BY <1>1, <1>2, <1>5 DEF FramesInStoreOrder, Broadcasting, Writers
<1> QED
  BY <1>4, <1>6, <1>7, OutsideWriters DEF Publish

LEMMA WriteInv == ASSUME FeedInv, NEW w \in Writers, Write(w) PROVE FeedInv'
<1> USE DEF FeedInv
<1>1. UNCHANGED <<hubVars, streamVars, loopVars, main>> /\ UNCHANGED <<published, budget>>
  BY DEF Write, Try, Drop, Put
<1>2. Broadcasting(w) /\ writer[w] \in Writer
  BY DEF Write, Try, Drop, Put, Broadcasting, FeedTypeOK, Writer
<1>3. \/ /\ writer' = [writer EXCEPT ![w] = [pc |-> "idle", frame |-> 0]]
         /\ mu' = IF mu = w THEN Nobody ELSE mu
      \/ /\ writer' = [writer EXCEPT ![w].pc = "drop"] \/ writer' = [writer EXCEPT ![w].pc = "put"]
         /\ mu' = mu
  BY DEF Write, Try, Drop, Put, Return
<1>4. queue' \in Channel
  BY <1>2 DEF Write, Try, Drop, Put, FeedTypeOK, Channel, Writer
<1>5. writer' \in [Writers -> Writer]
  BY <1>3, FeedAssumption DEF FeedTypeOK, Writer, Stamps
<1>6. FeedTypeOK'
  BY <1>1, <1>3, <1>4, <1>5, OutsideWriters DEF FeedTypeOK, Channel, Writer
<1>7. MuInv' /\ FramesInStoreOrder'
  <2>1. CASE writer' = [writer EXCEPT ![w] = [pc |-> "idle", frame |-> 0]]
    <3>1. /\ writer'[w].pc = "idle" /\ \A u \in Writers \ {w} : writer'[u] = writer[u]
          /\ mu' = IF mu = w THEN Nobody ELSE mu
      BY <1>2, <1>3, <2>1 DEF FeedTypeOK, Broadcasting, Writer
    <3> QED
      BY <1>1, <3>1, FeedAssumption DEF MuInv, FramesInStoreOrder, Broadcasting, Writers
  <2>2. CASE \E pc \in {"drop", "put"} : writer' = [writer EXCEPT ![w].pc = pc]
    <3>1. /\ Broadcasting(w)' /\ writer'[w].frame = writer[w].frame
          /\ \A u \in Writers \ {w} : writer'[u] = writer[u]
          /\ writer'[w].pc # "idle"
      BY <1>2, <2>2 DEF FeedTypeOK, Broadcasting, Writer
    <3>2. mu' = mu
      BY <1>3, <3>1 DEF FeedTypeOK
    <3> QED
      BY <1>1, <1>2, <3>1, <3>2 DEF MuInv, FramesInStoreOrder, Broadcasting, Writers
  <2> QED
    BY <1>3, <2>1, <2>2
<1> QED
  BY <1>1, <1>6, <1>7, OutsideWriters

-----------------------------------------------------------------------------
(* The hub, the streams, the poll loop and the composition root            *)

\* A step that leaves the writers alone keeps what is said of them.
LEMMA OutsideFeed ==
  ASSUME FeedInv, UNCHANGED <<published, mu, writer>>
  PROVE  MuInv' /\ FramesInStoreOrder'
  BY DEF FeedInv, MuInv, FramesInStoreOrder, Broadcasting

\* A step of a stream that is not the hub's or the loop's.
LEMMA StreamInv ==
  ASSUME FeedInv, UNCHANGED <<hubVars, writeVars, loopVars, main>>,
         stream' \in [Viewers -> {"off", "joining", "open", "leaving"}],
         vanished' \subseteq Viewers, revoked' \subseteq Guests,
         ch' \in [Viewers -> Channel], shown' \in [Viewers -> Stamps]
  PROVE  FeedInv'
<1> USE DEF FeedInv, hubVars, writeVars, loopVars
<1>1. FeedTypeOK'
  BY DEF FeedTypeOK, Channel
<1>2. LoopFollowsViewers'
  BY DEF LoopFollowsViewers
<1> QED
  BY <1>1, <1>2, OutsideFeed

\* Gone and Leave keep the types of a stream.
LEMMA GoneTypes ==
  ASSUME FeedInv, NEW v \in Viewers, Gone(v)
  PROVE  /\ stream' \in [Viewers -> {"off", "joining", "open", "leaving"}]
         /\ vanished' \subseteq Viewers /\ revoked' \subseteq Guests
         /\ ch' \in [Viewers -> Channel] /\ shown' \in [Viewers -> Stamps]
  BY FeedAssumption DEF FeedInv, FeedTypeOK, Gone, Channel, NoFrame, Stamps

LEMMA LeaveInv == ASSUME FeedInv, NEW v \in Viewers, Leave(v) PROVE FeedInv'
<1>1. /\ stream' \in [Viewers -> {"off", "joining", "open", "leaving"}]
      /\ vanished' \subseteq Viewers /\ revoked' \subseteq Guests
      /\ ch' \in [Viewers -> Channel] /\ shown' \in [Viewers -> Stamps]
  BY DEF FeedInv, FeedTypeOK, Leave, Channel
<1> QED
  BY <1>1, StreamInv DEF Leave

LEMMA registerInv == ASSUME FeedInv, NEW v \in Viewers, register(v) PROVE FeedInv'
<1> USE DEF FeedInv
<1>1. /\ clients' = clients \cup {v} /\ ~hubDone' /\ UNCHANGED <<loopVars, writeVars, main>>
      /\ transitions' = IF clients = {} THEN {1} ELSE transitions
  BY DEF register, emit
<1>2. ch' \in [Viewers -> Channel] /\ stream' \in [Viewers -> {"off", "joining", "open", "leaving"}]
  BY DEF register, FeedTypeOK, Channel
<1>3. FeedTypeOK'
  BY <1>1, <1>2 DEF register, FeedTypeOK, Channel, loopVars, writeVars
<1>4. LoopFollowsViewers'
  BY <1>1 DEF register, FeedTypeOK, LoopFollowsViewers, loopVars
<1> QED
  BY <1>1, <1>3, <1>4, OutsideFeed DEF writeVars

LEMMA unregisterInv == ASSUME FeedInv, NEW v \in Viewers, unregister(v) PROVE FeedInv'
<1> USE DEF FeedInv
<1>1. /\ clients' = clients \ {v} /\ ~hubDone' /\ UNCHANGED <<loopVars, writeVars, main>>
      /\ transitions' = IF clients = {v} THEN {0} ELSE transitions
  BY DEF unregister, emit
<1>2. FeedTypeOK'
  BY <1>1, GoneTypes DEF unregister, FeedTypeOK, Channel, loopVars, writeVars
<1>3. LoopFollowsViewers'
  <2>1. CASE clients = {v}
    BY <1>1, <2>1 DEF LoopFollowsViewers
  <2>2. CASE clients # {v}
    <3>1. clients' = {} <=> clients = {}
      BY <1>1, <2>2
    <3> QED
      BY <1>1, <2>2, <3>1 DEF unregister, LoopFollowsViewers, loopVars
  <2> QED
    BY <2>1, <2>2
<1> QED
  BY <1>1, <1>2, <1>3, OutsideFeed DEF writeVars

LEMMA fanOutInv == ASSUME FeedInv, fanOut PROVE FeedInv'
<1> USE DEF FeedInv, fanOut
<1>1. ch' \in [Viewers -> Channel] /\ queue' \in Channel
  BY DEF FeedTypeOK, Channel
<1>2. FeedTypeOK'
  BY <1>1 DEF FeedTypeOK, Channel, hubVars, loopVars
<1>3. LoopFollowsViewers'
  BY DEF LoopFollowsViewers, hubVars, loopVars
<1> QED
  BY <1>2, <1>3, OutsideFeed

LEMMA HubReturnsInv == ASSUME FeedInv, HubReturns PROVE FeedInv'
<1> USE DEF FeedInv, HubReturns, streamVars, writeVars, loopVars
<1>1. FeedTypeOK' /\ LoopFollowsViewers'
  BY DEF FeedTypeOK, LoopFollowsViewers
<1> QED
  BY <1>1, OutsideFeed

LEMMA ServeHTTPInv ==
  ASSUME FeedInv, NEW v \in Viewers,
         \/ Connect(v) \/ writeFrame(v) \/ ping(v) \/ UnregisterDone(v)
         \/ (\E closed \in BOOLEAN : Released(v, closed)) \/ Vanish(v) \/ Revoke(v)
  PROVE  FeedInv'
<1>1. CASE Leave(v)
  BY <1>1, LeaveInv
<1>2. CASE Gone(v) /\ UNCHANGED <<hubVars, writeVars, loopVars, main>>
  BY <1>2, GoneTypes, StreamInv
<1>3. CASE Connect(v) \/ Vanish(v) \/ Revoke(v)
  <2>1. /\ stream' \in [Viewers -> {"off", "joining", "open", "leaving"}]
        /\ vanished' \subseteq Viewers /\ revoked' \subseteq Guests
        /\ ch' \in [Viewers -> Channel] /\ shown' \in [Viewers -> Stamps]
    BY <1>3 DEF FeedInv, FeedTypeOK, Connect, Vanish, Revoke, Channel
  <2> QED
    BY <1>3, <2>1, StreamInv DEF Connect, Vanish, Revoke
<1>4. CASE writeFrame(v) /\ v \notin vanished
  <2>1. (CHOOSE n \in ch[v] : TRUE) \in Stamps
    <3>1. PICK n \in Stamps : ch[v] = {n}
      BY <1>4 DEF FeedInv, FeedTypeOK, writeFrame
    <3> QED
      BY <3>1
  <2> DEFINE next == CHOOSE n \in ch[v] : TRUE
  <2>2. /\ ch' = [ch EXCEPT ![v] = {}] /\ shown' = [shown EXCEPT ![v] = next]
        /\ UNCHANGED <<stream, vanished, revoked, hubVars, writeVars, loopVars, main>>
    BY <1>4 DEF writeFrame
  <2> HIDE DEF next
  <2>3. /\ stream' \in [Viewers -> {"off", "joining", "open", "leaving"}]
        /\ vanished' \subseteq Viewers /\ revoked' \subseteq Guests
        /\ ch' \in [Viewers -> Channel] /\ shown' \in [Viewers -> Stamps]
    BY <2>1, <2>2 DEF FeedInv, FeedTypeOK, Channel, next
  <2> QED
    BY <2>2, <2>3, StreamInv
<1> QED
  BY <1>1, <1>2, <1>3, <1>4 DEF writeFrame, ping, UnregisterDone, Released

\* A step of Poller.Run or of the composition root: what is said of the writers
\* needs only the poll's own stage, which is never that of a broadcast.
LEMMA LoopInv ==
  ASSUME FeedInv,
         takeTransition \/ LingerFires \/ takeLinger \/ tick \/ LoopReturns
           \/ Cancel \/ WorkersStopped \/ Drained
  PROVE  FeedInv'
<1> USE DEF FeedInv
<1>1. UNCHANGED <<clients, hubDone, streamVars, published, mu, queue, budget>>
  BY DEF takeTransition, LingerFires, takeLinger, tick, LoopReturns, Cancel, WorkersStopped, Drained,
         hubVars, writeVars
<1>2. \/ writer' = writer
      \/ LoopIdle /\ writer' = [writer EXCEPT ![PollLoop].pc = "store"]
  BY DEF takeTransition, LingerFires, takeLinger, tick, LoopReturns, Cancel, WorkersStopped, Drained,
         writeVars, Refresh
<1>3. PollLoop \in Writers /\ writer' \in [Writers -> Writer]
  BY <1>2 DEF FeedTypeOK, Writer, Writers, Locked
<1>4. MuInv' /\ FramesInStoreOrder'
  <2>1. CASE writer' = writer
    BY <1>1, <2>1, OutsideFeed
  <2>2. CASE LoopIdle /\ writer' = [writer EXCEPT ![PollLoop].pc = "store"]
    <3>1. /\ ~Broadcasting(PollLoop) /\ writer'[PollLoop].pc = "store"
          /\ \A u \in Writers \ {PollLoop} : writer'[u] = writer[u]
      BY <1>3, <2>2 DEF FeedTypeOK, LoopIdle, Broadcasting
    <3> QED
      BY <1>1, <1>3, <3>1 DEF MuInv, FramesInStoreOrder, Broadcasting, Writers
  <2> QED
    BY <1>2, <2>1, <2>2
<1>5. /\ transitions' \in {{}, {0}, {1}}
      /\ active' \in BOOLEAN /\ linger' \in {"off", "armed", "fired"} /\ loopDone' \in BOOLEAN
      /\ main' \in {"serving", "stopping", "draining", "closed"}
  <2>1. CASE takeTransition
    BY <2>1 DEF takeTransition, FeedTypeOK
  <2>2. CASE LingerFires \/ takeLinger \/ tick \/ LoopReturns
    BY <2>2 DEF LingerFires, takeLinger, tick, LoopReturns, FeedTypeOK, hubVars, loopVars
  <2>3. CASE Cancel \/ WorkersStopped \/ Drained
    BY <2>3 DEF Cancel, WorkersStopped, Drained, FeedTypeOK, hubVars, loopVars
  <2> QED
    BY <2>1, <2>2, <2>3
<1>6. FeedTypeOK'
  BY <1>1, <1>3, <1>5 DEF FeedTypeOK, streamVars, Writer
<1>7. LoopFollowsViewers'
  <2>1. CASE takeTransition
    <3>1. transitions \in {{0}, {1}} /\ transitions' = {}
      BY <2>1 DEF takeTransition, FeedTypeOK
    <3>2. CASE transitions = {1}
      BY <1>1, <2>1, <3>1, <3>2 DEF takeTransition, LoopFollowsViewers
    <3>3. CASE transitions = {0}
      BY <1>1, <2>1, <3>1, <3>3 DEF takeTransition, LoopFollowsViewers, FeedTypeOK
    <3> QED
      BY <3>1, <3>2, <3>3
  <2>2. CASE LingerFires \/ takeLinger \/ tick \/ LoopReturns
    BY <1>1, <2>2 DEF LingerFires, takeLinger, tick, LoopReturns, LoopFollowsViewers, hubVars, loopVars
  <2>3. CASE Cancel \/ WorkersStopped \/ Drained
    BY <1>1, <2>3 DEF Cancel, WorkersStopped, Drained, LoopFollowsViewers, hubVars, loopVars
  <2> QED
    BY <2>1, <2>2, <2>3
<1> QED
  BY <1>4, <1>6, <1>7

LEMMA FeedNextInv == FeedInv /\ [Next]_vars => FeedInv'
<1> SUFFICES ASSUME FeedInv, [Next]_vars PROVE FeedInv'
  OBVIOUS
<1>1. ASSUME NEW w \in Writers, Publish(w) \/ Write(w) PROVE FeedInv'
  BY <1>1, PublishInv, WriteInv
<1>2. ASSUME NEW v \in Viewers, register(v) \/ unregister(v) PROVE FeedInv'
  BY <1>2, registerInv, unregisterInv
<1>3. ASSUME NEW v \in Viewers,
             \/ Connect(v) \/ writeFrame(v) \/ ping(v) \/ UnregisterDone(v)
             \/ (\E closed \in BOOLEAN : Released(v, closed)) \/ Vanish(v) \/ Revoke(v)
      PROVE FeedInv'
  BY <1>3, ServeHTTPInv
<1>4. CASE fanOut \/ HubReturns
  BY <1>4, fanOutInv, HubReturnsInv
<1>5. CASE takeTransition \/ LingerFires \/ takeLinger \/ tick \/ LoopReturns
             \/ Cancel \/ WorkersStopped \/ Drained
  BY <1>5, LoopInv
<1>6. CASE UNCHANGED vars
  <2>1. UNCHANGED <<hubVars, writeVars, loopVars, main>> /\ UNCHANGED streamVars
    BY <1>6 DEF vars
  <2> QED
    BY <2>1, StreamInv DEF streamVars, FeedInv, FeedTypeOK, Channel
<1> QED
  BY <1>1, <1>2, <1>3, <1>4, <1>5, <1>6 DEF Next

LEMMA FeedInvariant == SafeSpec => []FeedInv
  BY FeedInitInv, FeedNextInv, PTL DEF SafeSpec

\* The feed's state keeps its types: no channel ever holds more than one value.
THEOREM FeedTypeCorrect == SafeSpec => []FeedTypeOK
<1>1. FeedInv => FeedTypeOK
  BY DEF FeedInv
<1> QED
  BY <1>1, FeedInvariant, PTL

\* What refreshOnce and RefreshGroups broadcast is what the store holds.
THEOREM FramesOrdered == SafeSpec => []FramesInStoreOrder
<1>1. FeedInv => FramesInStoreOrder
  BY DEF FeedInv
<1> QED
  BY <1>1, FeedInvariant, PTL

\* The poll loop and the hub agree on whether anybody watches, whatever the
\* latest-wins channel between them has dropped.
THEOREM LoopIsRight == SafeSpec => []LoopFollowsViewers
<1>1. FeedInv => LoopFollowsViewers
  BY DEF FeedInv
<1> QED
  BY <1>1, FeedInvariant, PTL
=============================================================================
