-------------------------------- MODULE Feed --------------------------------
(***************************************************************************)
(* How a snapshot reaches the browsers: the writers of the snapshot store  *)
(* with their broadcasts (internal/poller), the hub and its streams        *)
(* (internal/sse), the idle-aware poll loop that the hub switches on and   *)
(* off (Poller.Run), and the shutdown of all three (cmd/tsctl).            *)
(*                                                                         *)
(* A snapshot is its stamp: the stores are divided into consecutive runs,  *)
(* and the stamp says in which run a snapshot was stored.  So a bounded    *)
(* number of stamps stands for any number of snapshots.                    *)
(*                                                                         *)
(* A channel of capacity 1 is the set of what is in it.  send and emit are *)
(* one step although they drop and put in two: Hub.Run is the only sender  *)
(* on those channels, and the one reader can only take the old value       *)
(* before or after.  Broadcast has many callers, so its three selects are  *)
(* three steps.                                                            *)
(*                                                                         *)
(* Left out: the encoding of a frame (it marshals plain values and cannot  *)
(* fail), and pings that find nothing wrong, which change nothing.         *)
(***************************************************************************)
EXTENDS Naturals

CONSTANTS
  Viewers,      \* browsers
  Guests,       \* those of them with a guest's session
  PollLoop,     \* the writer in Poller.Run: refreshOnce
  ZoneEdits,    \* writers in RefreshGroups
  Requests,     \* writers in SetExitNode, Keep and Probe
  Nobody,
  MaxStamp,     \* bounds of the model: stamps,
  MaxRequests   \* requests and zone edits made

Locked == ZoneEdits \cup {PollLoop}    \* writers that broadcast under Poller.mu
Writers == Locked \cup Requests
Stamps == 0..MaxStamp
NoFrame == 0                           \* no frame yet, or one of the first run

ASSUME FeedAssumption ==
  /\ Guests \subseteq Viewers
  /\ PollLoop \notin ZoneEdits \cup Requests /\ ZoneEdits \cap Requests = {}
  /\ Nobody \notin Writers
  /\ MaxStamp \in Nat /\ MaxRequests \in Nat

VARIABLES
  published,    \* the snapshot store
  mu,           \* who broadcasts while holding Poller.mu
  writer,       \* writer[w].pc: where w is; writer[w].frame: what it stored
  queue,        \* Hub.broadcast
  transitions,  \* Hub.transitions
  clients,      \* the hub's client set
  stream,       \* stream[v]: v's ServeHTTP goroutine
  vanished,     \* viewers whose peer is gone without a FIN: writes fail
  revoked,      \* guests disabled or deleted
  ch,           \* ch[v]: client.ch
  shown,        \* shown[v]: the last frame written to v
  active,       \* Poller.Run: polling, with a ticker
  linger,       \* Poller.Run: the linger timer
  hubDone, loopDone,   \* Hub.Run, Poller.Run have returned
  main,         \* the composition root
  budget        \* requests still to be made

hubVars == <<clients, transitions, hubDone>>
streamVars == <<stream, vanished, revoked, ch, shown>>
writeVars == <<published, mu, writer, queue, budget>>
loopVars == <<active, linger, loopDone>>
vars == <<hubVars, streamVars, writeVars, loopVars, main>>

\* Types; a channel never holds more than its capacity.
FeedTypeOK ==
  /\ published \in Stamps
  /\ mu \in Locked \cup {Nobody}
  /\ writer \in [Writers -> [pc : {"idle", "store", "try", "drop", "put"}, frame : Stamps]]
  /\ queue \in {{}} \cup {{n} : n \in Stamps}
  /\ transitions \in {{}, {0}, {1}}
  /\ clients \subseteq Viewers
  /\ stream \in [Viewers -> {"off", "joining", "open", "leaving"}]
  /\ vanished \subseteq Viewers
  /\ revoked \subseteq Guests
  /\ ch \in [Viewers -> {{}} \cup {{n} : n \in Stamps}]
  /\ shown \in [Viewers -> Stamps]
  /\ active \in BOOLEAN
  /\ linger \in {"off", "armed", "fired"}
  /\ hubDone \in BOOLEAN /\ loopDone \in BOOLEAN
  /\ main \in {"serving", "stopping", "draining", "closed"}
  /\ budget \in 0..MaxRequests

Init ==
  /\ published = 0
  /\ mu = Nobody
  /\ writer = [w \in Writers |-> [pc |-> "idle", frame |-> 0]]
  /\ queue = {}
  /\ transitions = {}
  /\ clients = {}
  /\ stream = [v \in Viewers |-> "off"]
  /\ vanished = {}
  /\ revoked = {}
  /\ ch = [v \in Viewers |-> {}]
  /\ shown = [v \in Viewers |-> NoFrame]
  /\ active = FALSE
  /\ linger = "off"
  /\ hubDone = FALSE /\ loopDone = FALSE
  /\ main = "serving"
  /\ budget = MaxRequests

-----------------------------------------------------------------------------
(* The writers.  refreshOnce and RefreshGroups store and broadcast under   *)
(* mu; the requests store under mu, release it and then broadcast.         *)

\* The poll is ready to publish, or a request or a zone edit is.
Ready(w) ==
  IF w = PollLoop THEN writer[w].pc = "store" /\ UNCHANGED budget
  ELSE /\ writer[w].pc = "idle"
       /\ main = "serving"
       /\ budget > 0
       /\ budget' = budget - 1

\* Fault: refreshOnce and RefreshGroups release mu before they broadcast.
Publish_Unlocked(w) ==
  /\ mu = Nobody
  /\ Ready(w)
  /\ \E n \in {published, published + 1} \cap Stamps :
       /\ published' = n
       /\ writer' = [writer EXCEPT ![w] = [pc |-> "try", frame |-> n]]
  /\ UNCHANGED <<mu, queue, hubVars, streamVars, loopVars, main>>

\* mu.Lock, Store of the new snapshot, and mu.Unlock by the requests.
Publish(w) ==
  /\ mu = Nobody
  /\ Ready(w)
  /\ \E n \in {published, published + 1} \cap Stamps :
       /\ published' = n
       /\ mu' = IF w \in Locked THEN w ELSE Nobody
       /\ writer' = [writer EXCEPT ![w] = [pc |-> "try", frame |-> n]]
  /\ UNCHANGED <<queue, hubVars, streamVars, loopVars, main>>

\* Broadcast returns; the caller releases mu if it holds it.
Return(w) ==
  /\ writer' = [writer EXCEPT ![w] = [pc |-> "idle", frame |-> 0]]
  /\ mu' = IF mu = w THEN Nobody ELSE mu

\* Broadcast: put, unless the channel is full.
Try(w) ==
  /\ writer[w].pc = "try"
  /\ \/ /\ queue = {}
        /\ queue' = {writer[w].frame}
        /\ Return(w)
     \/ /\ queue # {}
        /\ writer' = [writer EXCEPT ![w].pc = "drop"]
        /\ UNCHANGED <<mu, queue>>
  /\ UNCHANGED <<published, budget, hubVars, streamVars, loopVars, main>>

\* Broadcast: take the stale frame out.
Drop(w) ==
  /\ writer[w].pc = "drop"
  /\ queue' = {}
  /\ writer' = [writer EXCEPT ![w].pc = "put"]
  /\ UNCHANGED <<published, mu, budget, hubVars, streamVars, loopVars, main>>

\* Broadcast: put, unless another caller was faster.
Put(w) ==
  /\ writer[w].pc = "put"
  /\ queue' = IF queue = {} THEN {writer[w].frame} ELSE queue
  /\ Return(w)
  /\ UNCHANGED <<published, budget, hubVars, streamVars, loopVars, main>>

Write(w) == Try(w) \/ Drop(w) \/ Put(w)

-----------------------------------------------------------------------------
\* ServeHTTP returns: its goroutine, channel and connection are gone.
Gone(v) ==
  /\ stream' = [stream EXCEPT ![v] = "off"]
  /\ vanished' = vanished \ {v}
  /\ ch' = [ch EXCEPT ![v] = {}]
  /\ shown' = [shown EXCEPT ![v] = NoFrame]
  /\ UNCHANGED revoked

(* Hub.Run, the goroutine that owns the clients                            *)

\* Fault: emit gives up on a full channel instead of replacing its value.
emit_Drop(n) == transitions' = IF transitions = {} THEN {n} ELSE transitions

\* Fault: emit puts without making room.
emit_Full(n) == transitions' = transitions \cup {n}

\* emit: latest wins on the transitions.
emit(n) == transitions' = {n}

\* register: the hub takes the client, pushes the current snapshot and reports
\* the first client.
register(v) ==
  /\ ~hubDone
  /\ stream[v] = "joining"
  /\ clients' = clients \cup {v}
  /\ ch' = [ch EXCEPT ![v] = {published}]
  /\ IF clients = {} THEN emit(1) ELSE UNCHANGED transitions
  /\ stream' = [stream EXCEPT ![v] = "open"]
  /\ UNCHANGED <<hubDone, vanished, revoked, shown, writeVars, loopVars, main>>

\* unregister: the stream's deferred call; the last client is reported.
unregister(v) ==
  /\ ~hubDone
  /\ stream[v] = "leaving"
  /\ clients' = clients \ {v}
  /\ IF clients = {v} THEN emit(0) ELSE UNCHANGED transitions
  /\ Gone(v)
  /\ UNCHANGED <<hubDone, writeVars, loopVars, main>>

\* broadcast: send to every client, latest wins on each channel (nobody will
\* read the channel of one that is leaving).
fanOut ==
  /\ ~hubDone
  /\ queue # {}
  /\ ch' = [v \in Viewers |-> IF v \in clients /\ stream[v] = "open" THEN queue ELSE ch[v]]
  /\ queue' = {}
  /\ UNCHANGED <<stream, vanished, revoked, shown, published, mu, writer, budget, hubVars, loopVars, main>>

\* The context is cancelled: Run returns and closes done.
HubReturns ==
  /\ main # "serving" /\ ~hubDone
  /\ hubDone' = TRUE
  /\ clients' = {}
  /\ UNCHANGED <<transitions, streamVars, writeVars, loopVars, main>>

-----------------------------------------------------------------------------
(* Hub.ServeHTTP, one goroutine per stream                                 *)

\* RequireAuth lets a guest in only while it is valid.
Connect(v) ==
  /\ main \in {"serving", "stopping"}
  /\ stream[v] = "off" /\ v \notin revoked
  /\ stream' = [stream EXCEPT ![v] = "joining"]
  /\ UNCHANGED <<vanished, revoked, ch, shown, hubVars, writeVars, loopVars, main>>

\* The handler is on its way out and reads its channel no more.
Leave(v) ==
  /\ stream' = [stream EXCEPT ![v] = "leaving"]
  /\ ch' = [ch EXCEPT ![v] = {}]
  /\ UNCHANGED <<vanished, revoked, shown, hubVars, writeVars, loopVars, main>>

\* The request's context or the hub is done: the application is stopping, or
\* (closed) the browser has closed the connection.  Before the registration the
\* handler returns (503 if it is the hub), later it unregisters first.
Released(v, closed) ==
  /\ closed = (main = "serving")
  /\ \/ /\ stream[v] = "joining"
        /\ Gone(v)
        /\ UNCHANGED <<hubVars, writeVars, loopVars, main>>
     \/ /\ stream[v] = "open"
        /\ Leave(v)

\* writeFrame: the next frame, or a failing write.
writeFrame(v) ==
  /\ stream[v] = "open"
  /\ ch[v] # {}
  /\ \/ /\ v \notin vanished
        /\ ch' = [ch EXCEPT ![v] = {}]
        /\ shown' = [shown EXCEPT ![v] = CHOOSE n \in ch[v] : TRUE]
        /\ UNCHANGED <<stream, vanished, revoked, hubVars, writeVars, loopVars, main>>
     \/ /\ v \in vanished
        /\ Leave(v)

\* Fault: the heartbeat does not re-check a guest.
ping_NoRevalidate(v) ==
  /\ stream[v] = "open"
  /\ v \in vanished
  /\ Leave(v)

\* The heartbeat of a guest that is no longer valid, or of a peer that is gone.
ping(v) ==
  /\ stream[v] = "open"
  /\ v \in revoked \cup vanished
  /\ Leave(v)

\* Fault: the deferred unregister waits for the hub only.
UnregisterDone_Waits(v) == FALSE /\ UNCHANGED vars

\* The deferred unregister when the hub has returned.
UnregisterDone(v) ==
  /\ stream[v] = "leaving" /\ hubDone
  /\ Gone(v)
  /\ UNCHANGED <<hubVars, writeVars, loopVars, main>>

\* The browser vanishes: every write to it runs into its deadline.
Vanish(v) ==
  /\ stream[v] \in {"joining", "open"} /\ v \notin vanished
  /\ vanished' = vanished \cup {v}
  /\ UNCHANGED <<stream, revoked, ch, shown, hubVars, writeVars, loopVars, main>>

\* An administrator disables or deletes the guest, or deletes its zone.
Revoke(v) ==
  /\ v \in Guests \ revoked
  /\ revoked' = revoked \cup {v}
  /\ UNCHANGED <<stream, vanished, ch, shown, hubVars, writeVars, loopVars, main>>

-----------------------------------------------------------------------------
(* Poller.Run                                                              *)

LoopIdle == writer[PollLoop].pc = "idle" /\ ~loopDone

\* p.Refresh, run to its end before the next select.
Refresh == writer' = [writer EXCEPT ![PollLoop].pc = "store"]

\* Fault: the last viewer's leaving does not arm the linger timer.
takeTransition_NoLinger ==
  /\ LoopIdle
  /\ transitions # {}
  /\ transitions' = {}
  /\ \/ /\ transitions = {1}
        /\ linger' = "off"
        /\ active' = TRUE
        /\ IF active THEN UNCHANGED writer ELSE Refresh
     \/ /\ transitions = {0}
        /\ UNCHANGED <<active, linger, writer>>
  /\ UNCHANGED <<loopDone, clients, hubDone, streamVars, published, mu, queue, budget, main>>

\* The first viewer starts the polling and cancels a suspension (stopping and
\* draining the timer); the last one's leaving arms the linger timer.
takeTransition ==
  /\ LoopIdle
  /\ transitions # {}
  /\ transitions' = {}
  /\ \/ /\ transitions = {1}
        /\ linger' = "off"
        /\ active' = TRUE
        /\ IF active THEN UNCHANGED writer ELSE Refresh
     \/ /\ transitions = {0}
        /\ linger' = IF active /\ linger = "off" THEN "armed" ELSE linger
        /\ UNCHANGED <<active, writer>>
  /\ UNCHANGED <<loopDone, clients, hubDone, streamVars, published, mu, queue, budget, main>>

\* The timer puts its value into lingerC.
LingerFires ==
  /\ linger = "armed"
  /\ linger' = "fired"
  /\ UNCHANGED <<active, loopDone, hubVars, streamVars, writeVars, main>>

takeLinger ==
  /\ LoopIdle
  /\ linger = "fired"
  /\ active' = FALSE
  /\ linger' = "off"
  /\ UNCHANGED <<loopDone, hubVars, streamVars, writeVars, main>>

\* Fault: the ticker runs only while the loop lingers.
tick_Lingering ==
  /\ LoopIdle
  /\ linger # "off"
  /\ Refresh
  /\ UNCHANGED <<published, mu, queue, budget, hubVars, streamVars, loopVars, main>>

tick ==
  /\ LoopIdle
  /\ active
  /\ Refresh
  /\ UNCHANGED <<published, mu, queue, budget, hubVars, streamVars, loopVars, main>>

\* The context is cancelled; both timers are stopped.
LoopReturns ==
  /\ main # "serving" /\ LoopIdle
  /\ loopDone' = TRUE
  /\ active' = FALSE /\ linger' = "off"
  /\ UNCHANGED <<hubVars, streamVars, writeVars, main>>

-----------------------------------------------------------------------------
(* The composition root                                                    *)

\* A signal: appCancel.
Cancel ==
  /\ main = "serving"
  /\ main' = "stopping"
  /\ UNCHANGED <<hubVars, streamVars, writeVars, loopVars>>

\* wg.Wait returns; http.Server.Shutdown closes the listeners.
WorkersStopped ==
  /\ main = "stopping"
  /\ hubDone /\ loopDone
  /\ main' = "draining"
  /\ UNCHANGED <<hubVars, streamVars, writeVars, loopVars>>

\* Shutdown returns when no handler is running.  Its limit of 10 s is left
\* out: the drain is to end without it.
Drained ==
  /\ main = "draining"
  /\ \A v \in Viewers : stream[v] = "off"
  /\ \A w \in Writers : writer[w].pc = "idle"
  /\ main' = "closed"
  /\ UNCHANGED <<hubVars, streamVars, writeVars, loopVars>>

-----------------------------------------------------------------------------
Next ==
  \/ \E w \in Writers : Publish(w) \/ Write(w)
  \/ \E v \in Viewers :
       \/ register(v) \/ unregister(v)
       \/ Connect(v) \/ writeFrame(v) \/ ping(v) \/ UnregisterDone(v)
       \/ \E closed \in BOOLEAN : Released(v, closed)
       \/ Vanish(v) \/ Revoke(v)
  \/ fanOut \/ HubReturns
  \/ takeTransition \/ LingerFires \/ takeLinger \/ tick \/ LoopReturns
  \/ Cancel \/ WorkersStopped \/ Drained

SafeSpec == Init /\ [][Next]_vars

\* Goroutines run, a Go mutex is granted to every waiter, a select chooses among
\* its ready cases at random, timers fire.  Requests, browsers, revocations and
\* the shutdown signal are the environment's.
Fairness ==
  /\ WF_vars(Publish(PollLoop))
  /\ \A w \in Writers : WF_vars(Write(w))
  /\ \A v \in Viewers :
       /\ WF_vars(register(v)) /\ WF_vars(writeFrame(v)) /\ WF_vars(ping(v))
       /\ WF_vars(Released(v, FALSE)) /\ WF_vars(unregister(v) \/ UnregisterDone(v))
  /\ SF_vars(fanOut)
  /\ SF_vars(takeTransition) /\ SF_vars(takeLinger) /\ WF_vars(LingerFires)
  /\ WF_vars(tick)
  /\ SF_vars(LoopReturns) /\ WF_vars(HubReturns \/ WorkersStopped \/ Drained)

FairSpec == SafeSpec /\ Fairness

-----------------------------------------------------------------------------
(* Properties                                                              *)

\* refreshOnce and RefreshGroups broadcast the newest snapshot: while one of
\* them is in Broadcast nobody stores a newer one ("frame order == store order").
FramesInStoreOrder ==
  \A w \in Locked : writer[w].pc \in {"try", "drop", "put"} => writer[w].frame = published

\* The lossy channel between hub and poll loop loses nothing that matters: a
\* value waiting in it is true of the clients now, and when none is waiting the
\* loop polls if there is a client and is on its way to a suspension if not.
LoopFollowsViewers ==
  ~hubDone =>
    /\ \A n \in transitions : n = 1 <=> clients # {}
    /\ transitions = {} /\ ~loopDone =>
         IF clients # {} THEN active /\ linger = "off" ELSE active => linger # "off"

\* Whatever frames are dropped, overtaken or stored out of order by concurrent
\* broadcasts, an open stream gets every snapshot or a later one, once the
\* requests are over.
ViewersCatchUp ==
  \A v \in Viewers, n \in 1..MaxStamp :
    (stream[v] = "open" /\ published >= n) ~> (shown[v] \in n..MaxStamp \/ stream[v] # "open")

\* Without viewers the polling stops (unless one comes back).
PollingStops == (clients = {}) ~> (~active \/ clients # {})

\* The stream of a browser that vanished, or of a guest that was disabled or
\* deleted, ends, and so does every handler that is to unregister.
StreamsEnd ==
  \A v \in Viewers :
    (stream[v] = "leaving" \/ (stream[v] # "off" /\ v \in revoked \cup vanished)) ~> stream[v] = "off"

\* The shutdown never hangs on a stream, a broadcast or a poll.
ShutdownCompletes == (main = "stopping") ~> (main = "closed")
=============================================================================
