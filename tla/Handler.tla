------------------------------- MODULE Handler -------------------------------
(***************************************************************************)
(* The Handler of handler.rs and the connect() of veq.rs, for one session  *)
(* id: its four maps, the connect() calls that use that id one after       *)
(* another or at once, the SessionReady futures they wait on, the close    *)
(* tasks, and the receive loop that runs handle_incoming.                  *)
(*                                                                         *)
(* Every step is what one lock of one map protects, so all interleavings   *)
(* of the tasks at their awaits happen.  The maps share nothing between    *)
(* ids, so each map is one slot: the connection whose entry it holds.  A   *)
(* connection stands for its one_time_id.                                  *)
(*                                                                         *)
(* Whether a handshake packet decrypts is a property of the packet here    *)
(* (Handshake has the keys); BadPackets lets some not decrypt.             *)
(***************************************************************************)
EXTENDS Naturals, FiniteSets

CONSTANTS Conns,       \* calls of connect() with this id
          None,        \* an empty slot
          Cancels,     \* TRUE: connect() futures may be dropped
          Overlap,     \* TRUE: connect() while an earlier one is in use
          BadPackets,  \* TRUE: handshake packets that do not decrypt
          Preemptive   \* TRUE: multi-thread runtime

ASSUME NoneAssumption == None \notin Conns
ASSUME ModeAssumption == {Cancels, Overlap, BadPackets, Preemptive} \subseteq BOOLEAN

Maps == {"established", "responder", "poker", "initiator"}

\* The order in which remove_session visits the maps.
RemoveOrder == <<"established", "responder", "poker", "initiator">>

Kinds == {"initiation", "response", "keepalive", "other"}

VARIABLES slot,       \* the entry of each map
          looping,    \* connections whose send loop (JoinHandle) runs
          live,       \* connections whose Session exists and is not dead
          pc,         \* where each connect() or its handle is
          role,       \* the map each connect() inserts into
          walk,       \* next map of the remove_session of connect(), or 5
          closing,    \* next map of its close task: 0 none, 5 finished
          announced,  \* connections whose broadcast has been sent
          registered, \* connections whose SessionReady pushed its waker
          notified,   \* connections whose task will be polled again
          rx,         \* the receive loop, inside handle_incoming
          died        \* history: connections whose watchdog gave up

vars == <<slot, looping, live, pc, role, walk, closing, announced,
          registered, notified, rx, died>>

Waiting == {"poll", "unready", "parked"}
Finished == {"new", "closed", "failed", "cancelled"}

TypeOK ==
    /\ slot \in [Maps -> Conns \cup {None}]
    /\ looping \subseteq Conns /\ live \subseteq Conns
    /\ pc \in [Conns -> Waiting \cup Finished
                        \cup {"removing", "prepare", "spawned", "ready", "open"}]
    /\ role \in [Conns -> {"initiator", "poker"}]
    /\ walk \in [Conns -> 1..5] /\ closing \in [Conns -> 0..5]
    /\ announced \subseteq Conns /\ registered \subseteq Conns
    /\ notified \subseteq Conns /\ died \subseteq Conns
    /\ rx \in [step : {"idle", "look", "hold", "upgrade", "announce", "wake"},
               map : Maps, held : Conns \cup {None}, kind : Kinds,
               good : BOOLEAN]

\* The receive loop goes on with the next packet.
RxIdle == [step |-> "idle", map |-> "poker", held |-> None,
           kind |-> "other", good |-> TRUE]

Init ==
    /\ slot = [m \in Maps |-> None]
    /\ looping = {} /\ live = {}
    /\ pc = [c \in Conns |-> "new"]
    /\ role \in [Conns -> {"initiator", "poker"}]
    /\ walk = [c \in Conns |-> 1] /\ closing = [c \in Conns |-> 0]
    /\ announced = {} /\ registered = {} /\ notified = {}
    /\ died = {}
    /\ rx = RxIdle

-----------------------------------------------------------------------------
\* Mutated forms of the definitions below, for the mutation runs.
RemoveAnyway(m, k) ==
    /\ slot' = [slot EXCEPT ![m] = None]
    /\ looping' = looping \ {slot[m]}
    /\ live' = live \ {slot[m]}
RecvFromRemoves(c) ==
    /\ pc[c] = "open" /\ slot["established"] # None
    /\ slot' = [slot EXCEPT !["established"] = None]
    /\ live' = live \ {slot["established"]}
    /\ UNCHANGED <<looping, pc, role, walk, closing, announced, registered,
                   notified, rx, died>>
RemovePendingOnly(m, k) ==
    IF (k = None \/ slot[m] = k) /\ m # "established"
    THEN /\ slot' = [slot EXCEPT ![m] = None]
         /\ looping' = looping \ {slot[m]}
         /\ live' = live \ {slot[m]}
    ELSE UNCHANGED <<slot, looping, live>>
TakeByGet ==
    /\ rx.step = "look" /\ rx.map # "established" /\ slot[rx.map] # None
    /\ rx' = [rx EXCEPT !.step = "hold", !.held = slot[rx.map]]
    /\ UNCHANGED <<slot, looping, live, pc, role, walk, closing, announced,
                   registered, notified, died>>
PutBackDropped ==
    /\ rx' = RxIdle
    /\ UNCHANGED slot
HoldInitiatorNoAbort ==
    /\ rx.step = "hold" /\ rx.map = "initiator"
    /\ IF rx.kind = "response" /\ rx.good
       THEN rx' = [rx EXCEPT !.step = "upgrade"] /\ UNCHANGED slot
       ELSE slot' = [slot EXCEPT ![rx.map] = rx.held] /\ rx' = RxIdle
    /\ UNCHANGED <<looping, live, pc, role, walk, closing, announced,
                   registered, notified, died>>
WakeCurrentEntry ==
    /\ rx.step = "wake"
    /\ notified' = notified \cup {slot["established"]}
    /\ rx' = RxIdle
    /\ UNCHANGED <<slot, looping, live, pc, role, walk, closing, announced,
                   registered, died>>
ParkWithoutWaker(c) ==
    /\ pc[c] = "unready"
    /\ pc' = [pc EXCEPT ![c] = "parked"]
    /\ UNCHANGED <<slot, looping, live, role, walk, closing, announced,
                   registered, notified, rx, died>>

-----------------------------------------------------------------------------
\* One block of remove_session: the entry of map m goes if k is None or its
\* one_time_id.  A pending entry's loop is aborted, a Session dropped.
Remove(m, k) ==
    IF k = None \/ slot[m] = k
    THEN /\ slot' = [slot EXCEPT ![m] = None]
         /\ looping' = looping \ {slot[m]}
         /\ live' = live \ {slot[m]}
    ELSE UNCHANGED <<slot, looping, live>>

\* connect(): is_initiator has chosen role[c]; initiate() and respond() begin
\* with remove_session(id, None).
Connect(c) ==
    /\ pc[c] = "new"
    /\ Overlap \/ \A d \in Conns : pc[d] \in Finished
    /\ pc' = [pc EXCEPT ![c] = "removing"]
    /\ UNCHANGED <<slot, looping, live, role, walk, closing, announced,
                   registered, notified, rx, died>>

ConnectRemove(c) ==
    /\ pc[c] = "removing"
    /\ Remove(RemoveOrder[walk[c]], None)
    /\ walk' = [walk EXCEPT ![c] = @ + 1]
    /\ pc' = [pc EXCEPT ![c] = IF walk[c] = 4 THEN "prepare" ELSE @]
    /\ UNCHANGED <<role, closing, announced, registered, notified, rx, died>>

\* The handshake state is built and the send loop spawned ...
Prepare(c) ==
    /\ pc[c] = "prepare"
    /\ looping' = looping \cup {c}
    /\ pc' = [pc EXCEPT ![c] = "spawned"]
    /\ UNCHANGED <<slot, live, role, walk, closing, announced, registered,
                   notified, rx, died>>

\* ... or the peer's public key is no key, and connect() returns an error.
PrepareFails(c) ==
    /\ pc[c] = "prepare"
    /\ pc' = [pc EXCEPT ![c] = "failed"]
    /\ UNCHANGED <<slot, looping, live, role, walk, closing, announced,
                   registered, notified, rx, died>>

\* The entry goes into its map.  An entry that got there meanwhile is
\* dropped, which does not stop its loop: a dropped JoinHandle detaches.
Insert(c) ==
    /\ pc[c] = "spawned"
    /\ slot' = [slot EXCEPT ![role[c]] = c]
    /\ pc' = [pc EXCEPT ![c] = "poll"]
    /\ UNCHANGED <<looping, live, role, walk, closing, announced, registered,
                   notified, rx, died>>

\* On a current-thread runtime SessionReady::poll and the announce-and-wake
\* of upgrade_session, which have no await, exclude each other.
PollMayStart == Preemptive \/ rx.step # "wake"
AnnounceMayStart == Preemptive \/ \A c \in Conns : pc[c] # "unready"

\* SessionReady::poll: try_recv ...
PollReady(c) ==
    /\ pc[c] = "poll" /\ PollMayStart
    /\ pc' = [pc EXCEPT ![c] = IF c \in announced THEN "ready" ELSE "unready"]
    /\ UNCHANGED <<slot, looping, live, role, walk, closing, announced,
                   registered, notified, rx, died>>

\* ... and, when there was nothing, push the waker (once) and sleep.
PollPending(c) ==
    /\ pc[c] = "unready"
    /\ registered' = registered \cup {c}
    /\ pc' = [pc EXCEPT ![c] = "parked"]
    /\ UNCHANGED <<slot, looping, live, role, walk, closing, announced,
                   notified, rx, died>>

Woken(c) ==
    /\ pc[c] = "parked" /\ c \in notified
    /\ notified' = notified \ {c}
    /\ pc' = [pc EXCEPT ![c] = "poll"]
    /\ UNCHANGED <<slot, looping, live, role, walk, closing, announced,
                   registered, rx, died>>

\* remote_addr(id): whichever session the map holds now gives its address.
RemoteAddr(c) ==
    /\ pc[c] = "ready"
    /\ pc' = [pc EXCEPT ![c] = IF slot["established"] = None THEN "failed" ELSE "open"]
    /\ UNCHANGED <<slot, looping, live, role, walk, closing, announced,
                   registered, notified, rx, died>>

\* The connect() future is dropped.  Only while it waits is there a
\* SessionReady whose Drop starts a close task: before, there is none; after,
\* it is marked completed.
Cancel(c) ==
    /\ Cancels
    /\ pc[c] \in {"removing", "spawned", "poll", "parked", "ready"}
    /\ pc' = [pc EXCEPT ![c] = "cancelled"]
    /\ closing' = [closing EXCEPT ![c] = IF pc[c] \in Waiting THEN 1 ELSE @]
    /\ UNCHANGED <<slot, looping, live, role, walk, announced, registered,
                   notified, rx, died>>

\* The last clone of the session handle is dropped: a close task starts.
DropHandle(c) ==
    /\ pc[c] = "open"
    /\ pc' = [pc EXCEPT ![c] = "closed"]
    /\ closing' = [closing EXCEPT ![c] = 1]
    /\ UNCHANGED <<slot, looping, live, role, walk, announced, registered,
                   notified, rx, died>>

\* close_session's task: remove_session(id, Some(one_time_id)).
CloseStep(c) ==
    /\ closing[c] \in 1..4
    /\ Remove(RemoveOrder[closing[c]], c)
    /\ closing' = [closing EXCEPT ![c] = @ + 1]
    /\ UNCHANGED <<pc, role, walk, announced, registered, notified, rx, died>>

\* The watchdog of an established session declares it dead.
SessionDies(c) ==
    /\ c \in live
    /\ live' = live \ {c} /\ died' = died \cup {c}
    /\ UNCHANGED <<slot, looping, pc, role, walk, closing, announced,
                   registered, notified, rx>>

\* recv() on the handle of c, that is recv_from(id): a dead session found
\* under the id is removed, whoever connected it.
RecvFrom(c) ==
    /\ pc[c] = "open"
    /\ slot["established"] # None /\ slot["established"] \notin live
    /\ slot' = [slot EXCEPT !["established"] = None]
    /\ UNCHANGED <<looping, live, pc, role, walk, closing, announced,
                   registered, notified, rx, died>>

-----------------------------------------------------------------------------
\* A packet for this id: handle_incoming looks through the maps in the order
\* poker, initiator, responder, established.
Arrive(kind, good) ==
    /\ rx.step = "idle"
    /\ BadPackets \/ good
    /\ rx' = [rx EXCEPT !.step = "look", !.kind = kind, !.good = good]
    /\ UNCHANGED <<slot, looping, live, pc, role, walk, closing, announced,
                   registered, notified, died>>

\* Nothing here: on to the next map.  An established session handles the
\* packet under the lock (module Session).
LookFurther ==
    /\ rx.step = "look"
    /\ rx.map = "established" \/ slot[rx.map] = None
    /\ rx' = CASE rx.map = "poker" -> [rx EXCEPT !.map = "initiator"]
               [] rx.map = "initiator" -> [rx EXCEPT !.map = "responder"]
               [] rx.map = "responder" -> [rx EXCEPT !.map = "established"]
               [] OTHER -> RxIdle
    /\ UNCHANGED <<slot, looping, live, pc, role, walk, closing, announced,
                   registered, notified, died>>

\* The entry is removed from its map and held while it handles the packet.
Take ==
    /\ rx.step = "look" /\ rx.map # "established" /\ slot[rx.map] # None
    /\ rx' = [rx EXCEPT !.step = "hold", !.held = slot[rx.map]]
    /\ slot' = [slot EXCEPT ![rx.map] = None]
    /\ UNCHANGED <<looping, live, pc, role, walk, closing, announced,
                   registered, notified, died>>

\* The entry goes back where it was.
PutBack ==
    /\ slot' = [slot EXCEPT ![rx.map] = rx.held]
    /\ rx' = RxIdle

\* A poker that gets an initiation becomes a responder, with a loop of its
\* own; when the initiation does not decrypt, responder() fails and the entry
\* is dropped, its loop aborted.
HoldPoker ==
    /\ rx.step = "hold" /\ rx.map = "poker"
    /\ CASE rx.kind # "initiation" -> PutBack /\ UNCHANGED looping
         [] rx.kind = "initiation" /\ rx.good ->
                /\ slot' = [slot EXCEPT !["responder"] = rx.held]
                /\ rx' = RxIdle
                /\ UNCHANGED looping
         [] OTHER ->
                /\ looping' = looping \ {rx.held}
                /\ rx' = RxIdle
                /\ UNCHANGED slot
    /\ UNCHANGED <<live, pc, role, walk, closing, announced, registered,
                   notified, died>>

\* An initiator that gets a response aborts its loop; when the response does
\* not decrypt it goes back into the map, its loop still aborted.  (The Err
\* arms here and in HoldResponder are not reached: past the decryption,
\* session() fails only if the handshake is unfinished or a keepalive cannot
\* be serialised.)
HoldInitiator ==
    /\ rx.step = "hold" /\ rx.map = "initiator"
    /\ CASE rx.kind # "response" -> PutBack /\ UNCHANGED looping
         [] rx.kind = "response" /\ rx.good ->
                /\ looping' = looping \ {rx.held}
                /\ rx' = [rx EXCEPT !.step = "upgrade"]
                /\ UNCHANGED slot
         [] OTHER -> PutBack /\ looping' = looping \ {rx.held}
    /\ UNCHANGED <<live, pc, role, walk, closing, announced, registered,
                   notified, died>>

\* A responder that gets a keepalive becomes a session.
HoldResponder ==
    /\ rx.step = "hold" /\ rx.map = "responder"
    /\ IF rx.kind = "keepalive" /\ rx.good
       THEN /\ looping' = looping \ {rx.held}
            /\ rx' = [rx EXCEPT !.step = "upgrade"]
            /\ UNCHANGED slot
       ELSE PutBack /\ UNCHANGED looping
    /\ UNCHANGED <<live, pc, role, walk, closing, announced, registered,
                   notified, died>>

\* upgrade_session: the session goes into the map; one that was there is
\* dropped and so dies ...
Upgrade ==
    /\ rx.step = "upgrade"
    /\ slot' = [slot EXCEPT !["established"] = rx.held]
    /\ live' = (live \ {slot["established"]}) \cup {rx.held}
    /\ rx' = [rx EXCEPT !.step = "announce"]
    /\ UNCHANGED <<looping, pc, role, walk, closing, announced, registered,
                   notified, died>>

\* ... the broadcast is sent, which fails when no SessionReady is left ...
Announce ==
    /\ rx.step = "announce" /\ AnnounceMayStart
    /\ IF pc[rx.held] \in Waiting
       THEN /\ announced' = announced \cup {rx.held}
            /\ rx' = [rx EXCEPT !.step = "wake"]
       ELSE rx' = RxIdle /\ UNCHANGED announced
    /\ UNCHANGED <<slot, looping, live, pc, role, walk, closing, registered,
                   notified, died>>

\* ... and the registered wakers are woken.
WakeReady ==
    /\ rx.step = "wake"
    /\ notified' = notified \cup ({rx.held} \cap registered)
    /\ rx' = RxIdle
    /\ UNCHANGED <<slot, looping, live, pc, role, walk, closing, announced,
                   registered, died>>

-----------------------------------------------------------------------------
HandleIncoming ==
    \/ LookFurther \/ Take
    \/ HoldPoker \/ HoldInitiator \/ HoldResponder
    \/ Upgrade \/ Announce \/ WakeReady

Connecting(c) ==
    \/ ConnectRemove(c) \/ Prepare(c) \/ PrepareFails(c) \/ Insert(c)
    \/ PollReady(c) \/ PollPending(c) \/ Woken(c) \/ RemoteAddr(c)

Next ==
    \/ \E k \in Kinds, good \in BOOLEAN : Arrive(k, good)
    \/ HandleIncoming
    \/ \E c \in Conns : \/ Connect(c) \/ Connecting(c) \/ Cancel(c)
                        \/ DropHandle(c) \/ CloseStep(c)
                        \/ SessionDies(c) \/ RecvFrom(c)

\* The runtime runs every task that can run.  Nothing is assumed of users,
\* of the watchdog and of the network.
Fairness ==
    /\ WF_vars(HandleIncoming)
    /\ \A c \in Conns : WF_vars(Connecting(c)) /\ WF_vars(CloseStep(c))

Spec == Init /\ [][Next]_vars /\ Fairness

-----------------------------------------------------------------------------
InMap(c) == \E m \in Maps : slot[m] = c
Held(c) == rx.held = c /\ rx.step \in {"hold", "upgrade"}

\* However connects, close tasks and packets interleave, a connection is in
\* one place: one map, or in the hands of handle_incoming.
OneHome ==
    \A c \in Conns :
        /\ Held(c) => ~InMap(c)
        /\ \A m, n \in Maps : slot[m] = c /\ slot[n] = c => m = n

\* When the close task of a dropped handle has finished, nothing of the
\* connection is left: no entry, no loop, no live session.  remove_session
\* visits the maps against the direction in which entries are promoted.
DroppedHandleReleased ==
    \A c \in Conns :
        pc[c] = "closed" /\ closing[c] = 5
            => ~InMap(c) /\ ~Held(c) /\ c \notin looping /\ c \notin live

\* A connect() that waits has an entry that can still become a session, or
\* has been told.
NoOrphanWaiter ==
    \A c \in Conns :
        pc[c] \in Waiting /\ c \notin announced
            => InMap(c) \/ Held(c) \/ (rx.step = "announce" /\ rx.held = c)

\* A pending entry keeps sending its handshake packet.
PendingKeepsSending ==
    \A m \in Maps \ {"established"} : slot[m] # None => slot[m] \in looping

\* A send loop belongs to an entry that can be removed: none runs on alone.
NoOrphanLoop ==
    \A c \in looping :
        \/ \E m \in Maps \ {"established"} : slot[m] = c
        \/ Held(c) \/ pc[c] = "spawned"

\* Send loops and pending entries go together across every take, put-back,
\* promotion and removal: a connect() is never waiting in silence, and no loop
\* sends for a connection that nobody can abort.
LoopsMatchEntries == PendingKeepsSending /\ NoOrphanLoop

\* A session that connect() returned stays in the map until its handle is
\* dropped or its watchdog gives up: the close task of an earlier connection
\* with the same id spares it (one_time_id).
HandleKeepsSession ==
    \A c \in Conns :
        pc[c] \in {"ready", "open"} /\ c \notin died => slot["established"] = c

\* A session in the map has an owner: a connect() about to return it, a
\* handle, or a close task that has yet to look at the map.  Only a connect()
\* that was dropped can leave one behind that nobody will close: its close
\* task may have passed the map before upgrade_session filled it, or there is
\* none, because SessionReady was complete and no handle made yet.
EstablishedOwned ==
    \A c \in Conns :
        slot["established"] = c
            => pc[c] \in Waiting \cup {"ready", "open", "cancelled"} \/ closing[c] = 1

\* A session that is alive leaves the map by its own close task, by a new
\* connect() or by a later session of the id, never by the close task of
\* another handle, by its recv() (recv_from knows the id only) or by a
\* connect() that is dropped.
SessionSpared ==
    [][\A c \in Conns :
          slot["established"] = c /\ c \in live /\ slot'["established"] # c
              => \/ closing[c] = 1 /\ closing'[c] = 2
                 \/ \E d \in Conns : walk[d] = 1 /\ walk'[d] = 2
                 \/ rx.step = "upgrade" /\ rx'.step = "announce"]_vars

\* A connect() whose session has been announced returns.
ReadyDelivered ==
    \A c \in Conns :
        (pc[c] \in Waiting /\ c \in announced) ~> (pc[c] \notin Waiting)
=============================================================================
