------------------------------- MODULE Session -------------------------------
(***************************************************************************)
(* An established Session of session.rs: the queue of received payloads,   *)
(* the tasks that wait on it through Receiving futures, the keepalive task *)
(* and the watchdog task that Session::new spawns.                         *)
(*                                                                         *)
(* The packets that reach handle_incoming have passed the transport        *)
(* (LossyTransport); what matters of a payload here is that it is there,   *)
(* so the queue is a count.  Intervals are abstracted to "some time later".*)
(*                                                                         *)
(* Preemptive selects the tokio runtime.  On the multi-thread one (the     *)
(* veq binary) another worker can run between any two steps; on the        *)
(* current-thread one (the tests) a stretch of code with no await runs to  *)
(* its end.  The stretches that matter are Receiving::poll, the send-and-  *)
(* wake of handle_incoming and the body of the watchdog loop.              *)
(***************************************************************************)
EXTENDS Naturals, FiniteSets, Functions

CONSTANTS Tasks,       \* user tasks that call recv()
          MaxId,       \* Receiving ids are 1..MaxId (Uuids in the code)
          MaxPayloads, \* bound on the payloads that arrive
          MaxDrops,    \* bound on the Receivings dropped while they wait
          Preemptive   \* TRUE: multi-thread runtime

ASSUME BoundsAssumption == {MaxId, MaxPayloads, MaxDrops} \subseteq Nat
\* A program has finitely many tasks, and the names of the other actors
\* (OthersIdle) are not theirs.
ASSUME TasksAssumption ==
    IsFiniteSet(Tasks) /\ {"rx", "dog", "keepalive", "user"} \cap Tasks = {}
ASSUME ModeAssumption == Preemptive \in BOOLEAN

VARIABLES heartbeat,  \* AtomicBool
          dead,       \* AtomicBool
          open,       \* the Session is in established_sessions, not dropped
          queue,      \* length of the crossbeam channel
          arrived,    \* payloads that have arrived so far
          wakers,     \* BTreeMap from Receiving id to the task of its waker
          pc,         \* where each task is in recv()
          rid,        \* id of the Receiving each task holds, or NoId
          notified,   \* tasks the runtime will poll again
          rx,         \* handle_incoming: "idle", or "queued" before its wake
          dog,        \* the watchdog task
          keepalive,  \* TRUE while the keepalive task runs
          peer,       \* TRUE while the peer sends
          silence,    \* history: the watchdog's loads since a keepalive came
                      \* outside the watchdog's body, where MaxSilence stands
                      \* for that many or more
          dropped     \* history: Receivings dropped while they waited

vars == <<heartbeat, dead, open, queue, arrived, wakers, pc, rid, notified,
          rx, dog, keepalive, peer, silence, dropped>>

Ids == 1..MaxId
NoId == 0
MaxSilence == 3

TypeOK ==
    /\ heartbeat \in BOOLEAN /\ dead \in BOOLEAN /\ open \in BOOLEAN
    /\ queue \in 0..MaxPayloads /\ arrived \in 0..MaxPayloads
    /\ DOMAIN wakers \subseteq Ids /\ Range(wakers) \subseteq Tasks
    /\ pc \in [Tasks -> {"idle", "poll", "checked", "got", "empty", "parked"}]
    /\ rid \in [Tasks -> Ids \cup {NoId}]
    /\ notified \subseteq Tasks
    /\ rx \in {"idle", "queued"}
    /\ dog \in {"waiting", "alive", "silent", "waking", "ended"}
    /\ keepalive \in BOOLEAN /\ peer \in BOOLEAN
    /\ silence \in 0..MaxSilence /\ dropped \in 0..MaxDrops

\* Actors that are inside a stretch of code with no await.
InPoll(t) == pc[t] \in {"checked", "got", "empty"}
InWatchdog == dog \in {"alive", "silent", "waking"}

\* On a current-thread runtime nobody else runs inside such a stretch.
OthersIdle(actor) ==
    \/ Preemptive
    \/ /\ \A t \in Tasks : t # actor => ~InPoll(t)
       /\ actor # "rx" => rx = "idle"
       /\ actor # "dog" => ~InWatchdog

Init ==
    /\ heartbeat = TRUE /\ dead = FALSE /\ open = TRUE
    /\ queue = 0 /\ arrived = 0
    /\ wakers = << >>
    /\ pc = [t \in Tasks |-> "idle"] /\ rid = [t \in Tasks |-> NoId]
    /\ notified = {}
    /\ rx = "idle" /\ dog = "waiting" /\ keepalive = TRUE
    /\ peer = TRUE /\ silence = 0 /\ dropped = 0

-----------------------------------------------------------------------------
\* Mutated forms of the definitions below, for the mutation runs.
WakeFirstPayloadOnly ==
    /\ OthersIdle("rx") /\ rx = "queued" /\ rx' = "idle"
    /\ IF queue = 1 /\ DOMAIN wakers # {}
       THEN LET first == CHOOSE i \in DOMAIN wakers : \A j \in DOMAIN wakers : i <= j
            IN  /\ wakers' = Restrict(wakers, DOMAIN wakers \ {first})
                /\ notified' = notified \cup {wakers[first]}
       ELSE UNCHANGED <<wakers, notified>>
    /\ UNCHANGED <<heartbeat, dead, open, queue, arrived, pc, rid, dog,
                   keepalive, peer, silence, dropped>>
WatchdogEndsSilently ==
    /\ OthersIdle("dog") /\ dog = "waking" /\ dog' = "ended"
    /\ UNCHANGED <<heartbeat, dead, open, queue, arrived, wakers, pc, rid,
                   notified, rx, keepalive, peer, silence, dropped>>
WatchdogForgetsReset ==
    /\ OthersIdle("dog") /\ dog = "alive" /\ dog' = "waiting"
    /\ UNCHANGED <<heartbeat, dead, open, queue, arrived, wakers, pc, rid,
                   notified, rx, keepalive, peer, silence, dropped>>
KeepaliveIgnored ==
    /\ open /\ peer /\ rx = "idle" /\ OthersIdle("rx")
    /\ silence' = IF InWatchdog THEN silence ELSE 0
    /\ UNCHANGED <<heartbeat, dead, open, queue, arrived, wakers, pc, rid,
                   notified, rx, dog, keepalive, peer, dropped>>
KeepaliveForever ==
    /\ keepalive /\ OthersIdle("keepalive")
    /\ UNCHANGED vars
TakeUnchecked(t) ==
    /\ OthersIdle(t) /\ pc[t] = "checked"
    /\ queue' = queue - 1 /\ pc' = [pc EXCEPT ![t] = "got"]
    /\ UNCHANGED <<heartbeat, dead, open, arrived, wakers, rid, notified, rx,
                   dog, keepalive, peer, silence, dropped>>
ParkUnregistered(t) ==
    /\ OthersIdle(t) /\ pc[t] = "empty"
    /\ pc' = [pc EXCEPT ![t] = "parked"]
    /\ IF \E i \in DOMAIN wakers : wakers[i] # t THEN UNCHANGED wakers
       ELSE wakers' = [i \in DOMAIN wakers \cup {rid[t]} |->
                           IF i = rid[t] THEN t ELSE wakers[i]]
    /\ UNCHANGED <<heartbeat, dead, open, queue, arrived, rid, notified, rx,
                   dog, keepalive, peer, silence, dropped>>

-----------------------------------------------------------------------------
\* handle_incoming on a Keepalive.  It does not look at dead.  Inside the
\* watchdog's body it comes too late: it is cleared, or the verdict is reached.
HandleKeepalive ==
    /\ open /\ peer /\ rx = "idle" /\ OthersIdle("rx")
    /\ heartbeat' = TRUE
    /\ silence' = IF InWatchdog THEN silence ELSE 0
    /\ UNCHANGED <<dead, open, queue, arrived, wakers, pc, rid, notified, rx,
                   dog, keepalive, peer, dropped>>

\* handle_incoming on a Payload: the message goes into the channel ...
HandlePayload ==
    /\ open /\ peer /\ rx = "idle" /\ OthersIdle("rx")
    /\ arrived < MaxPayloads
    /\ arrived' = arrived + 1 /\ queue' = queue + 1
    /\ rx' = "queued"
    /\ UNCHANGED <<heartbeat, dead, open, wakers, pc, rid, notified, dog,
                   keepalive, peer, silence, dropped>>

\* ... and pop_first() wakes the task with the least Receiving id, if any.
WakeFirst ==
    /\ OthersIdle("rx") /\ rx = "queued" /\ rx' = "idle"
    /\ IF DOMAIN wakers # {}
       THEN LET first == CHOOSE i \in DOMAIN wakers : \A j \in DOMAIN wakers : i <= j
            IN  /\ wakers' = Restrict(wakers, DOMAIN wakers \ {first})
                /\ notified' = notified \cup {wakers[first]}
       ELSE UNCHANGED <<wakers, notified>>
    /\ UNCHANGED <<heartbeat, dead, open, queue, arrived, pc, rid, dog,
                   keepalive, peer, silence, dropped>>

-----------------------------------------------------------------------------
\* The watchdog's tick loads the heartbeat ...
WatchdogLoad ==
    /\ OthersIdle("dog") /\ dog = "waiting"
    /\ dog' = IF heartbeat THEN "alive" ELSE "silent"
    /\ silence' = IF silence < MaxSilence THEN silence + 1 ELSE silence
    /\ UNCHANGED <<heartbeat, dead, open, queue, arrived, wakers, pc, rid,
                   notified, rx, keepalive, peer, dropped>>

\* ... and, when it was set, clears it for the next interval, ...
WatchdogReset ==
    /\ OthersIdle("dog") /\ dog = "alive" /\ dog' = "waiting"
    /\ heartbeat' = FALSE
    /\ UNCHANGED <<dead, open, queue, arrived, wakers, pc, rid, notified, rx,
                   keepalive, peer, silence, dropped>>

\* ... else declares the session dead ...
WatchdogDeclare ==
    /\ OthersIdle("dog") /\ dog = "silent" /\ dog' = "waking"
    /\ dead' = TRUE
    /\ UNCHANGED <<heartbeat, open, queue, arrived, wakers, pc, rid, notified,
                   rx, keepalive, peer, silence, dropped>>

\* ... and wakes every waker in the map, which it leaves as it is.
WatchdogWakeAll ==
    /\ OthersIdle("dog") /\ dog = "waking" /\ dog' = "ended"
    /\ notified' = notified \cup Range(wakers)
    /\ UNCHANGED <<heartbeat, dead, open, queue, arrived, wakers, pc, rid, rx,
                   keepalive, peer, silence, dropped>>

\* The keepalive task sends, then looks at dead: the last keepalive goes out
\* after the session has died.  (A failed send skips the look, and changes
\* nothing.)
KeepaliveTick ==
    /\ keepalive /\ OthersIdle("keepalive")
    /\ keepalive' = ~dead
    /\ UNCHANGED <<heartbeat, dead, open, queue, arrived, wakers, pc, rid,
                   notified, rx, dog, peer, silence, dropped>>

-----------------------------------------------------------------------------
\* recv() through Handler::recv_from, under the established_sessions lock
\* that handle_incoming holds too.  A wake that the task got meanwhile may or
\* may not have been used up.
Recv(t) ==
    /\ pc[t] = "idle" /\ rx = "idle" /\ OthersIdle(t)
    /\ open /\ ~dead
    /\ \E i \in Ids \ (DOMAIN wakers \cup Range(rid)) :
           rid' = [rid EXCEPT ![t] = i]
    /\ pc' = [pc EXCEPT ![t] = "poll"]
    /\ notified' \in {notified, notified \ {t}}
    /\ UNCHANGED <<heartbeat, dead, open, queue, arrived, wakers, rx, dog,
                   keepalive, peer, silence, dropped>>

\* recv_from on a dead session takes it out of the map and returns None.
RecvDead(t) ==
    /\ pc[t] = "idle" /\ rx = "idle" /\ OthersIdle(t)
    /\ open /\ dead
    /\ open' = FALSE
    /\ UNCHANGED <<heartbeat, dead, queue, arrived, wakers, pc, rid, notified,
                   rx, dog, keepalive, peer, silence, dropped>>

\* recv() is over and its Receiving gone.
Return(t) ==
    /\ pc' = [pc EXCEPT ![t] = "idle"]
    /\ rid' = [rid EXCEPT ![t] = NoId]

\* Receiving::poll looks at dead first; on Disconnected its waker stays in
\* the map.
PollDead(t) ==
    /\ pc[t] = "poll" /\ OthersIdle(t)
    /\ IF dead THEN Return(t)
               ELSE pc' = [pc EXCEPT ![t] = "checked"] /\ UNCHANGED rid
    /\ UNCHANGED <<heartbeat, dead, open, queue, arrived, wakers, notified,
                   rx, dog, keepalive, peer, silence, dropped>>

\* try_recv().
PollTryRecv(t) ==
    /\ OthersIdle(t) /\ pc[t] = "checked"
    /\ IF queue > 0
       THEN queue' = queue - 1 /\ pc' = [pc EXCEPT ![t] = "got"]
       ELSE pc' = [pc EXCEPT ![t] = "empty"] /\ UNCHANGED queue
    /\ UNCHANGED <<heartbeat, dead, open, arrived, wakers, rid, notified, rx,
                   dog, keepalive, peer, silence, dropped>>

\* A message was there: the waker, if still registered, is removed.
PollReady(t) ==
    /\ OthersIdle(t) /\ pc[t] = "got"
    /\ wakers' = Restrict(wakers, DOMAIN wakers \ {rid[t]})
    /\ Return(t)
    /\ UNCHANGED <<heartbeat, dead, open, queue, arrived, notified, rx,
                   dog, keepalive, peer, silence, dropped>>

\* None was there: the waker is registered and the task sleeps.
PollPending(t) ==
    /\ OthersIdle(t) /\ pc[t] = "empty"
    /\ wakers' = [i \in DOMAIN wakers \cup {rid[t]} |->
                      IF i = rid[t] THEN t ELSE wakers[i]]
    /\ pc' = [pc EXCEPT ![t] = "parked"]
    /\ UNCHANGED <<heartbeat, dead, open, queue, arrived, rid, notified, rx,
                   dog, keepalive, peer, silence, dropped>>

\* The runtime polls a task that was woken.
Woken(t) ==
    /\ pc[t] = "parked" /\ t \in notified /\ OthersIdle(t)
    /\ pc' = [pc EXCEPT ![t] = "poll"]
    /\ notified' = notified \ {t}
    /\ UNCHANGED <<heartbeat, dead, open, queue, arrived, wakers, rid, rx,
                   dog, keepalive, peer, silence, dropped>>

\* The user drops a Receiving it waits on (a timeout, a select).  Receiving
\* has no Drop: its waker stays in the map.
Cancel(t) ==
    /\ dropped < MaxDrops /\ pc[t] = "parked" /\ OthersIdle(t)
    /\ Return(t)
    /\ dropped' = dropped + 1
    /\ UNCHANGED <<heartbeat, dead, open, queue, arrived, wakers, notified,
                   rx, dog, keepalive, peer, silence>>

\* The Session is dropped (the last handle is gone, or a later connect() with
\* the same id replaced it): Drop closes it, and wakes nobody.
DropSession ==
    /\ open /\ rx = "idle" /\ OthersIdle("user")
    /\ open' = FALSE /\ dead' = TRUE
    /\ UNCHANGED <<heartbeat, queue, arrived, wakers, pc, rid, notified, rx,
                   dog, keepalive, peer, silence, dropped>>

\* The peer stops sending and its last packet has arrived.
PeerGone ==
    /\ peer /\ peer' = FALSE
    /\ UNCHANGED <<heartbeat, dead, open, queue, arrived, wakers, pc, rid,
                   notified, rx, dog, keepalive, silence, dropped>>

-----------------------------------------------------------------------------
Poll(t) == PollDead(t) \/ PollTryRecv(t) \/ PollReady(t) \/ PollPending(t)
Watchdog == WatchdogLoad \/ WatchdogReset \/ WatchdogDeclare \/ WatchdogWakeAll

Next ==
    \/ HandleKeepalive \/ HandlePayload \/ WakeFirst
    \/ Watchdog \/ KeepaliveTick
    \/ \E t \in Tasks : Recv(t) \/ RecvDead(t) \/ Poll(t) \/ Woken(t) \/ Cancel(t)
    \/ DropSession \/ PeerGone

\* The runtime polls woken tasks and runs the spawned ones; nothing is
\* assumed of the user, the peer and the network.
Fairness ==
    /\ WF_vars(WakeFirst) /\ WF_vars(Watchdog) /\ WF_vars(KeepaliveTick)
    /\ \A t \in Tasks : WF_vars(Poll(t)) /\ WF_vars(Woken(t))

Spec == Init /\ [][Next]_vars /\ Fairness

-----------------------------------------------------------------------------
\* Tasks that will look at the queue without another wake.
Awake == {t \in Tasks : \/ pc[t] \in {"poll", "checked"}
                        \/ pc[t] = "parked" /\ t \in notified}

Asleep(t) == pc[t] = "parked" /\ t \notin notified

\* While the session lives, no task sleeps over a message that nobody is on
\* the way to fetch (send-then-wake of handle_incoming against
\* Receiving::poll), but for one message per dropped receive: a dropped
\* Receiving leaves its waker behind, or takes a wake along, and no more.
NoStrandedMessage ==
    (~dead /\ \E t \in Tasks : Asleep(t))
        => queue <= Cardinality(Awake) + (IF rx = "queued" THEN 1 ELSE 0)
                    + dropped

\* A sleeping task can be woken: the map holds its waker under the id of the
\* Receiving it waits on, whatever other receivers, dropped receivers and
\* wakes did to the map.
SleeperRegistered ==
    \A t \in Tasks :
        Asleep(t) => rid[t] \in DOMAIN wakers /\ wakers[rid[t]] = t

\* The watchdog gives up a session only if a whole interval went by, from one
\* tick to the next, in which the peer was not heard (heartbeat and the 5 s
\* interval).  Its load and its store are two steps; a keepalive between them
\* is the only one that does not count.
NoFalseDeath == [][dog = "silent" /\ dog' = "waking" => silence >= 2]_vars

\* It gives it up at the second tick after the last keepalive that counts: a
\* lost clear of the heartbeat would keep a session of a silent peer longer.
NoticedInTime == silence <= 2

\* A recv() in progress when the peer goes away or the session is dropped
\* returns ("so clean up all remaining wakers", test_drop_session).
DisconnectDelivered ==
    \A t \in Tasks : ((~peer \/ ~open) /\ pc[t] # "idle") ~> (pc[t] = "idle")

\* A session whose peer stays away, or that is dropped, ends also with nobody
\* receiving: it is dead, and its keepalive task, which looks at dead only after
\* it has sent, falls silent, so that the peer's watchdog can notice in turn.
SessionEnds == (~peer \/ ~open) ~> (dead /\ ~keepalive)
=============================================================================
