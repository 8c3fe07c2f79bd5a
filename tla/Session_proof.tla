---------------------------- MODULE Session_proof ----------------------------
(***************************************************************************)
(* Proofs about Session for any set of receiving tasks, any number of      *)
(* payloads, with or without dropped receives.                             *)
(*                                                                         *)
(* On either runtime: the types; a task that sleeps in recv() always has   *)
(* its waker in the map, so the next payload or the watchdog can reach it  *)
(* (SleeperRegistered); the watchdog gives up in time (NoticedInTime), and *)
(* no session whose keepalives it can see (NoFalseDeath).  On a current-   *)
(* thread runtime also: tasks asleep over a message that nobody fetches    *)
(* are no more than the receives that were dropped (NoStrandedMessage).    *)
(*                                                                         *)
(* None of them is inductive; each part begins with what it needs.  First, *)
(* the wakers: another task could remove or overwrite the waker if two     *)
(* Receivings shared an id, which ActiveIdsDistinct rules out.             *)
(***************************************************************************)
EXTENDS Session, FiniteSetTheorems, NaturalsInduction, WellFoundedInduction,
        TLAPS

Places == {"idle", "poll", "checked", "got", "empty", "parked"}

\* The receiving tasks have a place and at most one Receiving each.
TasksTyped == pc \in [Tasks -> Places] /\ rid \in [Tasks -> Ids \cup {NoId}]

\* Receivings in use have different ids (Uuid::new_v4).
ActiveIdsDistinct ==
    \A t, u \in Tasks :
        t # u /\ pc[t] # "idle" /\ pc[u] # "idle" => rid[t] # rid[u]

IInv == TasksTyped /\ ActiveIdsDistinct /\ SleeperRegistered

tvars == <<wakers, pc, rid, notified>>

\* IInv speaks of the waiting tasks only.
LEMMA TaskStateOnly == IInv /\ UNCHANGED tvars => IInv'
BY DEF tvars, IInv, TasksTyped, ActiveIdsDistinct, SleeperRegistered, Asleep

\* What a step that moves one task must show.
LEMMA PlacesMove ==
    ASSUME TasksTyped, NEW t \in Tasks, NEW p \in Places,
           pc' = [pc EXCEPT ![t] = p], rid' = rid,
           ActiveIdsDistinct, pc[t] # "idle"
    PROVE  TasksTyped' /\ ActiveIdsDistinct'
BY DEF TasksTyped, ActiveIdsDistinct

\* The same for the end of a recv().
LEMMA ReturnMove ==
    ASSUME TasksTyped, ActiveIdsDistinct, NEW t \in Tasks, Return(t)
    PROVE  TasksTyped' /\ ActiveIdsDistinct'
BY DEF TasksTyped, ActiveIdsDistinct, Return, Places

\* The invariant is inductive.
LEMMA InductiveInvariant == Spec => []IInv
<1>1. Init => IInv
  <2> SUFFICES ASSUME Init PROVE IInv
    OBVIOUS
  <2>1. QED
    BY DEF Init, IInv, TasksTyped, Places, ActiveIdsDistinct,
       SleeperRegistered, Asleep
<1>2. IInv /\ [Next]_vars => IInv'
  <2> SUFFICES ASSUME IInv, [Next]_vars PROVE IInv'
    OBVIOUS
  <2>1. CASE UNCHANGED tvars
    BY <2>1, TaskStateOnly
  <2>2. CASE WakeFirst
    <3> DEFINE first == CHOOSE i \in DOMAIN wakers :
                            \A j \in DOMAIN wakers : i <= j
    <3>1. pc' = pc /\ rid' = rid
      BY <2>2 DEF WakeFirst
    <3>2. CASE DOMAIN wakers # {}
      <4>1. /\ wakers' = [i \in DOMAIN wakers \ {first} |-> wakers[i]]
            /\ notified' = notified \cup {wakers[first]}
        BY <2>2, <3>2 DEF WakeFirst, Restrict
      <4> HIDE DEF first
      <4>2. SleeperRegistered'
        BY <3>1, <4>1 DEF IInv, TasksTyped, SleeperRegistered, Asleep
      <4>3. QED
        BY <3>1, <4>2 DEF IInv, TasksTyped, ActiveIdsDistinct
    <3>3. CASE DOMAIN wakers = {}
      BY <2>2, <3>1, <3>3, TaskStateOnly DEF WakeFirst, tvars
    <3>4. QED
      BY <3>2, <3>3
  <2>3. CASE WatchdogWakeAll
    BY <2>3 DEF WatchdogWakeAll, IInv, TasksTyped, ActiveIdsDistinct,
       SleeperRegistered, Asleep
  <2>4. ASSUME NEW t \in Tasks, Recv(t) PROVE IInv'
    <3>1. PICK i \in Ids :
              /\ i \notin {rid[u] : u \in Tasks}
              /\ rid' = [rid EXCEPT ![t] = i]
      BY <2>4 DEF Recv, Range, IInv, TasksTyped
    <3>2. /\ pc' = [pc EXCEPT ![t] = "poll"] /\ wakers' = wakers
          /\ notified' \in {notified, notified \ {t}}
      BY <2>4 DEF Recv
    <3>3. TasksTyped'
      BY <3>1, <3>2 DEF IInv, TasksTyped, Places
    <3>4. ActiveIdsDistinct'
      BY <3>1, <3>2 DEF IInv, TasksTyped, ActiveIdsDistinct
    <3>5. SleeperRegistered'
      BY <3>1, <3>2 DEF IInv, TasksTyped, SleeperRegistered, Asleep
    <3>6. QED
      BY <3>3, <3>4, <3>5 DEF IInv
  <2>5. ASSUME NEW t \in Tasks,
               PollDead(t) \/ PollTryRecv(t) \/ Cancel(t)
        PROVE  IInv'
    <3>1. pc[t] # "idle" /\ wakers' = wakers /\ notified' = notified
      BY <2>5 DEF PollDead, PollTryRecv, Cancel
    <3>2. CASE Return(t)
      <4>1. SleeperRegistered'
        BY <3>1, <3>2 DEF IInv, TasksTyped, SleeperRegistered, Asleep, Return
      <4>2. QED
        BY <3>2, <4>1, ReturnMove DEF IInv
    <3>3. CASE rid' = rid /\ \E p \in Places \ {"parked"} : pc' = [pc EXCEPT ![t] = p]
      <4>1. TasksTyped' /\ ActiveIdsDistinct'
        BY <3>1, <3>3, PlacesMove DEF IInv
      <4>2. SleeperRegistered'
        BY <3>1, <3>3 DEF IInv, TasksTyped, SleeperRegistered, Asleep
      <4>3. QED
        BY <4>1, <4>2 DEF IInv
    <3>4. QED
      BY <2>5, <3>2, <3>3 DEF PollDead, PollTryRecv, Cancel, Places
  <2>6. ASSUME NEW t \in Tasks, PollReady(t) PROVE IInv'
    <3>1. /\ pc[t] = "got" /\ Return(t) /\ notified' = notified
          /\ wakers' = [i \in DOMAIN wakers \ {rid[t]} |-> wakers[i]]
      BY <2>6 DEF PollReady, Restrict
    <3>2. TasksTyped' /\ ActiveIdsDistinct'
      BY <3>1, ReturnMove DEF IInv
    <3>3. SleeperRegistered'
      BY <3>1 DEF IInv, TasksTyped, ActiveIdsDistinct, SleeperRegistered,
         Asleep, Return
    <3>4. QED
      BY <3>2, <3>3 DEF IInv
  <2>7. ASSUME NEW t \in Tasks, PollPending(t) PROVE IInv'
    <3>1. /\ pc[t] = "empty" /\ rid' = rid /\ notified' = notified
          /\ wakers' = [i \in DOMAIN wakers \cup {rid[t]} |->
                            IF i = rid[t] THEN t ELSE wakers[i]]
          /\ pc' = [pc EXCEPT ![t] = "parked"]
      BY <2>7 DEF PollPending
    <3>2. TasksTyped' /\ ActiveIdsDistinct'
      BY <3>1, PlacesMove DEF IInv, Places
    <3>3. SleeperRegistered'
      BY <3>1 DEF IInv, TasksTyped, ActiveIdsDistinct, SleeperRegistered,
         Asleep
    <3>4. QED
      BY <3>2, <3>3 DEF IInv
  <2>8. ASSUME NEW t \in Tasks, Woken(t) PROVE IInv'
    <3>1. /\ pc[t] = "parked" /\ rid' = rid /\ wakers' = wakers
          /\ notified' = notified \ {t}
          /\ pc' = [pc EXCEPT ![t] = "poll"]
      BY <2>8 DEF Woken
    <3>2. TasksTyped' /\ ActiveIdsDistinct'
      BY <3>1, PlacesMove DEF IInv, Places
    <3>3. SleeperRegistered'
      BY <3>1 DEF IInv, TasksTyped, SleeperRegistered, Asleep
    <3>4. QED
      BY <3>2, <3>3 DEF IInv
  <2>9. CASE HandleKeepalive \/ HandlePayload \/ WatchdogLoad \/ WatchdogReset
             \/ WatchdogDeclare \/ KeepaliveTick \/ DropSession \/ PeerGone
             \/ \E t \in Tasks : RecvDead(t)
    BY <2>9, <2>1 DEF HandleKeepalive, HandlePayload, WatchdogLoad,
       WatchdogReset, WatchdogDeclare, KeepaliveTick, DropSession, PeerGone,
       RecvDead, tvars
  <2>10. CASE UNCHANGED vars
    BY <2>10, <2>1 DEF vars, tvars
  <2>11. QED
    BY <2>2, <2>3, <2>4, <2>5, <2>6, <2>7, <2>8, <2>9, <2>10
       DEF Next, Watchdog, Poll
<1>3. QED
  BY <1>1, <1>2, PTL DEF Spec

\* A task that sleeps in recv() has its waker in the map.
THEOREM SleeperRegisteredCorrect == Spec => []SleeperRegistered
<1>1. IInv => SleeperRegistered
  BY DEF IInv
<1>2. QED
  BY <1>1, InductiveInvariant, PTL

-----------------------------------------------------------------------------
(***************************************************************************)
(* Types.  TypeOK is not inductive: the queue stays within MaxPayloads     *)
(* because it never holds more than has arrived, and the ids in the map    *)
(* are ids of Receivings because a task inside recv() holds one.           *)
(***************************************************************************)
\* A nonempty set of ids has a least one, which is what pop_first() takes.
LEMMA LeastId ==
    ASSUME NEW S, S \subseteq Ids, S # {}
    PROVE  LET least == CHOOSE i \in S : \A j \in S : i <= j
           IN  least \in S /\ \A j \in S : least <= j
<1>1. S \subseteq Nat
  BY BoundsAssumption DEF Ids
<1>2. \E n \in S : \A j \in S : ~(<<j, n>> \in OpToRel(<, Nat))
  BY <1>1, WFMin, NatLessThanWellFounded
<1>3. PICK n \in S : \A j \in S : ~(j < n)
  BY <1>1, <1>2, Zenon DEF OpToRel
<1>4. n \in S /\ \A j \in S : n <= j
  BY <1>1, <1>3
<1>5. QED
  BY <1>4

FlagsTyped ==
    /\ heartbeat \in BOOLEAN /\ dead \in BOOLEAN /\ open \in BOOLEAN
    /\ keepalive \in BOOLEAN /\ peer \in BOOLEAN
PlacesTyped ==
    /\ rx \in {"idle", "queued"}
    /\ dog \in {"waiting", "alive", "silent", "waking", "ended"}
CountsTyped ==
    /\ queue \in Nat /\ arrived \in 0..MaxPayloads /\ queue <= arrived
    /\ silence \in 0..MaxSilence /\ dropped \in 0..MaxDrops
WakersTyped ==
    /\ DOMAIN wakers \subseteq Ids /\ notified \subseteq Tasks
    /\ \A i \in DOMAIN wakers : wakers[i] \in Tasks
ActiveHaveId == \A t \in Tasks : pc[t] # "idle" => rid[t] \in Ids

TInv == /\ FlagsTyped /\ PlacesTyped /\ CountsTyped
        /\ TasksTyped /\ WakersTyped /\ ActiveHaveId

LEMMA PartsGiveTypes == TInv => TypeOK
BY BoundsAssumption DEF TInv, FlagsTyped, PlacesTyped, CountsTyped, TasksTyped,
   WakersTyped, TypeOK, Places, Range

LEMMA TypeInvariant == Spec => []TInv
<1>1. Init => TInv
  <2> SUFFICES ASSUME Init PROVE TInv
    OBVIOUS
  <2>0. FlagsTyped
    BY Zenon DEF Init, FlagsTyped
  <2>1. PlacesTyped /\ CountsTyped
    BY BoundsAssumption DEF Init, PlacesTyped, CountsTyped, MaxSilence
  <2>2. TasksTyped /\ WakersTyped /\ ActiveHaveId
    BY DEF Init, TasksTyped, WakersTyped, ActiveHaveId, Places
  <2>3. QED
    BY <2>0, <2>1, <2>2 DEF TInv
<1>2. TInv /\ [Next]_vars => TInv'
  <2> SUFFICES ASSUME TInv, [Next]_vars PROVE TInv'
    OBVIOUS
  <2> USE DEF TInv
  <2>flags. FlagsTyped'
    <3> DEFINE flags == <<heartbeat, dead, open, keepalive, peer>>
    <3>1. CASE UNCHANGED flags
      BY <3>1, Zenon DEF FlagsTyped
    <3>2. CASE HandleKeepalive \/ WatchdogReset \/ WatchdogDeclare
      BY <3>2, Zenon DEF FlagsTyped, HandleKeepalive, WatchdogReset, WatchdogDeclare
    <3>3. CASE KeepaliveTick \/ DropSession \/ PeerGone
      BY <3>3, Zenon DEF FlagsTyped, KeepaliveTick, DropSession, PeerGone
    <3>4. ASSUME NEW t \in Tasks, RecvDead(t) PROVE FlagsTyped'
      BY <3>4, Zenon DEF FlagsTyped, RecvDead
    <3>5. ASSUME NEW t \in Tasks, Recv(t) \/ Poll(t) \/ Woken(t) \/ Cancel(t)
          PROVE  UNCHANGED flags
      BY <3>5 DEF Recv, Poll, PollDead, PollTryRecv, PollReady, PollPending,
         Woken, Cancel
    <3>6. CASE HandlePayload \/ WakeFirst \/ WatchdogLoad \/ WatchdogWakeAll
               \/ UNCHANGED vars
      BY <3>6, <3>1 DEF HandlePayload, WakeFirst, WatchdogLoad,
         WatchdogWakeAll, vars
    <3>7. QED
      BY <3>1, <3>2, <3>3, <3>4, <3>5, <3>6 DEF Next, Watchdog
  <2>places. PlacesTyped'
    BY DEF PlacesTyped, Next, Watchdog, Poll, vars, HandleKeepalive,
       HandlePayload, WakeFirst, WatchdogLoad, WatchdogReset, WatchdogDeclare,
       WatchdogWakeAll, KeepaliveTick, Recv, RecvDead, PollDead, PollTryRecv,
       PollReady, PollPending, Woken, Cancel, DropSession, PeerGone
  <2>counts. CountsTyped'
    <3>1. CASE UNCHANGED <<queue, arrived, silence, dropped>>
      BY <3>1 DEF CountsTyped
    <3>2. CASE HandleKeepalive \/ WatchdogLoad
      BY <3>2 DEF CountsTyped, HandleKeepalive, WatchdogLoad, MaxSilence
    <3>3. CASE HandlePayload
      BY <3>3, BoundsAssumption DEF CountsTyped, HandlePayload
    <3>4. ASSUME NEW t \in Tasks, PollTryRecv(t) PROVE CountsTyped'
      BY <3>4, BoundsAssumption DEF CountsTyped, PollTryRecv
    <3>5. ASSUME NEW t \in Tasks, Cancel(t) PROVE CountsTyped'
      BY <3>5, BoundsAssumption DEF CountsTyped, Cancel
    <3>6. QED
      BY <3>1, <3>2, <3>3, <3>4, <3>5 DEF Next, Watchdog, Poll, vars, WakeFirst,
         WatchdogReset, WatchdogDeclare, WatchdogWakeAll, KeepaliveTick, Recv,
         RecvDead, PollDead, PollReady, PollPending, Woken, DropSession,
         PeerGone
  <2>tasks. TasksTyped' /\ ActiveHaveId'
    <3>1. CASE UNCHANGED <<pc, rid>>
      BY <3>1 DEF TasksTyped, ActiveHaveId
    <3>2. ASSUME NEW t \in Tasks, Return(t) PROVE TasksTyped' /\ ActiveHaveId'
      BY <3>2 DEF TasksTyped, ActiveHaveId, Places, Return
    <3>3. ASSUME NEW t \in Tasks, NEW p \in Places, pc[t] # "idle",
                 pc' = [pc EXCEPT ![t] = p], rid' = rid
          PROVE  TasksTyped' /\ ActiveHaveId'
      BY <3>3 DEF TasksTyped, ActiveHaveId
    <3>4. ASSUME NEW t \in Tasks, Recv(t) PROVE TasksTyped' /\ ActiveHaveId'
      BY <3>4 DEF TasksTyped, ActiveHaveId, Places, Recv
    <3>5. ASSUME NEW t \in Tasks, Poll(t) \/ Woken(t) \/ Cancel(t)
          PROVE  TasksTyped' /\ ActiveHaveId'
      BY <3>2, <3>3, <3>5 DEF Poll, PollDead, PollTryRecv, PollReady,
         PollPending, Woken, Cancel, Places
    <3>6. QED
      BY <3>1, <3>4, <3>5 DEF Next, Watchdog, vars, HandleKeepalive,
         HandlePayload, WakeFirst, WatchdogLoad, WatchdogReset,
         WatchdogDeclare, WatchdogWakeAll, KeepaliveTick, RecvDead,
         DropSession, PeerGone
  <2>wakers. WakersTyped'
    <3>1. CASE UNCHANGED <<wakers, notified>>
      BY <3>1 DEF WakersTyped
    <3>2. CASE WakeFirst
      <4> DEFINE first == CHOOSE i \in DOMAIN wakers :
                              \A j \in DOMAIN wakers : i <= j
      <4>1. CASE DOMAIN wakers # {}
        <5>1. /\ wakers' = [i \in DOMAIN wakers \ {first} |-> wakers[i]]
              /\ notified' = notified \cup {wakers[first]}
          BY <3>2, <4>1 DEF WakeFirst, Restrict
        <5>2. first \in DOMAIN wakers
          BY <4>1, LeastId DEF WakersTyped
        <5> HIDE DEF first
        <5>3. QED
          BY <5>1, <5>2 DEF WakersTyped
      <4>2. QED
        BY <3>1, <3>2, <4>1 DEF WakeFirst
    <3>3. CASE WatchdogWakeAll
      BY <3>3 DEF WatchdogWakeAll, WakersTyped, Range
    <3>4. ASSUME NEW t \in Tasks, Recv(t) \/ Woken(t) PROVE WakersTyped'
      BY <3>4 DEF WakersTyped, Recv, Woken
    <3>5. ASSUME NEW t \in Tasks, PollReady(t) PROVE WakersTyped'
      <4>1. /\ wakers' = [i \in DOMAIN wakers \ {rid[t]} |-> wakers[i]]
            /\ notified' = notified
        BY <3>5 DEF PollReady, Restrict
      <4>2. QED
        BY <4>1 DEF WakersTyped
    <3>6. ASSUME NEW t \in Tasks, PollPending(t) PROVE WakersTyped'
      BY <3>6 DEF WakersTyped, PollPending, ActiveHaveId
    <3>7. QED
      BY <3>1, <3>2, <3>3, <3>4, <3>5, <3>6 DEF Next, Watchdog, Poll, vars,
         HandleKeepalive, HandlePayload, WatchdogLoad, WatchdogReset,
         WatchdogDeclare, KeepaliveTick, RecvDead, PollDead, PollTryRecv,
         Cancel, DropSession, PeerGone
  <2>q. QED
    BY <2>flags, <2>places, <2>counts, <2>tasks, <2>wakers
<1>3. QED
  BY <1>1, <1>2, PTL DEF Spec

\* Every variable keeps its type; the queue in particular never runs below
\* empty, and every waker in the map is one of a Receiving (an id) and a task.
THEOREM TypeCorrect == Spec => []TypeOK
BY PartsGiveTypes, TypeInvariant, PTL

-----------------------------------------------------------------------------
(***************************************************************************)
(* The watchdog.  A keepalive inside its body is cleared by the store that *)
(* follows, or comes after the verdict, and is not counted; so place and   *)
(* heartbeat tell exactly how many loads there were since one that counts. *)
(***************************************************************************)
DogExact ==
    /\ dog = "waiting" => silence = IF heartbeat THEN 0 ELSE 1
    /\ dog = "alive" => silence = 1
    /\ dog \in {"silent", "waking"} => silence = 2
    /\ dog = "ended" => silence \in {0, 2}

dvars == <<heartbeat, dog, silence>>

\* Only a keepalive and the watchdog itself touch what the watchdog counts.
LEMMA DogSteps ==
    [Next]_vars => UNCHANGED dvars \/ HandleKeepalive \/ Watchdog
<1> SUFFICES ASSUME [Next]_vars, ~HandleKeepalive, ~Watchdog
             PROVE  UNCHANGED dvars
  OBVIOUS
<1>1. ASSUME NEW t \in Tasks,
             Recv(t) \/ RecvDead(t) \/ Poll(t) \/ Woken(t) \/ Cancel(t)
      PROVE  UNCHANGED dvars
  BY <1>1 DEF dvars, Recv, RecvDead, Poll, PollDead, PollTryRecv, PollReady,
     PollPending, Woken, Cancel
<1>2. QED
  BY <1>1 DEF Next, vars, dvars, HandlePayload, WakeFirst, KeepaliveTick,
     DropSession, PeerGone

LEMMA DogInvariant == Spec => [](TInv /\ DogExact)
<1>1. Init => DogExact
  BY DEF Init, DogExact
<1>2. TInv /\ DogExact /\ [Next]_vars => DogExact'
  <2> SUFFICES ASSUME TInv, DogExact, [Next]_vars PROVE DogExact'
    OBVIOUS
  <2>1. CASE UNCHANGED dvars
    BY <2>1 DEF dvars, DogExact
  <2>2. CASE HandleKeepalive
    <3>1. dog' = dog /\ heartbeat' /\ silence' = IF InWatchdog THEN silence ELSE 0
      BY <2>2 DEF HandleKeepalive
    <3>2. QED
      BY <3>1 DEF DogExact, InWatchdog
  <2>3. CASE WatchdogLoad
    BY <2>3 DEF WatchdogLoad, DogExact, MaxSilence
  <2>4. CASE WatchdogReset
    BY <2>4 DEF WatchdogReset, DogExact
  <2>5. CASE WatchdogDeclare \/ WatchdogWakeAll
    BY <2>5 DEF WatchdogDeclare, WatchdogWakeAll, DogExact
  <2>6. QED
    BY <2>1, <2>2, <2>3, <2>4, <2>5, DogSteps DEF Watchdog
<1>3. QED
  BY <1>1, <1>2, TypeInvariant, PTL DEF Spec

\* The watchdog gives a session up at the second tick after the last
\* keepalive that counts, on either runtime.
THEOREM NoticedInTimeCorrect == Spec => []NoticedInTime
<1>1. TInv /\ DogExact => NoticedInTime
  BY DEF TInv, PlacesTyped, DogExact, NoticedInTime
<1>2. QED
  BY <1>1, DogInvariant, PTL

\* On either runtime the watchdog gives up a session only after a whole
\* interval without a keepalive, other than one inside its own body.
THEOREM NoFalseDeathCorrect == Spec => NoFalseDeath
<1>1. TInv /\ DogExact /\ [Next]_vars
          => [dog = "silent" /\ dog' = "waking" => silence >= 2]_vars
  BY DEF DogExact
<1>2. QED
  BY <1>1, DogInvariant, PTL DEF Spec, NoFalseDeath

-----------------------------------------------------------------------------
(***************************************************************************)
(* Messages and wakes, as long as the session lives.  The wake of a        *)
(* payload is spent on a task that is not asleep only if the map holds a   *)
(* waker that no sleeping task waits on (Spare), or a task was woken while *)
(* it waited for nothing (Stale) and then parks with its wake to come.     *)
(* Both are the doing of dropped receives, each of which pays for one      *)
(* (Paid), on both runtimes.  On a current-thread one a task about to      *)
(* sleep has nothing to miss (SleepsOverNothing): no payload comes between *)
(* its try_recv and the registration of its waker.                         *)
(***************************************************************************)
Spare == {i \in DOMAIN wakers : \A t \in Tasks : Asleep(t) => rid[t] # i}
Stale == {t \in notified : pc[t] # "parked"}
Coming == IF rx = "queued" THEN 1 ELSE 0

Paid == Cardinality(Spare) + Cardinality(Stale) <= dropped
SleepsOverNothing == \A t \in Tasks : pc[t] = "empty" => queue = 0
Covered ==
    (\E t \in Tasks : Asleep(t))
        => queue + Cardinality(Spare) <= Cardinality(Awake) + Coming + dropped

DeadAtWake == dog \in {"waking", "ended"} => dead
MInv == DeadAtWake /\ (~dead => Paid /\ SleepsOverNothing /\ Covered)

\* How much a step can add to, or take from, a count.
LEMMA CountMoves ==
    ASSUME NEW S, NEW T, IsFiniteSet(S)
    PROVE  /\ Cardinality(S) \in Nat
           /\ T \subseteq S => Cardinality(T) \in Nat /\ Cardinality(T) <= Cardinality(S)
           /\ \A x : T \subseteq S \cup {x}
                      => Cardinality(T) \in Nat /\ Cardinality(T) <= Cardinality(S) + 1
           /\ \A x \in S : T \subseteq S \ {x}
                      => Cardinality(T) \in Nat /\ Cardinality(T) + 1 <= Cardinality(S)
           /\ \A x \in S : \A y : T \subseteq (S \ {x}) \cup {y}
                      => Cardinality(T) \in Nat /\ Cardinality(T) <= Cardinality(S)
<1>1. Cardinality(S) \in Nat
  BY FS_CardinalityType
<1>2. ASSUME NEW U, IsFiniteSet(U), T \subseteq U
      PROVE  Cardinality(T) \in Nat /\ Cardinality(T) <= Cardinality(U)
  BY <1>2, FS_Subset, FS_CardinalityType
<1>3. ASSUME NEW U, IsFiniteSet(U), NEW x
      PROVE  /\ IsFiniteSet(U \cup {x}) /\ Cardinality(U \cup {x}) \in Nat
             /\ Cardinality(U) \in Nat
             /\ Cardinality(U \cup {x}) <= Cardinality(U) + 1
  <2>1. /\ IsFiniteSet(U \cup {x})
        /\ \/ Cardinality(U \cup {x}) = Cardinality(U)
           \/ Cardinality(U \cup {x}) = Cardinality(U) + 1
    BY <1>3, FS_AddElement
  <2>2. Cardinality(U) \in Nat /\ Cardinality(U \cup {x}) \in Nat
    BY <1>3, <2>1, FS_CardinalityType
  <2>3. QED
    BY <2>1, <2>2
<1>4. ASSUME NEW x \in S
      PROVE  /\ IsFiniteSet(S \ {x}) /\ Cardinality(S \ {x}) \in Nat
             /\ Cardinality(S \ {x}) = Cardinality(S) - 1
  BY <1>4, FS_RemoveElement, FS_CardinalityType
<1>5. ASSUME NEW x, T \subseteq S \cup {x}
      PROVE  Cardinality(T) \in Nat /\ Cardinality(T) <= Cardinality(S) + 1
  <2>1. Cardinality(T) \in Nat /\ Cardinality(T) <= Cardinality(S \cup {x})
    BY <1>2, <1>3, <1>5
  <2>2. /\ Cardinality(S \cup {x}) \in Nat
        /\ Cardinality(S \cup {x}) <= Cardinality(S) + 1
    BY <1>3
  <2>3. QED
    BY <1>1, <2>1, <2>2
<1>6. ASSUME NEW x \in S, T \subseteq S \ {x}
      PROVE  Cardinality(T) \in Nat /\ Cardinality(T) + 1 <= Cardinality(S)
  <2>1. Cardinality(T) \in Nat /\ Cardinality(T) <= Cardinality(S \ {x})
    BY <1>2, <1>4, <1>6
  <2>2. QED
    BY <1>1, <1>4, <2>1
<1>7. ASSUME NEW x \in S, NEW y, T \subseteq (S \ {x}) \cup {y}
      PROVE  Cardinality(T) \in Nat /\ Cardinality(T) <= Cardinality(S)
  <2>1. /\ IsFiniteSet((S \ {x}) \cup {y})
        /\ Cardinality((S \ {x}) \cup {y}) \in Nat
        /\ Cardinality((S \ {x}) \cup {y}) <= Cardinality(S \ {x}) + 1
    BY <1>3, <1>4
  <2>2. Cardinality(T) \in Nat /\ Cardinality(T) <= Cardinality((S \ {x}) \cup {y})
    BY <1>2, <1>7, <2>1
  <2>3. QED
    BY <1>1, <1>4, <2>1, <2>2
<1>8. QED
  BY <1>1, <1>2, <1>5, <1>6, <1>7

\* The sets that are counted are finite.
LEMMA CountsFinite ==
    ASSUME TInv
    PROVE  IsFiniteSet(Spare) /\ IsFiniteSet(Stale) /\ IsFiniteSet(Awake)
<1>1. IsFiniteSet(Ids)
  BY BoundsAssumption, FS_Interval DEF Ids
<1>2. Spare \subseteq Ids /\ Stale \subseteq Tasks /\ Awake \subseteq Tasks
  BY DEF TInv, WakersTyped, Spare, Stale, Awake
<1>3. QED
  BY <1>1, <1>2, FS_Subset, TasksAssumption

\* A task that wakes or goes for the queue, and one that is no longer on its
\* way there.
LEMMA AwakeCount ==
    ASSUME TInv
    PROVE  /\ Cardinality(Awake) \in Nat
           /\ \A t : t \notin Awake /\ Awake' = Awake \cup {t}
                    => Cardinality(Awake') = Cardinality(Awake) + 1
           /\ \A t : t \in Awake /\ Awake' = Awake \ {t}
                    => /\ Cardinality(Awake') = Cardinality(Awake) - 1
                       /\ Cardinality(Awake') \in Nat
<1>1. IsFiniteSet(Awake)
  BY CountsFinite
<1>2. QED
  BY <1>1, FS_CardinalityType, FS_AddElement, FS_RemoveElement

mvars == <<dead, dropped, dog, queue, rx, wakers, pc, rid, notified>>

LEMMA MessageStateOnly == MInv /\ UNCHANGED mvars => MInv'
<1> SUFFICES ASSUME MInv, UNCHANGED mvars PROVE MInv'
  OBVIOUS
<1>1. Awake' = Awake /\ Spare' = Spare /\ Stale' = Stale
  BY DEF mvars, Awake, Spare, Stale, Asleep
<1>2. QED
  BY <1>1 DEF mvars, MInv, DeadAtWake, Paid, SleepsOverNothing, Covered,
     Coming, Asleep

\* handle_incoming: the payload is on its way to a sleeping task, and gets
\* there, or its wake goes to a spare waker, which is thereby used up.
LEMMA IncomingKeepsCovered ==
    ASSUME ~Preemptive, IInv, TInv, MInv, HandlePayload \/ WakeFirst
    PROVE  MInv'
<1> USE DEF MInv, TInv, IInv
<1>0. dead' = dead /\ dropped' = dropped /\ dog' = dog /\ pc' = pc /\ rid' = rid
  BY DEF HandlePayload, WakeFirst
<1> SUFFICES ASSUME ~dead PROVE (Paid /\ SleepsOverNothing /\ Covered)'
  BY <1>0 DEF DeadAtWake
<1>c. /\ IsFiniteSet(Spare) /\ IsFiniteSet(Stale) /\ queue \in Nat /\ dropped \in Nat
      /\ Cardinality(Spare) \in Nat /\ Cardinality(Stale) \in Nat
      /\ Cardinality(Awake) \in Nat
  BY CountsFinite, FS_CardinalityType, BoundsAssumption DEF CountsTyped
<1>1. CASE HandlePayload
  <2>1. /\ wakers' = wakers /\ notified' = notified /\ queue' = queue + 1
        /\ rx = "idle" /\ rx' = "queued"
    BY <1>1 DEF HandlePayload
  <2>2. \A t \in Tasks : pc[t] # "empty"
    BY <1>1, TasksAssumption DEF HandlePayload, OthersIdle, InPoll
  <2>3. Awake' = Awake /\ Spare' = Spare /\ Stale' = Stale
    BY <1>0, <2>1 DEF Awake, Spare, Stale, Asleep
  <2>4. Covered'
    BY <1>0, <1>c, <2>1, <2>3 DEF Covered, Coming, Asleep
  <2>5. QED
    BY <1>0, <2>1, <2>2, <2>3, <2>4 DEF Paid, SleepsOverNothing
<1>2. CASE WakeFirst /\ DOMAIN wakers # {}
  <2> DEFINE first == CHOOSE i \in DOMAIN wakers : \A j \in DOMAIN wakers : i <= j
  <2>1. /\ wakers' = [i \in DOMAIN wakers \ {first} |-> wakers[i]]
        /\ notified' = notified \cup {wakers[first]}
        /\ queue' = queue /\ rx = "queued" /\ rx' = "idle"
    BY <1>2 DEF WakeFirst, Restrict
  <2>2. first \in DOMAIN wakers
    BY <1>2, LeastId DEF WakersTyped
  <2> HIDE DEF first
  <2>3. PICK w \in Tasks : w = wakers[first]
    BY <2>2 DEF WakersTyped
  <2>4. (\E u \in Tasks : Asleep(u))' => \E u \in Tasks : Asleep(u)
    BY <1>0, <2>1 DEF Asleep
  <2>5. SleepsOverNothing'
    BY <1>0, <2>1 DEF SleepsOverNothing
  <2>6. CASE Asleep(w)
    <3>1. Stale' = Stale
      BY <1>0, <2>1, <2>3, <2>6 DEF Stale, Asleep
    <3>2. w \notin Awake /\ Awake' = Awake \cup {w}
      BY <1>0, <2>1, <2>3, <2>6 DEF Awake, Asleep
    <3>3. Cardinality(Awake') = Cardinality(Awake) + 1
      BY <3>2, AwakeCount
    <3>4. Cardinality(Spare') \in Nat /\ Cardinality(Spare') <= Cardinality(Spare)
      <4>1. CASE rid[w] = first
        <5>1. Spare' \subseteq Spare
          BY <1>0, <2>1, <2>3, <2>6, <4>1 DEF Spare, Asleep
        <5>2. QED
          BY <1>c, <5>1, CountMoves
      <4>2. CASE rid[w] # first
        <5>1. first \in Spare
          BY <2>2, <2>3, <4>2 DEF Spare, SleeperRegistered
        <5>2. Spare' \subseteq (Spare \ {first}) \cup {rid[w]}
          BY <1>0, <2>1, <2>3, <2>6 DEF Spare, Asleep
        <5>3. QED
          BY <1>c, <5>1, <5>2, CountMoves
      <4>3. QED
        BY <4>1, <4>2
    <3>5. QED
      BY <1>0, <1>c, <2>1, <2>4, <2>5, <3>1, <3>3, <3>4 DEF Paid, Covered, Coming
  <2>7. CASE ~Asleep(w)
    <3>1. first \in Spare
      BY <2>2, <2>3, <2>7 DEF Spare, SleeperRegistered
    <3>2. Spare' \subseteq Spare \ {first}
      BY <1>0, <2>1, <2>3, <2>7 DEF Spare, Asleep
    <3>3. Cardinality(Spare') \in Nat /\ Cardinality(Spare') + 1 <= Cardinality(Spare)
      BY <1>c, <3>1, <3>2, CountMoves
    <3>4. Stale' \subseteq Stale \cup {w}
      BY <1>0, <2>1, <2>3 DEF Stale
    <3>5. Cardinality(Stale') \in Nat /\ Cardinality(Stale') <= Cardinality(Stale) + 1
      BY <1>c, <3>4, CountMoves
    <3>6. Awake' = Awake
      BY <1>0, <2>1, <2>3, <2>7 DEF Awake, Asleep
    <3>7. QED
      BY <1>0, <1>c, <2>1, <2>4, <2>5, <3>3, <3>5, <3>6 DEF Paid, Covered, Coming
  <2>8. QED
    BY <2>6, <2>7
<1>3. CASE WakeFirst /\ DOMAIN wakers = {}
  <2>1. wakers' = wakers /\ notified' = notified /\ queue' = queue
    BY <1>3 DEF WakeFirst
  <2>2. \A t \in Tasks : ~Asleep(t)
    BY <1>3 DEF SleeperRegistered
  <2>3. Spare' = Spare /\ Stale' = Stale
    BY <1>0, <2>1 DEF Spare, Stale, Asleep
  <2>4. QED
    BY <1>0, <2>1, <2>2, <2>3 DEF Paid, SleepsOverNothing, Covered, Asleep
<1>4. QED
  BY <1>1, <1>2, <1>3

\* recv(): a task that takes a message was on its way to it; one that goes to
\* sleep leaves none behind; one that is dropped pays for what it leaves.
LEMMA ReceiverKeepsCovered ==
    ASSUME IInv, TInv, MInv, NEW t \in Tasks,
           Recv(t) \/ Poll(t) \/ Woken(t) \/ Cancel(t)
    PROVE  MInv'
<1> USE DEF MInv, TInv, IInv
<1>0. dead' = dead /\ dog' = dog /\ rx' = rx
  BY DEF Recv, Poll, PollDead, PollTryRecv, PollReady, PollPending, Woken, Cancel
<1> SUFFICES ASSUME ~dead PROVE (Paid /\ SleepsOverNothing /\ Covered)'
  BY <1>0 DEF DeadAtWake
<1>c. /\ IsFiniteSet(Spare) /\ IsFiniteSet(Stale) /\ queue \in Nat /\ dropped \in Nat
      /\ Cardinality(Spare) \in Nat /\ Cardinality(Stale) \in Nat
      /\ Cardinality(Awake) \in Nat
  BY CountsFinite, FS_CardinalityType, BoundsAssumption DEF CountsTyped
<1>recv. CASE Recv(t)
  <2>1. PICK i \in Ids : rid' = [rid EXCEPT ![t] = i]
    BY <1>recv DEF Recv
  <2>2. /\ pc[t] = "idle" /\ pc' = [pc EXCEPT ![t] = "poll"]
        /\ wakers' = wakers /\ queue' = queue /\ dropped' = dropped
        /\ notified' \in {notified, notified \ {t}}
    BY <1>recv DEF Recv
  <2>3. SleepsOverNothing'
    BY <2>2 DEF SleepsOverNothing, TasksTyped
  <2>4. t \notin Awake /\ Awake' = Awake \cup {t}
    BY <2>2 DEF Awake, TasksTyped
  <2>5. Cardinality(Awake') = Cardinality(Awake) + 1
    BY <2>4, AwakeCount
  <2>6. Spare' = Spare /\ Stale' \subseteq Stale
    BY <2>1, <2>2 DEF Spare, Stale, Asleep, TasksTyped, WakersTyped
  <2>7. Cardinality(Stale') \in Nat /\ Cardinality(Stale') <= Cardinality(Stale)
    BY <1>c, <2>6, CountMoves
  <2>8. (\E u \in Tasks : Asleep(u))' => \E u \in Tasks : Asleep(u)
    BY <2>2 DEF Asleep, TasksTyped
  <2>9. QED
    BY <1>0, <1>c, <2>2, <2>3, <2>5, <2>6, <2>7, <2>8 DEF Paid, Covered, Coming
<1>look. CASE PollDead(t)
  <2>1. /\ pc[t] = "poll" /\ pc' = [pc EXCEPT ![t] = "checked"] /\ rid' = rid
        /\ wakers' = wakers /\ queue' = queue /\ notified' = notified
        /\ dropped' = dropped
    BY <1>look DEF PollDead
  <2>2. Awake' = Awake /\ Spare' = Spare /\ Stale' = Stale
    BY <2>1 DEF Awake, Spare, Stale, Asleep, TasksTyped, WakersTyped
  <2>3. QED
    BY <1>0, <2>1, <2>2 DEF Paid, SleepsOverNothing, Covered, Coming, Asleep,
       TasksTyped
<1>take. CASE PollTryRecv(t)
  <2>1. /\ pc[t] = "checked" /\ rid' = rid /\ wakers' = wakers /\ notified' = notified
        /\ dropped' = dropped
        /\ \/ queue > 0 /\ queue' = queue - 1 /\ pc' = [pc EXCEPT ![t] = "got"]
           \/ queue = 0 /\ queue' = queue /\ pc' = [pc EXCEPT ![t] = "empty"]
    BY <1>take, <1>c DEF PollTryRecv
  <2>2. t \in Awake /\ Awake' = Awake \ {t}
    BY <2>1 DEF Awake, TasksTyped
  <2>3. Cardinality(Awake') = Cardinality(Awake) - 1 /\ Cardinality(Awake') \in Nat
    BY <2>2, AwakeCount
  <2>4. Spare' = Spare /\ Stale' = Stale
    BY <2>1 DEF Spare, Stale, Asleep, TasksTyped, WakersTyped
  <2>5. (\E u \in Tasks : Asleep(u))' => \E u \in Tasks : Asleep(u)
    BY <2>1 DEF Asleep, TasksTyped
  <2>6. Covered'
    BY <1>0, <1>c, <2>1, <2>3, <2>4, <2>5 DEF Covered, Coming, Paid
  <2>7. SleepsOverNothing'
    BY <1>c, <2>1 DEF SleepsOverNothing, TasksTyped
  <2>8. QED
    BY <2>1, <2>4, <2>6, <2>7 DEF Paid
<1>ready. CASE PollReady(t)
  <2>1. /\ pc[t] = "got" /\ pc' = [pc EXCEPT ![t] = "idle"]
        /\ rid' = [rid EXCEPT ![t] = NoId]
        /\ wakers' = [i \in DOMAIN wakers \ {rid[t]} |-> wakers[i]]
        /\ queue' = queue /\ notified' = notified /\ dropped' = dropped
    BY <1>ready DEF PollReady, Return, Restrict
  <2>2. Awake' = Awake /\ Spare' \subseteq Spare /\ Stale' = Stale
    BY <2>1 DEF Awake, Spare, Stale, Asleep, TasksTyped, WakersTyped
  <2>3. Cardinality(Spare') \in Nat /\ Cardinality(Spare') <= Cardinality(Spare)
    BY <1>c, <2>2, CountMoves
  <2>4. (\E u \in Tasks : Asleep(u))' => \E u \in Tasks : Asleep(u)
    BY <2>1 DEF Asleep, TasksTyped
  <2>5. SleepsOverNothing'
    BY <2>1 DEF SleepsOverNothing, TasksTyped
  <2>6. QED
    BY <1>0, <1>c, <2>1, <2>2, <2>3, <2>4, <2>5 DEF Paid, Covered, Coming
<1>sleep. CASE PollPending(t)
  <2>1. /\ pc[t] = "empty" /\ pc' = [pc EXCEPT ![t] = "parked"] /\ rid' = rid
        /\ wakers' = [i \in DOMAIN wakers \cup {rid[t]} |->
                          IF i = rid[t] THEN t ELSE wakers[i]]
        /\ queue' = queue /\ notified' = notified /\ dropped' = dropped
    BY <1>sleep DEF PollPending
  <2>2. queue = 0
    BY <2>1 DEF SleepsOverNothing
  <2>3. CASE t \notin notified
    <3>1. Spare' \subseteq Spare /\ Stale' = Stale
      BY <2>1, <2>3 DEF Spare, Stale, Asleep, TasksTyped, WakersTyped
    <3>2. Cardinality(Spare') \in Nat /\ Cardinality(Spare') <= Cardinality(Spare)
      BY <1>c, <3>1, CountMoves
    <3>3. Awake' = Awake
      BY <2>1, <2>3 DEF Awake, TasksTyped
    <3>4. QED
      BY <1>0, <1>c, <2>1, <2>2, <3>1, <3>2, <3>3 DEF Paid, Covered, Coming,
         SleepsOverNothing
  <2>4. CASE t \in notified
    <3>1. t \in Stale /\ Stale' \subseteq Stale \ {t}
      BY <2>1, <2>4 DEF Stale, TasksTyped, WakersTyped
    <3>2. Cardinality(Stale') \in Nat /\ Cardinality(Stale') + 1 <= Cardinality(Stale)
      BY <1>c, <3>1, CountMoves
    <3>3. Spare' \subseteq Spare \cup {rid[t]}
      BY <2>1, <2>4 DEF Spare, Asleep, TasksTyped, WakersTyped
    <3>4. Cardinality(Spare') \in Nat /\ Cardinality(Spare') <= Cardinality(Spare) + 1
      BY <1>c, <3>3, CountMoves
    <3>5. t \notin Awake /\ Awake' = Awake \cup {t}
      BY <2>1, <2>4 DEF Awake, TasksTyped
    <3>6. Cardinality(Awake') = Cardinality(Awake) + 1
      BY <3>5, AwakeCount
    <3>7. QED
      BY <1>0, <1>c, <2>1, <2>2, <3>2, <3>4, <3>6 DEF Paid, Covered, Coming,
         SleepsOverNothing
  <2>5. QED
    BY <2>3, <2>4
<1>woken. CASE Woken(t)
  <2>1. /\ pc[t] = "parked" /\ t \in notified /\ pc' = [pc EXCEPT ![t] = "poll"]
        /\ rid' = rid /\ wakers' = wakers /\ queue' = queue
        /\ notified' = notified \ {t} /\ dropped' = dropped
    BY <1>woken DEF Woken
  <2>2. Awake' = Awake /\ Spare' = Spare /\ Stale' = Stale
    BY <2>1 DEF Awake, Spare, Stale, Asleep, TasksTyped, WakersTyped
  <2>3. QED
    BY <1>0, <2>1, <2>2 DEF Paid, SleepsOverNothing, Covered, Coming, Asleep,
       TasksTyped
<1>drop. CASE Cancel(t)
  <2>1. /\ pc[t] = "parked" /\ pc' = [pc EXCEPT ![t] = "idle"]
        /\ rid' = [rid EXCEPT ![t] = NoId]
        /\ wakers' = wakers /\ queue' = queue /\ notified' = notified
        /\ dropped' = dropped + 1
    BY <1>drop DEF Cancel, Return
  <2>2. SleepsOverNothing'
    BY <2>1 DEF SleepsOverNothing, TasksTyped
  <2>3. (\E u \in Tasks : Asleep(u))' => \E u \in Tasks : Asleep(u)
    BY <2>1 DEF Asleep, TasksTyped
  <2>4. CASE t \notin notified
    <3>1. Spare' \subseteq Spare \cup {rid[t]} /\ Stale' = Stale /\ Awake' = Awake
      BY <2>1, <2>4 DEF Spare, Stale, Awake, Asleep, TasksTyped, WakersTyped
    <3>2. Cardinality(Spare') \in Nat /\ Cardinality(Spare') <= Cardinality(Spare) + 1
      BY <1>c, <3>1, CountMoves
    <3>3. QED
      BY <1>0, <1>c, <2>1, <2>2, <2>3, <3>1, <3>2 DEF Paid, Covered, Coming
  <2>5. CASE t \in notified
    <3>1. Spare' \subseteq Spare /\ Stale' \subseteq Stale \cup {t}
      BY <2>1, <2>5 DEF Spare, Stale, Asleep, TasksTyped, WakersTyped
    <3>2. /\ Cardinality(Spare') \in Nat /\ Cardinality(Spare') <= Cardinality(Spare)
          /\ Cardinality(Stale') \in Nat /\ Cardinality(Stale') <= Cardinality(Stale) + 1
      BY <1>c, <3>1, CountMoves
    <3>3. t \in Awake /\ Awake' = Awake \ {t}
      BY <2>1, <2>5 DEF Awake, TasksTyped
    <3>4. Cardinality(Awake') = Cardinality(Awake) - 1 /\ Cardinality(Awake') \in Nat
      BY <3>3, AwakeCount
    <3>5. QED
      BY <1>0, <1>c, <2>1, <2>2, <2>3, <3>2, <3>4 DEF Paid, Covered, Coming
  <2>6. QED
    BY <2>4, <2>5
<1>q. QED
  BY <1>recv, <1>look, <1>take, <1>ready, <1>sleep, <1>woken, <1>drop DEF Poll

\* On a current-thread runtime no task sleeps over a message that nobody is on
\* the way to fetch, but for one message for each dropped receive, with any
\* number of receivers and payloads.
THEOREM NoStrandedMessageCorrect ==
    ASSUME ~Preemptive PROVE Spec => []NoStrandedMessage
<1>1. Init => MInv
  <2> SUFFICES ASSUME Init PROVE MInv
    OBVIOUS
  <2>1. DOMAIN wakers = {} /\ notified = {} /\ \A t \in Tasks : pc[t] = "idle"
    BY DEF Init
  <2>2. Spare = {} /\ Stale = {}
    BY <2>1 DEF Spare, Stale
  <2>3. Cardinality(Spare) = 0 /\ Cardinality(Stale) = 0
    BY <2>2, FS_EmptySet
  <2>4. QED
    BY <2>1, <2>3 DEF Init, MInv, DeadAtWake, Paid, SleepsOverNothing, Covered,
       Asleep
<1>2. IInv /\ TInv /\ MInv /\ [Next]_vars => MInv'
  <2> SUFFICES ASSUME IInv, TInv, MInv, [Next]_vars PROVE MInv'
    OBVIOUS
  <2>same. CASE UNCHANGED mvars
    BY <2>same, MessageStateOnly
  <2>dies. CASE WatchdogDeclare \/ DropSession
    BY <2>dies DEF WatchdogDeclare, DropSession, MInv, DeadAtWake
  <2>dog. CASE WatchdogLoad \/ WatchdogReset
    <3>1. UNCHANGED <<dead, dropped, queue, rx, wakers, pc, rid, notified>>
          /\ dog' \notin {"waking", "ended"}
      BY <2>dog DEF WatchdogLoad, WatchdogReset
    <3>2. Awake' = Awake /\ Spare' = Spare /\ Stale' = Stale
      BY <3>1 DEF Awake, Spare, Stale, Asleep
    <3>3. QED
      BY <3>1, <3>2 DEF MInv, DeadAtWake, Paid, SleepsOverNothing, Covered,
         Coming, Asleep
  <2>all. CASE WatchdogWakeAll
    BY <2>all DEF WatchdogWakeAll, MInv, DeadAtWake
  <2>rx. CASE HandlePayload \/ WakeFirst
    BY <2>rx, IncomingKeepsCovered
  <2>task. ASSUME NEW t \in Tasks, Recv(t) \/ Poll(t) \/ Woken(t) \/ Cancel(t)
           PROVE  MInv'
    BY <2>task, ReceiverKeepsCovered
  <2>rest. CASE HandleKeepalive \/ KeepaliveTick \/ PeerGone
                \/ (\E t \in Tasks : RecvDead(t)) \/ UNCHANGED vars
    BY <2>rest, <2>same DEF HandleKeepalive, KeepaliveTick, PeerGone, RecvDead,
       mvars, vars
  <2>q. QED
    BY <2>dies, <2>dog, <2>all, <2>rx, <2>task, <2>rest DEF Next, Watchdog
<1>3. TInv /\ MInv => NoStrandedMessage
  <2> SUFFICES ASSUME TInv, MInv, ~dead, \E t \in Tasks : Asleep(t)
               PROVE  queue <= Cardinality(Awake)
                               + (IF rx = "queued" THEN 1 ELSE 0) + dropped
    BY DEF NoStrandedMessage
  <2>1. /\ queue \in Nat /\ dropped \in Nat
        /\ Cardinality(Spare) \in Nat /\ Cardinality(Awake) \in Nat
    BY CountsFinite, FS_CardinalityType, BoundsAssumption DEF TInv, CountsTyped
  <2>2. QED
    BY <2>1 DEF MInv, Covered, Coming
<1>4. QED
  BY <1>1, <1>2, <1>3, InductiveInvariant, TypeInvariant, PTL DEF Spec
=============================================================================
