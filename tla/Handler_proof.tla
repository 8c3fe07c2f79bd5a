---------------------------- MODULE Handler_proof ----------------------------
(***************************************************************************)
(* Proofs about Handler for any number of connections, on either runtime.  *)
(*                                                                         *)
(* In every mode (dropped connects, connects at once, packets that do not  *)
(* decrypt): the types; a connection is in one place at a time (OneHome);  *)
(* once the close task of a dropped handle is through, nothing of it is    *)
(* left (DroppedHandleReleased); every session has an owner, unless its    *)
(* connect() was dropped (EstablishedOwned); a live session is removed by  *)
(* nobody else's close task or recv() (SessionSpared).  The other          *)
(* properties need the modes that their theorems assume, and TLC refutes   *)
(* each of them in the others:                                             *)
(*   HandleKeepsSession one connect() after another, none dropped;         *)
(*   LoopsMatchEntries, NoOrphanWaiter   besides, packets decrypt.         *)
(*                                                                         *)
(* The argument for DroppedHandleReleased: remove_session walks the maps   *)
(* against the direction of promotion, so it can miss an entry on its way  *)
(* up.  But a handle only exists once its session has been announced, a    *)
(* session is announced only after it was put into the last map, and       *)
(* nothing goes back from there (PromotedSettled): the walk of a handle's  *)
(* close task finds it in the first map it visits or not at all.           *)
(***************************************************************************)
EXTENDS Handler, TLAPS

Pending == Maps \ {"established"}
Early == {"new", "removing", "prepare", "spawned"}
Steps == {"idle", "look", "hold", "upgrade", "announce", "wake"}

\* The entries are where the types say.
EntriesTyped ==
    /\ slot \in [Maps -> Conns \cup {None}]
    /\ pc \in [Conns -> Waiting \cup Finished
                        \cup {"removing", "prepare", "spawned", "ready", "open"}]
    /\ role \in [Conns -> {"initiator", "poker"}]
    /\ closing \in [Conns -> 0..5]
    /\ walk \in [Conns -> 1..5]
    /\ \A c \in Conns : pc[c] \in {"new", "removing"} => walk[c] \in 1..4
    /\ rx \in [step : Steps, map : Maps, held : Conns \cup {None},
               kind : Kinds, good : BOOLEAN]

\* The receive loop holds an entry in the steps that say so.
HeldTyped ==
    /\ rx.step \in {"hold", "upgrade", "announce", "wake"} => rx.held \in Conns
    /\ rx.step = "hold" => rx.map \in Pending

\* The receive loop is telling the waiter of c.
Telling(c) == rx.step \in {"announce", "wake"} /\ rx.held = c

\* c has got into the last map at some time.
Promoted(c) == c \in announced \/ slot["established"] = c \/ Telling(c)

\* A connect() that has not inserted its entry has none.
EarlyNowhere ==
    \A c \in Conns : pc[c] \in Early => ~InMap(c) /\ ~Held(c) /\ ~Promoted(c)

\* Nothing comes back from the last map.
PromotedSettled ==
    \A c \in Conns :
        Promoted(c) => /\ \A m \in Pending : slot[m] # c
                       /\ ~Held(c) /\ c \notin looping

\* The loop of an entry about to be a session is aborted.
UpgradeQuiet == rx.step = "upgrade" => rx.held \notin looping

\* A session not in the map has been dropped.
LiveEstablished == \A c \in Conns : c \in live => slot["established"] = c

\* connect() goes on only when it was told.
ReadyAnnounced ==
    \A c \in Conns : pc[c] \in {"ready", "open", "closed"} => c \in announced

\* The first step of a handle's close task empties the last map of it.
ClosedGone ==
    \A c \in Conns :
        pc[c] = "closed" /\ closing[c] \in 2..5 => slot["established"] # c

IInv ==
    /\ EntriesTyped /\ HeldTyped /\ OneHome /\ EarlyNowhere /\ PromotedSettled
    /\ UpgradeQuiet /\ LiveEstablished /\ ReadyAnnounced /\ ClosedGone

\* One block of remove_session only takes away.
LEMMA RemoveTakesAway ==
    ASSUME EntriesTyped, LiveEstablished, NEW m \in Maps, NEW k, Remove(m, k)
    PROVE  /\ slot' \in [Maps -> Conns \cup {None}]
           /\ \A n \in Maps : slot'[n] = slot[n] \/ slot'[n] = None
           /\ looping' \subseteq looping
           /\ LiveEstablished'
           /\ m = "established" /\ k \in Conns => slot'["established"] # k
BY NoneAssumption DEF Remove, EntriesTyped, LiveEstablished, Maps

\* RemoveOrder lists the maps.
LEMMA RemoveOrderMaps ==
    /\ \A i \in 1..4 : RemoveOrder[i] \in Maps
    /\ RemoveOrder[1] = "established"
BY DEF RemoveOrder, Maps

\* Taking entries away, and stopping loops, breaks no part of the invariant.
LEMMA LessIsFine ==
    ASSUME IInv,
           slot' \in [Maps -> Conns \cup {None}],
           \A n \in Maps : slot'[n] = slot[n] \/ slot'[n] = None,
           looping' \subseteq looping, LiveEstablished',
           rx' = rx, announced' = announced
    PROVE  /\ OneHome' /\ PromotedSettled' /\ UpgradeQuiet' /\ HeldTyped'
           /\ \A c \in Conns : /\ InMap(c)' => InMap(c)
                               /\ Promoted(c)' => Promoted(c)
                               /\ Held(c)' <=> Held(c)
<1> USE DEF IInv
<1>1. \A c \in Conns : \A n \in Maps : slot'[n] = c => slot[n] = c
  BY NoneAssumption
<1>2. "established" \in Maps /\ Pending \subseteq Maps
  BY DEF Maps, Pending
<1>3. \A c \in Conns : /\ InMap(c)' => InMap(c)
                       /\ Promoted(c)' => Promoted(c)
                       /\ Held(c)' <=> Held(c)
  BY <1>1, <1>2 DEF InMap, Promoted, Held, Telling
<1>4. OneHome'
  BY <1>1, <1>3 DEF OneHome
<1>5. PromotedSettled'
  BY <1>1, <1>2, <1>3 DEF PromotedSettled
<1>6. UpgradeQuiet' /\ HeldTyped'
  BY DEF UpgradeQuiet, HeldTyped
<1>7. QED
  BY <1>3, <1>4, <1>5, <1>6

evars == <<slot, looping, live, rx, announced>>

\* The same for a step that leaves the entries alone.
LEMMA EntriesAlone ==
    ASSUME IInv, UNCHANGED evars
    PROVE  /\ OneHome' /\ PromotedSettled' /\ UpgradeQuiet' /\ HeldTyped'
           /\ LiveEstablished'
           /\ \A c \in Conns : /\ InMap(c)' => InMap(c)
                               /\ Promoted(c)' => Promoted(c)
                               /\ Held(c)' <=> Held(c)
<1>1. /\ slot' = slot /\ looping' = looping /\ live' = live /\ rx' = rx
      /\ announced' = announced
  BY DEF evars
<1>2. LiveEstablished'
  BY <1>1 DEF IInv, LiveEstablished
<1>3. slot' \in [Maps -> Conns \cup {None}]
  BY <1>1 DEF IInv, EntriesTyped
<1>4. QED
  BY <1>1, <1>2, <1>3, LessIsFine

\* The steps of connect(), of handles and of close tasks keep the invariant.
LEMMA UserSteps ==
    ASSUME IInv, NEW c \in Conns,
           \/ Connect(c) \/ Connecting(c) \/ Cancel(c) \/ DropHandle(c)
           \/ CloseStep(c) \/ SessionDies(c) \/ RecvFrom(c)
    PROVE  IInv'
<1> USE DEF IInv
<1>1. CASE \/ Connect(c) \/ PrepareFails(c) \/ PollReady(c) \/ PollPending(c)
           \/ Woken(c) \/ RemoteAddr(c) \/ Cancel(c) \/ DropHandle(c)
  <2>1. UNCHANGED evars /\ walk' = walk /\ role' = role
    BY <1>1 DEF Connect, PrepareFails, PollReady, PollPending, Woken,
       RemoteAddr, Cancel, DropHandle, evars
  <2>2. /\ pc[c] = "new" => walk[c] \in 1..4
        /\ EntriesTyped'
    BY <1>1, <2>1 DEF Connect, PrepareFails, PollReady, PollPending, Woken,
       RemoteAddr, Cancel, DropHandle, evars, EntriesTyped, Waiting, Finished
  <2>3. EarlyNowhere'
    <3>1. \A d \in Conns : pc'[d] \in Early => pc[d] \in Early
      BY <1>1 DEF Connect, PrepareFails, PollReady, PollPending, Woken,
         RemoteAddr, Cancel, DropHandle, EntriesTyped, Early, Waiting
    <3>2. QED
      BY <3>1, <2>1, EntriesAlone DEF EarlyNowhere
  <2>4. ReadyAnnounced'
    BY <1>1, <2>1 DEF Connect, PrepareFails, PollReady, PollPending, Woken,
       RemoteAddr, Cancel, DropHandle, EntriesTyped, ReadyAnnounced, evars
  <2>5. ClosedGone'
    BY <1>1, <2>1 DEF Connect, PrepareFails, PollReady, PollPending, Woken,
       RemoteAddr, Cancel, DropHandle, EntriesTyped, ClosedGone, evars
  <2>q. QED
    BY <2>1, <2>2, <2>3, <2>4, <2>5, EntriesAlone
<1>2. CASE ConnectRemove(c)
  <2>1. /\ pc[c] = "removing" /\ Remove(RemoveOrder[walk[c]], None)
        /\ walk' = [walk EXCEPT ![c] = @ + 1]
        /\ pc' = [pc EXCEPT ![c] = IF walk[c] = 4 THEN "prepare" ELSE @]
        /\ role' = role /\ closing' = closing /\ announced' = announced
        /\ rx' = rx
    BY <1>2 DEF ConnectRemove
  <2>2. walk[c] \in 1..4 /\ RemoveOrder[walk[c]] \in Maps
    BY <2>1, RemoveOrderMaps DEF EntriesTyped
  <2>3. /\ slot' \in [Maps -> Conns \cup {None}]
        /\ \A n \in Maps : slot'[n] = slot[n] \/ slot'[n] = None
        /\ looping' \subseteq looping /\ LiveEstablished'
    BY <2>1, <2>2, RemoveTakesAway
  <2>4. EntriesTyped'
    BY <2>1, <2>2, <2>3 DEF EntriesTyped
  <2>5. EarlyNowhere'
    <3>1. \A d \in Conns : pc'[d] \in Early => pc[d] \in Early
      BY <2>1 DEF EntriesTyped, Early
    <3>2. QED
      BY <3>1, <2>1, <2>3, LessIsFine DEF EarlyNowhere
  <2>6. ReadyAnnounced' /\ ClosedGone'
    BY <2>1, <2>3, NoneAssumption DEF EntriesTyped, ReadyAnnounced,
       ClosedGone, Maps
  <2>7. QED
    BY <2>1, <2>3, <2>4, <2>5, <2>6, LessIsFine
<1>3. CASE CloseStep(c)
  <2>1. /\ closing[c] \in 1..4 /\ Remove(RemoveOrder[closing[c]], c)
        /\ closing' = [closing EXCEPT ![c] = @ + 1]
        /\ pc' = pc /\ role' = role /\ walk' = walk
        /\ announced' = announced /\ rx' = rx
    BY <1>3 DEF CloseStep
  <2>2. RemoveOrder[closing[c]] \in Maps
    BY <2>1, RemoveOrderMaps
  <2>3. /\ slot' \in [Maps -> Conns \cup {None}]
        /\ \A n \in Maps : slot'[n] = slot[n] \/ slot'[n] = None
        /\ looping' \subseteq looping /\ LiveEstablished'
        /\ closing[c] = 1 => slot'["established"] # c
    BY <2>1, <2>2, RemoveTakesAway, RemoveOrderMaps
  <2>4. EntriesTyped'
    BY <2>1, <2>3 DEF EntriesTyped
  <2>5. EarlyNowhere'
    BY <2>1, <2>3, LessIsFine DEF EarlyNowhere
  <2>6. ReadyAnnounced'
    BY <2>1 DEF ReadyAnnounced
  <2>7. ClosedGone'
    <3>1. "established" \in Maps
      BY DEF Maps
    <3>2. QED
      BY <2>1, <2>3, <3>1, NoneAssumption DEF EntriesTyped, ClosedGone
  <2>8. QED
    BY <2>1, <2>3, <2>4, <2>5, <2>6, <2>7, LessIsFine
<1>4. CASE Prepare(c)
  <2>1. /\ pc[c] = "prepare" /\ looping' = looping \cup {c}
        /\ pc' = [pc EXCEPT ![c] = "spawned"]
        /\ slot' = slot /\ live' = live /\ role' = role /\ walk' = walk
        /\ closing' = closing /\ announced' = announced /\ rx' = rx
    BY <1>4 DEF Prepare
  <2>2. ~InMap(c) /\ ~Held(c) /\ ~Promoted(c)
    BY <2>1 DEF EarlyNowhere, Early
  <2>3. EntriesTyped'
    BY <2>1 DEF EntriesTyped
  <2>4. \A d \in Conns : /\ InMap(d)' <=> InMap(d)
                         /\ Promoted(d)' <=> Promoted(d)
                         /\ Held(d)' <=> Held(d)
    BY <2>1 DEF InMap, Promoted, Held, Telling
  <2>5. EarlyNowhere'
    BY <2>1, <2>4 DEF EarlyNowhere, Early, EntriesTyped
  <2>6. PromotedSettled'
    BY <2>1, <2>2, <2>4 DEF PromotedSettled
  <2>7. UpgradeQuiet'
    BY <2>1, <2>2 DEF UpgradeQuiet, Held
  <2>8. OneHome'
    BY <2>1, <2>4 DEF OneHome
  <2>9. QED
    BY <2>1, <2>3, <2>5, <2>6, <2>7, <2>8 DEF EntriesTyped, HeldTyped,
       LiveEstablished, ReadyAnnounced, ClosedGone
<1>5. CASE Insert(c)
  <2>1. /\ pc[c] = "spawned" /\ slot' = [slot EXCEPT ![role[c]] = c]
        /\ pc' = [pc EXCEPT ![c] = "poll"]
        /\ looping' = looping /\ live' = live /\ role' = role /\ walk' = walk
        /\ closing' = closing /\ announced' = announced /\ rx' = rx
    BY <1>5 DEF Insert
  <2>2. ~InMap(c) /\ ~Held(c) /\ ~Promoted(c)
    BY <2>1 DEF EarlyNowhere, Early
  <2>3. role[c] \in Pending /\ role[c] \in Maps /\ role[c] # "established"
    BY DEF EntriesTyped, Pending, Maps
  <2>4. /\ slot'[role[c]] = c
        /\ \A m \in Maps : m # role[c] => slot'[m] = slot[m]
        /\ slot'["established"] = slot["established"]
    BY <2>1, <2>3 DEF EntriesTyped, Maps
  <2>5. EntriesTyped'
    BY <2>1, <2>3 DEF EntriesTyped, Waiting
  <2>6. \A d \in Conns : /\ d # c => (InMap(d)' => InMap(d))
                         /\ Promoted(d)' <=> Promoted(d)
                         /\ Held(d)' <=> Held(d)
    BY <2>1, <2>4 DEF InMap, Promoted, Held, Telling
  <2>7. EarlyNowhere'
    BY <2>1, <2>6 DEF EarlyNowhere, Early, EntriesTyped
  <2>8. PromotedSettled'
    BY <2>1, <2>2, <2>3, <2>4, <2>6 DEF PromotedSettled, Pending
  <2>9. OneHome'
    BY <2>2, <2>4, <2>6 DEF OneHome, InMap
  <2>10. QED
    BY <2>1, <2>4, <2>5, <2>7, <2>8, <2>9 DEF EntriesTyped, HeldTyped,
       UpgradeQuiet, LiveEstablished, ReadyAnnounced, ClosedGone
<1>6. CASE SessionDies(c)
  <2>1. /\ live' = live \ {c} /\ slot' = slot /\ looping' = looping
        /\ pc' = pc /\ role' = role /\ walk' = walk /\ closing' = closing
        /\ announced' = announced /\ rx' = rx
    BY <1>6 DEF SessionDies
  <2>2. LiveEstablished' /\ slot' \in [Maps -> Conns \cup {None}]
    BY <2>1 DEF LiveEstablished, EntriesTyped
  <2>3. EarlyNowhere'
    BY <2>1, <2>2, LessIsFine DEF EarlyNowhere
  <2>4. QED
    BY <2>1, <2>2, <2>3, LessIsFine DEF EntriesTyped, ReadyAnnounced,
       ClosedGone
<1>7. CASE RecvFrom(c)
  <2>1. /\ slot["established"] # None /\ slot["established"] \notin live
        /\ slot' = [slot EXCEPT !["established"] = None]
        /\ live' = live /\ looping' = looping
        /\ pc' = pc /\ role' = role /\ walk' = walk /\ closing' = closing
        /\ announced' = announced /\ rx' = rx
    BY <1>7 DEF RecvFrom
  <2>2. /\ slot' \in [Maps -> Conns \cup {None}]
        /\ \A n \in Maps : slot'[n] = slot[n] \/ slot'[n] = None
        /\ LiveEstablished'
    BY <2>1 DEF LiveEstablished, EntriesTyped, Maps
  <2>3. EarlyNowhere'
    BY <2>1, <2>2, LessIsFine DEF EarlyNowhere
  <2>4. ClosedGone'
    BY <2>1, <2>2, NoneAssumption DEF ClosedGone, EntriesTyped, Maps
  <2>5. QED
    BY <2>1, <2>2, <2>3, <2>4, LessIsFine DEF EntriesTyped, ReadyAnnounced
<1>8. QED
  BY <1>1, <1>2, <1>3, <1>4, <1>5, <1>6, <1>7 DEF Connecting

cvars == <<pc, role, walk, closing>>

\* The steps of handle_incoming keep the invariant.
LEMMA ReceiveSteps ==
    ASSUME IInv,
           \/ \E k \in Kinds, good \in BOOLEAN : Arrive(k, good)
           \/ HandleIncoming
    PROVE  IInv'
<1> USE DEF IInv
<1>a. RxIdle \in [step : Steps, map : Maps, held : Conns \cup {None},
                  kind : Kinds, good : BOOLEAN]
      /\ RxIdle.step = "idle"
  BY DEF RxIdle, Steps, Maps, Kinds
<1>b. "established" \in Maps /\ Pending \subseteq Maps
      /\ "responder" \in Pending /\ "established" \notin Pending
  BY DEF Maps, Pending
<1>1. CASE (\E k \in Kinds, good \in BOOLEAN : Arrive(k, good)) \/ LookFurther
  <2>1. /\ slot' = slot /\ looping' = looping /\ live' = live
        /\ announced' = announced /\ cvars' = cvars
        /\ rx.step \in {"idle", "look"} /\ rx'.step \in {"idle", "look"}
    BY <1>1, <1>a DEF Arrive, LookFurther, cvars, EntriesTyped
  <2>2. rx' \in [step : Steps, map : Maps, held : Conns \cup {None},
                 kind : Kinds, good : BOOLEAN]
    <3>1. CASE \E k \in Kinds, good \in BOOLEAN : Arrive(k, good)
      BY <3>1 DEF Arrive, EntriesTyped, Steps
    <3>2. CASE LookFurther
      BY <3>2, <1>a DEF LookFurther, EntriesTyped, Maps
    <3>3. QED
      BY <1>1, <3>1, <3>2
  <2>3. \A c \in Conns : /\ InMap(c)' <=> InMap(c)
                         /\ Promoted(c)' <=> Promoted(c)
                         /\ ~Held(c)'
    BY <2>1 DEF InMap, Promoted, Held, Telling
  <2>4. EntriesTyped' /\ HeldTyped' /\ UpgradeQuiet'
    BY <2>1, <2>2 DEF EntriesTyped, HeldTyped, UpgradeQuiet, cvars
  <2>5. OneHome' /\ EarlyNowhere' /\ PromotedSettled'
    BY <2>1, <2>3 DEF OneHome, EarlyNowhere, PromotedSettled, cvars
  <2>6. QED
    BY <2>1, <2>4, <2>5 DEF LiveEstablished, ReadyAnnounced, ClosedGone, cvars
<1>2. CASE Take
  <2>1. /\ rx.step = "look" /\ rx.map \in Pending /\ slot[rx.map] \in Conns
        /\ rx' = [rx EXCEPT !.step = "hold", !.held = slot[rx.map]]
        /\ slot' = [slot EXCEPT ![rx.map] = None]
        /\ looping' = looping /\ live' = live
        /\ announced' = announced /\ cvars' = cvars
    BY <1>2 DEF Take, cvars, EntriesTyped, Pending
  <2> DEFINE h == slot[rx.map]
  <2>2. /\ rx'.step = "hold" /\ rx'.held = h /\ rx'.map = rx.map
        /\ slot'["established"] = slot["established"]
        /\ \A m \in Maps : slot'[m] = IF m = rx.map THEN None ELSE slot[m]
    BY <2>1, <1>b DEF EntriesTyped
  <2>3. EntriesTyped' /\ HeldTyped'
    BY <2>1, <2>2 DEF EntriesTyped, HeldTyped, cvars, Steps
  <2>4. \A c \in Conns : /\ InMap(c)' <=> (InMap(c) /\ c # h)
                         /\ Promoted(c)' <=> Promoted(c)
                         /\ Held(c)' <=> c = h
    <3>1. \A c \in Conns : Promoted(c)' <=> Promoted(c)
      BY <2>1, <2>2 DEF Promoted, Telling
    <3>2. \A c \in Conns : Held(c)' <=> c = h
      BY <2>2 DEF Held
    <3>3. \A c \in Conns : InMap(c)' <=> (InMap(c) /\ c # h)
      BY <2>1, <2>2, <1>b, NoneAssumption DEF InMap, OneHome
    <3>4. QED
      BY <3>1, <3>2, <3>3
  <2>5. InMap(h) /\ ~Promoted(h)
    BY <2>1, <1>b DEF InMap, PromotedSettled
  <2>6. OneHome'
    BY <2>2, <2>4, NoneAssumption DEF OneHome
  <2>7. EarlyNowhere'
    BY <2>1, <2>4, <2>5 DEF EarlyNowhere, cvars
  <2>8. PromotedSettled'
    BY <2>1, <2>2, <2>4, <2>5, <1>b, NoneAssumption DEF PromotedSettled
  <2>9. QED
    BY <2>1, <2>2, <2>3, <2>6, <2>7, <2>8 DEF UpgradeQuiet, LiveEstablished,
       ReadyAnnounced, ClosedGone, cvars
<1>3. ASSUME NEW m \in Pending, rx.step = "hold",
             slot' = [slot EXCEPT ![m] = rx.held], rx' = RxIdle,
             looping' \subseteq looping, live' = live,
             announced' = announced, cvars' = cvars
      PROVE  IInv'
  <2> DEFINE h == rx.held
  <2>1. h \in Conns /\ Held(h) /\ ~InMap(h) /\ ~Promoted(h)
    BY <1>3 DEF HeldTyped, Held, OneHome, PromotedSettled
  <2>2. /\ rx'.step = "idle"
        /\ slot'["established"] = slot["established"]
        /\ \A n \in Maps : slot'[n] = IF n = m THEN h ELSE slot[n]
    BY <1>3, <1>a, <1>b DEF EntriesTyped
  <2>3. EntriesTyped' /\ HeldTyped' /\ UpgradeQuiet'
    BY <1>3, <1>a, <2>1 DEF EntriesTyped, HeldTyped, UpgradeQuiet, cvars
  <2>4. \A c \in Conns : /\ c # h => (InMap(c)' => InMap(c))
                         /\ Promoted(c)' => Promoted(c)
                         /\ ~Held(c)'
    BY <1>3, <2>2 DEF InMap, Promoted, Held, Telling
  <2>5. OneHome'
    BY <2>1, <2>2, <2>4 DEF OneHome, InMap
  <2>6. EarlyNowhere'
    BY <1>3, <2>1, <2>4 DEF EarlyNowhere, cvars
  <2>7. PromotedSettled'
    BY <1>3, <1>b, <2>1, <2>2, <2>4 DEF PromotedSettled
  <2>8. QED
    BY <1>3, <2>2, <2>3, <2>5, <2>6, <2>7 DEF LiveEstablished,
       ReadyAnnounced, ClosedGone, cvars
<1>4. ASSUME rx.step = "hold", slot' = slot,
             rx' = RxIdle \/ rx' = [rx EXCEPT !.step = "upgrade"],
             looping' = looping \ {rx.held}, live' = live,
             announced' = announced, cvars' = cvars
      PROVE  IInv'
  <2>1. rx.held \in Conns
    BY <1>4 DEF HeldTyped
  <2>2. \/ rx'.step = "idle"
        \/ rx'.step = "upgrade" /\ rx'.held = rx.held
    BY <1>4, <1>a DEF EntriesTyped
  <2>3. EntriesTyped' /\ HeldTyped' /\ UpgradeQuiet'
    <3>1. rx' \in [step : Steps, map : Maps, held : Conns \cup {None},
                   kind : Kinds, good : BOOLEAN]
      BY <1>4, <1>a DEF EntriesTyped, Steps
    <3>2. QED
      BY <1>4, <2>1, <2>2, <3>1 DEF EntriesTyped, HeldTyped, UpgradeQuiet,
         cvars
  <2>4. \A c \in Conns : /\ InMap(c)' <=> InMap(c)
                         /\ Promoted(c)' => Promoted(c)
                         /\ Held(c)' => Held(c)
    BY <1>4, <2>2 DEF InMap, Promoted, Held, Telling
  <2>5. OneHome' /\ EarlyNowhere' /\ PromotedSettled'
    BY <1>4, <2>4 DEF OneHome, EarlyNowhere, PromotedSettled, cvars
  <2>6. QED
    BY <1>4, <2>3, <2>5 DEF LiveEstablished, ReadyAnnounced, ClosedGone, cvars
<1>5. CASE HoldPoker
  BY <1>5, <1>3, <1>4, <1>b DEF HoldPoker, PutBack, HeldTyped, cvars
<1>6. CASE HoldInitiator
  BY <1>6, <1>3, <1>4 DEF HoldInitiator, PutBack, HeldTyped, cvars
<1>7. CASE HoldResponder
  BY <1>7, <1>3, <1>4 DEF HoldResponder, PutBack, HeldTyped, cvars
<1>8. CASE Upgrade
  <2>1. /\ rx.step = "upgrade"
        /\ slot' = [slot EXCEPT !["established"] = rx.held]
        /\ live' = (live \ {slot["established"]}) \cup {rx.held}
        /\ rx' = [rx EXCEPT !.step = "announce"]
        /\ looping' = looping /\ announced' = announced /\ cvars' = cvars
    BY <1>8 DEF Upgrade, cvars
  <2> DEFINE h == rx.held
  <2>2. h \in Conns /\ Held(h) /\ ~InMap(h) /\ ~Promoted(h) /\ h \notin looping
    BY <2>1 DEF HeldTyped, Held, OneHome, PromotedSettled, UpgradeQuiet
  <2>3. /\ rx'.step = "announce" /\ rx'.held = h
        /\ slot'["established"] = h
        /\ \A n \in Maps : n # "established" => slot'[n] = slot[n]
    BY <2>1, <1>b DEF EntriesTyped
  <2>4. EntriesTyped' /\ HeldTyped' /\ UpgradeQuiet'
    BY <2>1, <2>2, <2>3, <1>b DEF EntriesTyped, HeldTyped, UpgradeQuiet,
       cvars, Steps
  <2>5. \A c \in Conns : /\ c # h => (InMap(c)' => InMap(c))
                         /\ c # h => (Promoted(c)' => Promoted(c))
                         /\ ~Held(c)'
    BY <2>3, <2>1 DEF InMap, Promoted, Held, Telling
  <2>6. OneHome'
    BY <2>2, <2>3, <2>5 DEF OneHome, InMap
  <2>7. EarlyNowhere'
    BY <2>1, <2>2, <2>5 DEF EarlyNowhere, cvars
  <2>8. PromotedSettled'
    BY <2>1, <2>2, <2>3, <2>5, <1>b DEF PromotedSettled, InMap
  <2>9. LiveEstablished'
    BY <2>1, <2>3 DEF LiveEstablished
  <2>10. ReadyAnnounced'
    BY <2>1 DEF ReadyAnnounced, cvars
  <2>11. ClosedGone'
    BY <2>1, <2>2, <2>3 DEF ClosedGone, ReadyAnnounced, Promoted, cvars
  <2>12. QED
    BY <2>4, <2>6, <2>7, <2>8, <2>9, <2>10, <2>11
<1>9. CASE Announce \/ WakeReady
  <2>1. /\ rx.step \in {"announce", "wake"} /\ rx.held \in Conns
        /\ slot' = slot /\ live' = live /\ looping' = looping
        /\ cvars' = cvars
        /\ \/ rx' = RxIdle /\ announced' = announced
           \/ /\ rx' = [rx EXCEPT !.step = "wake"]
              /\ announced' = announced \cup {rx.held}
    BY <1>9 DEF Announce, WakeReady, HeldTyped, cvars
  <2>2. \/ rx'.step = "idle"
        \/ rx'.step = "wake" /\ rx'.held = rx.held
    BY <2>1, <1>a DEF EntriesTyped
  <2>3. EntriesTyped' /\ HeldTyped' /\ UpgradeQuiet'
    <3>1. rx' \in [step : Steps, map : Maps, held : Conns \cup {None},
                   kind : Kinds, good : BOOLEAN]
      BY <2>1, <1>a DEF EntriesTyped, Steps
    <3>2. QED
      BY <2>1, <2>2, <3>1 DEF EntriesTyped, HeldTyped, UpgradeQuiet, cvars
  <2>4. \A c \in Conns : /\ InMap(c)' <=> InMap(c)
                         /\ Promoted(c)' => Promoted(c)
                         /\ ~Held(c)'
    BY <2>1, <2>2 DEF InMap, Promoted, Held, Telling
  <2>5. OneHome' /\ EarlyNowhere' /\ PromotedSettled'
    BY <2>1, <2>4 DEF OneHome, EarlyNowhere, PromotedSettled, cvars
  <2>6. QED
    BY <2>1, <2>3, <2>5 DEF LiveEstablished, ReadyAnnounced, ClosedGone, cvars
<1>10. QED
  BY <1>1, <1>2, <1>5, <1>6, <1>7, <1>8, <1>9 DEF HandleIncoming

\* The invariant is inductive.
LEMMA InductiveInvariant == Spec => []IInv
<1>1. Init => IInv
  <2> SUFFICES ASSUME Init PROVE IInv
    OBVIOUS
  <2>1. rx \in [step : Steps, map : Maps, held : Conns \cup {None},
                kind : Kinds, good : BOOLEAN] /\ rx.step = "idle"
    BY DEF Init, RxIdle, Steps, Maps, Kinds
  <2>2. EntriesTyped
    BY <2>1 DEF Init, EntriesTyped, Finished
  <2>3. \A c \in Conns : ~InMap(c) /\ ~Held(c) /\ ~Promoted(c)
    BY <2>1, NoneAssumption DEF Init, InMap, Held, Promoted, Telling, Maps
  <2>4. QED
    BY <2>1, <2>2, <2>3 DEF Init, IInv, HeldTyped, OneHome, InMap,
       EarlyNowhere, PromotedSettled, UpgradeQuiet, LiveEstablished,
       ReadyAnnounced, ClosedGone
<1>2. IInv /\ [Next]_vars => IInv'
  <2> SUFFICES ASSUME IInv, [Next]_vars PROVE IInv'
    OBVIOUS
  <2>1. CASE UNCHANGED vars
    <3>1. UNCHANGED evars /\ UNCHANGED cvars
      BY <2>1 DEF vars, evars, cvars
    <3>2. EarlyNowhere'
      BY <3>1, EntriesAlone DEF IInv, EarlyNowhere, cvars
    <3>3. QED
      BY <3>1, <3>2, EntriesAlone DEF IInv, EntriesTyped, ReadyAnnounced,
         ClosedGone, evars, cvars
  <2>2. QED
    BY <2>1, UserSteps, ReceiveSteps DEF Next
<1>3. QED
  BY <1>1, <1>2, PTL DEF Spec

\* A connection is in one map, or in the hands of handle_incoming.
THEOREM OneHomeCorrect == Spec => []OneHome
<1>1. IInv => OneHome
  BY DEF IInv
<1>2. QED
  BY <1>1, InductiveInvariant, PTL

\* The close task of a dropped handle leaves nothing of the connection.
THEOREM DroppedHandleReleasedCorrect == Spec => []DroppedHandleReleased
<1>1. IInv => DroppedHandleReleased
  <2> SUFFICES ASSUME IInv, NEW c \in Conns, pc[c] = "closed", closing[c] = 5
               PROVE  ~InMap(c) /\ ~Held(c) /\ c \notin looping /\ c \notin live
    BY DEF DroppedHandleReleased
  <2>1. Promoted(c) /\ slot["established"] # c
    BY DEF IInv, ReadyAnnounced, Promoted, ClosedGone
  <2>2. c \notin live
    BY <2>1 DEF IInv, LiveEstablished
  <2>3. /\ \A m \in Pending : slot[m] # c
        /\ ~Held(c) /\ c \notin looping
    BY <2>1 DEF IInv, PromotedSettled
  <2>4. ~InMap(c)
    BY <2>1, <2>3 DEF InMap, Pending
  <2>5. QED
    BY <2>2, <2>3, <2>4
<1>2. QED
  BY <1>1, InductiveInvariant, PTL

-----------------------------------------------------------------------------
(***************************************************************************)
(* Types, in every mode.                                                   *)
(***************************************************************************)
SetsTyped ==
    /\ looping \subseteq Conns /\ live \subseteq Conns /\ died \subseteq Conns
    /\ announced \subseteq Conns /\ registered \subseteq Conns
    /\ notified \subseteq Conns

\* Every variable keeps its type, whatever is dropped, overlaps or fails.
THEOREM TypeCorrect == Spec => []TypeOK
<1>1. Init => SetsTyped
  BY DEF Init, SetsTyped
<1>2. IInv /\ SetsTyped /\ [Next]_vars => SetsTyped'
  <2> SUFFICES ASSUME IInv, SetsTyped, [Next]_vars PROVE SetsTyped'
    OBVIOUS
  <2>1. CASE UNCHANGED vars
    BY <2>1 DEF vars, SetsTyped
  <2>2. CASE \E k \in Kinds, good \in BOOLEAN : Arrive(k, good)
    BY <2>2 DEF Arrive, SetsTyped
  <2>3. CASE HandleIncoming
    BY <2>3 DEF HandleIncoming, LookFurther, Take, HoldPoker, HoldInitiator,
       HoldResponder, Upgrade, Announce, WakeReady, SetsTyped, IInv, HeldTyped
  <2>4. ASSUME NEW c \in Conns, Connecting(c) PROVE SetsTyped'
    BY <2>4 DEF Connecting, ConnectRemove, Remove, Prepare, PrepareFails,
       Insert, PollReady, PollPending, Woken, RemoteAddr, SetsTyped
  <2>5. ASSUME NEW c \in Conns,
               Connect(c) \/ Cancel(c) \/ DropHandle(c) \/ CloseStep(c)
               \/ SessionDies(c) \/ RecvFrom(c)
        PROVE  SetsTyped'
    BY <2>5 DEF Connect, Cancel, DropHandle, CloseStep, Remove, SessionDies,
       RecvFrom, SetsTyped
  <2>q. QED
    BY <2>1, <2>2, <2>3, <2>4, <2>5 DEF Next
<1>3. IInv /\ SetsTyped => TypeOK
  BY DEF IInv, EntriesTyped, SetsTyped, TypeOK, Steps
<1>4. QED
  BY <1>1, <1>2, <1>3, InductiveInvariant, PTL DEF Spec

-----------------------------------------------------------------------------
(***************************************************************************)
(* What the steps of handle_incoming do to the entries, for the arguments  *)
(* below: the packet is of no use to a map, an entry is taken, put into a  *)
(* pending map, given up or found ready, and a ready one becomes a session *)
(* whose waiter is told.                                                   *)
(***************************************************************************)
Passes ==
    /\ rx.step \in {"idle", "look"} /\ rx'.step \in {"idle", "look"}
    /\ UNCHANGED <<slot, looping, live, announced>>
Takes ==
    /\ rx.step = "look" /\ rx.map \in Pending /\ slot[rx.map] \in Conns
    /\ rx'.step = "hold" /\ rx'.held = slot[rx.map]
    /\ \A n \in Maps : slot'[n] = IF n = rx.map THEN None ELSE slot[n]
    /\ UNCHANGED <<looping, live, announced>>
PutsInto(m) ==
    /\ rx.step = "hold" /\ rx.held \in Conns /\ rx'.step = "idle"
    /\ \A n \in Maps : slot'[n] = IF n = m THEN rx.held ELSE slot[n]
    /\ looping' = looping \/ (~rx.good /\ looping' = looping \ {rx.held})
    /\ UNCHANGED <<live, announced>>
GivesUp ==
    /\ rx.step = "hold" /\ rx.held \in Conns /\ ~rx.good /\ rx'.step = "idle"
    /\ looping' = looping \ {rx.held}
    /\ UNCHANGED <<slot, live, announced>>
Readies ==
    /\ rx.step = "hold" /\ rx.held \in Conns
    /\ rx'.step = "upgrade" /\ rx'.held = rx.held
    /\ looping' = looping \ {rx.held}
    /\ UNCHANGED <<slot, live, announced>>
Promotes ==
    /\ rx.step = "upgrade" /\ rx.held \in Conns
    /\ rx'.step = "announce" /\ rx'.held = rx.held
    /\ \A n \in Maps : slot'[n] = IF n = "established" THEN rx.held ELSE slot[n]
    /\ live' = (live \ {slot["established"]}) \cup {rx.held}
    /\ UNCHANGED <<looping, announced>>
Tells ==
    /\ rx.step \in {"announce", "wake"} /\ rx.held \in Conns
    /\ \/ /\ rx.step = "announce" /\ pc[rx.held] \in Waiting
          /\ rx'.step = "wake" /\ rx'.held = rx.held
          /\ announced' = announced \cup {rx.held}
       \/ /\ rx.step = "announce" => pc[rx.held] \notin Waiting
          /\ rx'.step = "idle" /\ announced' = announced
    /\ UNCHANGED <<slot, looping, live>>

LEMMA ReceiveShapes ==
    ASSUME IInv,
           \/ \E k \in Kinds, good \in BOOLEAN : Arrive(k, good)
           \/ HandleIncoming
    PROVE  /\ UNCHANGED <<pc, role, walk, closing, died>>
           /\ \/ Passes \/ Takes \/ (\E m \in Pending : PutsInto(m))
              \/ GivesUp \/ Readies \/ Promotes \/ Tells
<1> USE DEF IInv, EntriesTyped
<1>a. RxIdle.step = "idle"
  BY DEF RxIdle
<1>b. "established" \in Maps /\ Pending \subseteq Maps /\ "responder" \in Pending
  BY DEF Maps, Pending
<1>1. CASE (\E k \in Kinds, good \in BOOLEAN : Arrive(k, good)) \/ LookFurther
  BY <1>1, <1>a DEF Arrive, LookFurther, Passes
<1>2. CASE Take
  <2>1. Takes
    BY <1>2 DEF Take, Takes, Pending
  <2>2. QED
    BY <1>2, <2>1 DEF Take
<1>3. ASSUME NEW m \in Pending, rx.step = "hold",
             slot' = [slot EXCEPT ![m] = rx.held], rx' = RxIdle,
             looping' = looping \/ (~rx.good /\ looping' = looping \ {rx.held}),
             live' = live, announced' = announced
      PROVE  PutsInto(m)
  BY <1>3, <1>a, <1>b DEF PutsInto, HeldTyped
<1>4. CASE HoldPoker
  <2>1. \/ \E m \in Pending : PutsInto(m)
        \/ GivesUp
    BY <1>4, <1>3, <1>a, <1>b DEF HoldPoker, PutBack, HeldTyped, GivesUp
  <2>2. QED
    BY <1>4, <2>1 DEF HoldPoker
<1>5. CASE HoldInitiator
  <2>1. \/ \E m \in Pending : PutsInto(m)
        \/ Readies
    BY <1>5, <1>3 DEF HoldInitiator, PutBack, HeldTyped, Readies
  <2>2. QED
    BY <1>5, <2>1 DEF HoldInitiator
<1>6. CASE HoldResponder
  <2>1. \/ \E m \in Pending : PutsInto(m)
        \/ Readies
    BY <1>6, <1>3 DEF HoldResponder, PutBack, HeldTyped, Readies
  <2>2. QED
    BY <1>6, <2>1 DEF HoldResponder
<1>7. CASE Upgrade
  <2>1. Promotes
    BY <1>7, <1>b DEF Upgrade, Promotes, HeldTyped
  <2>2. QED
    BY <1>7, <2>1 DEF Upgrade
<1>8. CASE Announce \/ WakeReady
  BY <1>8, <1>a DEF Announce, WakeReady, Tells, HeldTyped
<1>9. QED
  BY <1>1, <1>2, <1>4, <1>5, <1>6, <1>7, <1>8 DEF HandleIncoming

\* What the steps of a user task do to the entries: its own go in, entries of
\* others go out.
Removes(m) ==
    /\ m \in Maps
    /\ \A n \in Maps : slot'[n] = IF n = m THEN None ELSE slot[n]
    /\ looping' = looping \ {slot[m]} /\ live' = live \ {slot[m]}

LEMMA RemoveShape ==
    ASSUME EntriesTyped, NEW m \in Maps, NEW k, Remove(m, k)
    PROVE  \/ UNCHANGED <<slot, looping, live>> /\ ~(k = None \/ slot[m] = k)
           \/ Removes(m) /\ (k = None \/ slot[m] = k)
BY DEF Remove, EntriesTyped, Removes

-----------------------------------------------------------------------------
(***************************************************************************)
(* An entry that waits for packets, in a map or in the hands of            *)
(* handle_incoming, is that of a waiting connect(), or of one that was     *)
(* dropped, and every session has its owner.                               *)
(***************************************************************************)
EntryOf(c) == (\E m \in Pending : slot[m] = c) \/ Held(c)
Cancelled(c) == Cancels /\ pc[c] = "cancelled"
EntryWaits == \A c \in Conns : EntryOf(c) => pc[c] \in Waiting \/ Cancelled(c)
ClosingClosed == \A c \in Conns : closing[c] # 0 => pc[c] = "closed" \/ Cancelled(c)
CInv == EntryWaits /\ ClosingClosed /\ EstablishedOwned

\* Entries that go away disturb none of it.
LEMMA LessIsOwned ==
    ASSUME IInv, CInv, slot' \in [Maps -> Conns \cup {None}],
           \A n \in Maps : slot'[n] = slot[n] \/ slot'[n] = None,
           rx' = rx
    PROVE  \A c \in Conns : /\ EntryOf(c)' => EntryOf(c)
                            /\ slot'["established"] = c => slot["established"] = c
BY NoneAssumption DEF EntryOf, Held, Pending, Maps

LEMMA OwnedStep ==
    ASSUME IInv, CInv, [Next]_vars PROVE CInv'
<1> USE DEF CInv, IInv, Cancelled
<1>m. "established" \in Maps /\ Pending \subseteq Maps /\ "established" \notin Pending
  BY DEF Maps, Pending
<1>rx. CASE (\E k \in Kinds, good \in BOOLEAN : Arrive(k, good)) \/ HandleIncoming
  <2>1. /\ pc' = pc /\ closing' = closing
        /\ \/ Passes \/ Takes \/ (\E m \in Pending : PutsInto(m))
           \/ GivesUp \/ Readies \/ Promotes \/ Tells
    BY <1>rx, ReceiveShapes
  <2>2. \A c \in Conns : EntryOf(c)' => EntryOf(c)
    BY <2>1, <1>m, NoneAssumption DEF EntryOf, Held, Passes, Takes, PutsInto, GivesUp,
       Readies, Promotes, Tells
  <2>3. \A c \in Conns : slot'["established"] = c
                            => slot["established"] = c \/ Held(c)
    BY <2>1, <1>m, NoneAssumption DEF Held, Passes, Takes, PutsInto, GivesUp, Readies,
       Promotes, Tells
  <2>4. QED
    BY <2>1, <2>2, <2>3 DEF EntryWaits, ClosingClosed, EstablishedOwned, EntryOf
<1>quiet. ASSUME NEW c \in Conns,
                 \/ Connect(c) \/ PrepareFails(c) \/ PollReady(c)
                 \/ PollPending(c) \/ Woken(c) \/ RemoteAddr(c) \/ DropHandle(c)
                 \/ Cancel(c)
          PROVE  CInv'
  <2>1. /\ slot' = slot /\ rx' = rx
        /\ \A d \in Conns : d # c => pc'[d] = pc[d] /\ closing'[d] = closing[d]
    BY <1>quiet DEF Connect, PrepareFails, PollReady, PollPending, Woken,
       RemoteAddr, DropHandle, Cancel, EntriesTyped
  <2>2. \A d \in Conns : EntryOf(d)' => EntryOf(d)
    BY <2>1 DEF EntryOf, Held
  <2>3. EntryOf(c) => pc'[c] \in Waiting \/ Cancelled(c)'
    <3>1. EntryOf(c) => (pc[c] \in Waiting \/ Cancelled(c)) /\ c \notin announced
      BY DEF EntryWaits, PromotedSettled, Promoted, EntryOf
    <3>2. QED
      BY <1>quiet, <3>1 DEF Connect, PrepareFails, PollReady, PollPending,
         Woken, RemoteAddr, DropHandle, Cancel, EntriesTyped, Waiting
  <2>4. closing'[c] # 0 => pc'[c] = "closed" \/ Cancelled(c)'
    BY <1>quiet DEF Connect, PrepareFails, PollReady, PollPending,
       Woken, RemoteAddr, DropHandle, Cancel, EntriesTyped, ClosingClosed, Waiting, Early
  <2>5. slot["established"] = c
            => pc'[c] \in Waiting \cup {"ready", "open", "cancelled"} \/ closing'[c] = 1
    <3>1. slot["established"] = c => pc[c] \notin {"new", "prepare"}
      BY DEF EarlyNowhere, Early, Promoted
    <3>2. QED
      BY <1>quiet, <3>1, NoneAssumption DEF Connect, PrepareFails, PollReady,
         PollPending, Woken, RemoteAddr, DropHandle, Cancel, EntriesTyped, Waiting, EstablishedOwned
  <2>q. QED
    BY <2>1, <2>2, <2>3, <2>4, <2>5 DEF EntryWaits, ClosingClosed, EstablishedOwned
<1>remove. ASSUME NEW c \in Conns, ConnectRemove(c) PROVE CInv'
  <2>1. /\ pc[c] = "removing" /\ Remove(RemoveOrder[walk[c]], None)
        /\ pc'[c] \in {"removing", "prepare"}
        /\ \A d \in Conns : d # c => pc'[d] = pc[d]
        /\ closing' = closing /\ rx' = rx
    BY <1>remove DEF ConnectRemove, EntriesTyped
  <2>2. RemoveOrder[walk[c]] \in Maps
    BY <2>1, RemoveOrderMaps DEF EntriesTyped
  <2>3. /\ slot' \in [Maps -> Conns \cup {None}]
        /\ \A n \in Maps : slot'[n] = slot[n] \/ slot'[n] = None
    BY <2>1, <2>2, RemoveTakesAway
  <2>4. ~EntryOf(c) /\ slot["established"] # c
    BY <2>1, <1>m DEF EarlyNowhere, Early, Promoted, InMap, EntryOf
  <2>5. QED
    BY <2>1, <2>3, <2>4, LessIsOwned DEF EntryWaits, ClosingClosed, EstablishedOwned
<1>close. ASSUME NEW c \in Conns, CloseStep(c) PROVE CInv'
  <2>1. /\ closing[c] \in 1..4 /\ Remove(RemoveOrder[closing[c]], c)
        /\ closing' = [closing EXCEPT ![c] = @ + 1]
        /\ pc' = pc /\ rx' = rx
    BY <1>close DEF CloseStep
  <2>2. RemoveOrder[closing[c]] \in Maps
    BY <2>1, RemoveOrderMaps
  <2>3. /\ slot' \in [Maps -> Conns \cup {None}]
        /\ \A n \in Maps : slot'[n] = slot[n] \/ slot'[n] = None
        /\ closing[c] = 1 => slot'["established"] # c
    BY <2>1, <2>2, RemoveTakesAway, RemoveOrderMaps
  <2>4. \A d \in Conns : /\ closing'[d] # 0 => closing[d] # 0
                         /\ d # c => closing'[d] = closing[d]
    BY <2>1 DEF EntriesTyped
  <2>5. QED
    BY <2>1, <2>3, <2>4, LessIsOwned DEF EntryWaits, ClosingClosed, EstablishedOwned
<1>prepare. ASSUME NEW c \in Conns, Prepare(c) \/ Insert(c) PROVE CInv'
  <2>1. /\ pc[c] \in Early /\ rx' = rx /\ closing' = closing /\ pc'[c] # "closed"
        /\ \A d \in Conns : d # c => pc'[d] = pc[d]
        /\ slot'["established"] = slot["established"]
        /\ \/ slot' = slot
           \/ /\ pc'[c] = "poll"
              /\ \A n \in Maps : slot'[n] = c \/ slot'[n] = slot[n]
    BY <1>prepare, <1>m DEF Prepare, Insert, EntriesTyped, Early
  <2>2. ~EntryOf(c) /\ slot["established"] # c
    BY <2>1, <1>m DEF EarlyNowhere, Promoted, InMap, EntryOf
  <2>3. \A d \in Conns : EntryOf(d)' => EntryOf(d) \/ (d = c /\ pc'[c] = "poll")
    BY <2>1, <1>m DEF EntryOf, Held
  <2>4. closing[c] = 0
    BY <2>1 DEF ClosingClosed, Early
  <2>5. QED
    BY <2>1, <2>2, <2>3, <2>4 DEF EntryWaits, ClosingClosed, EstablishedOwned, Waiting
<1>gone. ASSUME NEW c \in Conns, SessionDies(c) \/ RecvFrom(c) PROVE CInv'
  <2>1. /\ pc' = pc /\ closing' = closing /\ rx' = rx
        /\ slot' \in [Maps -> Conns \cup {None}]
        /\ \A n \in Maps : slot'[n] = slot[n] \/ slot'[n] = None
    BY <1>gone, <1>m DEF SessionDies, RecvFrom, EntriesTyped
  <2>2. QED
    BY <2>1, LessIsOwned DEF EntryWaits, ClosingClosed, EstablishedOwned
<1>stutter. CASE UNCHANGED vars
  BY <1>stutter DEF vars, EntryWaits, ClosingClosed, EstablishedOwned, EntryOf, Held
<1>q. QED
  BY <1>rx, <1>quiet, <1>remove, <1>close, <1>prepare, <1>gone, <1>stutter
     DEF Next, Connecting

LEMMA OwnedInvariant == Spec => []CInv
<1>1. Init => CInv
  <2> SUFFICES ASSUME Init PROVE CInv
    OBVIOUS
  <2>1. \A c \in Conns : ~EntryOf(c) /\ slot["established"] # c
    BY NoneAssumption DEF Init, EntryOf, Held, RxIdle, Maps, Pending
  <2>2. QED
    BY <2>1 DEF Init, CInv, EntryWaits, ClosingClosed, EstablishedOwned
<1>2. IInv /\ CInv /\ [Next]_vars => CInv'
  BY OwnedStep
<1>3. QED
  BY <1>1, <1>2, InductiveInvariant, PTL DEF Spec

\* A session in the map has an owner, or its connect() was dropped: also when
\* connects overlap and packets do not decrypt, and on either runtime.
THEOREM EstablishedOwnedCorrect == Spec => []EstablishedOwned
<1>1. CInv => EstablishedOwned
  BY DEF CInv
<1>2. QED
  BY <1>1, OwnedInvariant, PTL

\* A live session is taken out of the map by its own close task, a new
\* connect() or a later session only, in every mode: the close task of another
\* handle has another one_time_id, and recv_from removes the dead.
THEOREM SessionSparedCorrect == Spec => SessionSpared
<1> DEFINE Spared ==
        \A c \in Conns :
          slot["established"] = c /\ c \in live /\ slot'["established"] # c
              => \/ closing[c] = 1 /\ closing'[c] = 2
                 \/ \E d \in Conns : walk[d] = 1 /\ walk'[d] = 2
                 \/ rx.step = "upgrade" /\ rx'.step = "announce"
<1>1. IInv /\ [Next]_vars => [Spared]_vars
  <2> SUFFICES ASSUME IInv, Next PROVE Spared
    OBVIOUS
  <2> USE DEF IInv
  <2>m. "established" \in Maps /\ Pending \subseteq Maps /\ "established" \notin Pending
    BY DEF Maps, Pending
  <2>rx. CASE (\E k \in Kinds, good \in BOOLEAN : Arrive(k, good)) \/ HandleIncoming
    <3>1. \/ Passes \/ Takes \/ (\E m \in Pending : PutsInto(m))
          \/ GivesUp \/ Readies \/ Promotes \/ Tells
      BY <2>rx, ReceiveShapes
    <3>2. QED
      BY <2>m, <3>1 DEF Passes, Takes, PutsInto, GivesUp, Readies, Promotes, Tells
  <2>remove. ASSUME NEW d \in Conns, ConnectRemove(d) PROVE Spared
    <3>1. /\ walk[d] \in 1..4 /\ walk'[d] = walk[d] + 1
          /\ Remove(RemoveOrder[walk[d]], None)
      BY <2>remove DEF ConnectRemove, EntriesTyped
    <3>2. CASE walk[d] = 1
      BY <3>1, <3>2
    <3>3. CASE walk[d] # 1
      <4>1. RemoveOrder[walk[d]] \in Pending
        BY <3>1, <3>3 DEF RemoveOrder, Pending, Maps
      <4>2. slot'["established"] = slot["established"]
        BY <2>m, <3>1, <4>1 DEF Remove, EntriesTyped
      <4>3. QED
        BY <4>2
    <3>4. QED
      BY <3>2, <3>3
  <2>close. ASSUME NEW d \in Conns, CloseStep(d) PROVE Spared
    <3>1. /\ closing[d] \in 1..4 /\ closing'[d] = closing[d] + 1
          /\ Remove(RemoveOrder[closing[d]], d)
      BY <2>close DEF CloseStep, EntriesTyped
    <3>2. CASE closing[d] = 1
      <4>1. slot'["established"] = slot["established"] \/ slot["established"] = d
        BY <3>1, <3>2, RemoveOrderMaps, NoneAssumption DEF Remove
      <4>2. QED
        BY <3>1, <3>2, <4>1
    <3>3. CASE closing[d] # 1
      <4>1. RemoveOrder[closing[d]] \in Pending
        BY <3>1, <3>3 DEF RemoveOrder, Pending, Maps
      <4>2. slot'["established"] = slot["established"]
        BY <2>m, <3>1, <4>1 DEF Remove, EntriesTyped
      <4>3. QED
        BY <4>2
    <3>4. QED
      BY <3>2, <3>3
  <2>recv. ASSUME NEW d \in Conns, RecvFrom(d) PROVE Spared
    BY <2>recv DEF RecvFrom
  <2>rest. ASSUME NEW d \in Conns,
                  \/ Connect(d) \/ Prepare(d) \/ PrepareFails(d) \/ Insert(d)
                  \/ PollReady(d) \/ PollPending(d) \/ Woken(d) \/ RemoteAddr(d)
                  \/ Cancel(d) \/ DropHandle(d) \/ SessionDies(d)
           PROVE  Spared
    <3>1. slot'["established"] = slot["established"]
      BY <2>rest, <2>m DEF Connect, Prepare, PrepareFails, Insert, PollReady,
         PollPending, Woken, RemoteAddr, Cancel, DropHandle, SessionDies,
         EntriesTyped
    <3>2. QED
      BY <3>1
  <2>q. QED
    BY <2>rx, <2>remove, <2>close, <2>recv, <2>rest DEF Next, Connecting
<1>2. QED
  BY <1>1, InductiveInvariant, PTL DEF Spec, SessionSpared

-----------------------------------------------------------------------------
(***************************************************************************)
(* Every handshake packet decrypts.  Then a pending entry keeps sending,   *)
(* also when connects overlap and are dropped: the loop of an entry stops  *)
(* only with the entry.                                                    *)
(***************************************************************************)
HeldSends == rx.step = "hold" => rx.held \in looping
SpawnedSends == \A c \in Conns : pc[c] = "spawned" => c \in looping
PInv == rx.good /\ HeldSends /\ SpawnedSends /\ PendingKeepsSending

\* An entry that is removed takes its own loop with it and no other.
LEMMA RemovalSends ==
    ASSUME IInv, PInv, NEW m \in Maps, NEW k, Remove(m, k), rx' = rx
    PROVE  rx'.good /\ HeldSends' /\ PendingKeepsSending'
<1> USE DEF IInv, PInv
<1>1. \/ UNCHANGED <<slot, looping, live>>
      \/ Removes(m)
  BY RemoveShape
<1>2. CASE UNCHANGED <<slot, looping, live>>
  BY <1>2 DEF HeldSends, PendingKeepsSending
<1>3. CASE Removes(m)
  <2>1. HeldSends'
    BY <1>3 DEF Removes, HeldSends, HeldTyped, OneHome, Held, InMap
  <2>2. PendingKeepsSending'
    BY <1>3, NoneAssumption DEF Removes, PendingKeepsSending, OneHome, EntriesTyped
  <2>3. QED
    BY <2>1, <2>2
<1>4. QED
  BY <1>1, <1>2, <1>3

\* A connect() that has spawned its loop but not inserted its entry is out of
\* reach of removals.
LEMMA RemovalSparesSpawned ==
    ASSUME IInv, PInv, NEW m \in Maps, NEW k, Remove(m, k),
           \A c \in Conns : pc'[c] = "spawned" => pc[c] = "spawned"
    PROVE  SpawnedSends'
<1>1. \A c \in Conns : pc[c] = "spawned" => slot[m] # c
  BY DEF IInv, EarlyNowhere, Early, InMap
<1>2. QED
  BY <1>1, RemoveShape DEF IInv, PInv, SpawnedSends, Removes

LEMMA SendingStep ==
    ASSUME ~BadPackets, IInv, PInv, [Next]_vars PROVE PInv'
<1> USE DEF PInv, IInv
<1>m. "established" \in Maps /\ Pending \subseteq Maps
      /\ Pending = Maps \ {"established"}
  BY DEF Maps, Pending
<1>rx. CASE (\E k \in Kinds, good \in BOOLEAN : Arrive(k, good)) \/ HandleIncoming
  <2>1. /\ pc' = pc
        /\ \/ Passes \/ Takes \/ (\E m \in Pending : PutsInto(m))
           \/ GivesUp \/ Readies \/ Promotes \/ Tells
    BY <1>rx, ReceiveShapes
  <2>2. rx'.good
    <3>1. RxIdle.good /\ \A s \in Steps, n \in Maps, h \in Conns \cup {None} :
              /\ [rx EXCEPT !.step = s].good
              /\ [rx EXCEPT !.step = s, !.held = h].good
              /\ [rx EXCEPT !.map = n].good
      BY DEF RxIdle, EntriesTyped
    <3>2. CASE \E k \in Kinds, good \in BOOLEAN : Arrive(k, good)
      BY <3>2 DEF Arrive, EntriesTyped
    <3>3. CASE LookFurther
      BY <3>1, <3>3 DEF LookFurther, Maps
    <3>4. CASE Take \/ Upgrade \/ Announce \/ WakeReady
      BY <3>1, <3>4 DEF Take, Upgrade, Announce, WakeReady, Steps, EntriesTyped
    <3>5. CASE HoldPoker \/ HoldInitiator \/ HoldResponder
      <4>1. rx' = RxIdle \/ rx' = [rx EXCEPT !.step = "upgrade"]
        BY <3>5 DEF HoldPoker, HoldInitiator, HoldResponder, PutBack
      <4>2. [rx EXCEPT !.step = "upgrade"].good
        BY DEF EntriesTyped
      <4>3. QED
        BY <3>1, <4>1, <4>2
    <3>6. QED
      BY <1>rx, <3>2, <3>3, <3>4, <3>5 DEF HandleIncoming
  <2>3. CASE Passes \/ Tells
    BY <2>1, <2>2, <2>3 DEF Passes, Tells, HeldSends, SpawnedSends,
       PendingKeepsSending
  <2>4. CASE Takes
    BY <2>1, <2>2, <2>4, <1>m, NoneAssumption DEF Takes, HeldSends, SpawnedSends,
       PendingKeepsSending
  <2>5. ASSUME NEW m \in Pending, PutsInto(m) PROVE PInv'
    BY <2>1, <2>2, <2>5, <1>m DEF PutsInto, HeldSends, SpawnedSends,
       PendingKeepsSending
  <2>6. ~GivesUp
    BY DEF GivesUp
  <2>7. CASE Readies
    <3>1. Held(rx.held) /\ ~InMap(rx.held) /\ pc[rx.held] # "spawned"
      BY <2>7 DEF Readies, Held, OneHome, EarlyNowhere, Early
    <3>2. QED
      BY <2>1, <2>2, <2>7, <3>1, <1>m DEF Readies, HeldSends, SpawnedSends,
         PendingKeepsSending, InMap
  <2>8. CASE Promotes
    BY <2>1, <2>2, <2>8, <1>m DEF Promotes, HeldSends, SpawnedSends,
       PendingKeepsSending
  <2>9. QED
    BY <2>1, <2>3, <2>4, <2>5, <2>6, <2>7, <2>8
<1>quiet. ASSUME NEW c \in Conns,
                 \/ Connect(c) \/ PrepareFails(c) \/ PollReady(c) \/ PollPending(c)
                 \/ Woken(c) \/ RemoteAddr(c) \/ Cancel(c) \/ DropHandle(c)
                 \/ SessionDies(c)
          PROVE  PInv'
  <2>1. /\ slot' = slot /\ rx' = rx /\ looping' = looping
        /\ \A d \in Conns : pc'[d] = "spawned" => pc[d] = "spawned"
    BY <1>quiet DEF Connect, PrepareFails, PollReady, PollPending, Woken,
       RemoteAddr, Cancel, DropHandle, SessionDies, EntriesTyped
  <2>2. QED
    BY <2>1 DEF HeldSends, SpawnedSends, PendingKeepsSending
<1>remove. ASSUME NEW c \in Conns, ConnectRemove(c) PROVE PInv'
  <2>1. /\ walk[c] \in 1..4 /\ Remove(RemoveOrder[walk[c]], None) /\ rx' = rx
        /\ \A d \in Conns : pc'[d] = "spawned" => pc[d] = "spawned"
    BY <1>remove DEF ConnectRemove, EntriesTyped
  <2>2. QED
    BY <2>1, RemoveOrderMaps, RemovalSends, RemovalSparesSpawned
<1>close. ASSUME NEW c \in Conns, CloseStep(c) PROVE PInv'
  <2>1. /\ closing[c] \in 1..4 /\ Remove(RemoveOrder[closing[c]], c) /\ rx' = rx
        /\ pc' = pc
    BY <1>close DEF CloseStep
  <2>2. QED
    BY <2>1, RemoveOrderMaps, RemovalSends, RemovalSparesSpawned
<1>prepare. ASSUME NEW c \in Conns, Prepare(c) PROVE PInv'
  BY <1>prepare DEF Prepare, HeldSends, SpawnedSends, PendingKeepsSending,
     EntriesTyped
<1>insert. ASSUME NEW c \in Conns, Insert(c) PROVE PInv'
  BY <1>insert DEF Insert, HeldSends, SpawnedSends, PendingKeepsSending,
     EntriesTyped
<1>recv. ASSUME NEW c \in Conns, RecvFrom(c) PROVE PInv'
  BY <1>recv DEF RecvFrom, HeldSends, SpawnedSends, PendingKeepsSending,
     EntriesTyped
<1>stutter. CASE UNCHANGED vars
  BY <1>stutter DEF vars, HeldSends, SpawnedSends, PendingKeepsSending
<1>q. QED
  BY <1>rx, <1>quiet, <1>remove, <1>close, <1>prepare, <1>insert, <1>recv,
     <1>stutter DEF Next, Connecting

LEMMA SendingInvariant == ASSUME ~BadPackets PROVE Spec => []PInv
<1>1. Init => PInv
  BY DEF Init, PInv, RxIdle, HeldSends, SpawnedSends, PendingKeepsSending
<1>2. IInv /\ PInv /\ [Next]_vars => PInv'
  BY SendingStep
<1>3. QED
  BY <1>1, <1>2, InductiveInvariant, PTL DEF Spec

-----------------------------------------------------------------------------
(***************************************************************************)
(* connect() calls with this id follow one another: one starts when the    *)
(* earlier ones are through, and none is dropped.  Then only one of them   *)
(* is under way (OneActive), every pending entry is its (EntryWaits), and  *)
(* an insertion or put-back never finds its place taken.  The close tasks  *)
(* of earlier handles may still run, and packets may fail to decrypt.      *)
(***************************************************************************)
OneActive ==
    \A c, d \in Conns : pc[c] \notin Finished /\ pc[d] \notin Finished => c = d

\* The session of the connection under way stays, and lives, until its
\* watchdog gives up.
Served == Waiting \cup {"ready", "open"}
SessionKept ==
    \A c \in Conns :
        Promoted(c) /\ pc[c] \in Served /\ c \notin died
            => slot["established"] = c /\ c \in live

SInv == looping \subseteq Conns /\ OneActive /\ NoOrphanLoop /\ SessionKept

\* Two connections under way are the same.
LEMMA ActiveAlone ==
    ASSUME ~Cancels, IInv, CInv, SInv, NEW c \in Conns, NEW d \in Conns,
           EntryOf(c) \/ pc[c] \in Served \/ pc[c] \in {"removing", "prepare", "spawned"},
           EntryOf(d) \/ pc[d] \in Served \/ pc[d] \in {"removing", "prepare", "spawned"}
    PROVE  c = d
BY DEF SInv, OneActive, CInv, EntryWaits, Cancelled, Served, Waiting, Finished

\* A loop has an entry, or its connect() is about to insert one.
LEMMA LoopHasEntry ==
    NoOrphanLoop <=> \A c \in looping : EntryOf(c) \/ pc[c] = "spawned"
BY DEF NoOrphanLoop, EntryOf, Pending

LEMMA SequentialReceive ==
    ASSUME ~Cancels, IInv, CInv, SInv,
           (\E k \in Kinds, good \in BOOLEAN : Arrive(k, good)) \/ HandleIncoming
    PROVE  SInv'
<1> USE DEF IInv
<1>m. "established" \in Maps /\ Pending \subseteq Maps
      /\ Pending = Maps \ {"established"}
  BY DEF Maps, Pending
<1>0. /\ pc' = pc /\ died' = died
      /\ \/ Passes \/ Takes \/ (\E m \in Pending : PutsInto(m))
         \/ GivesUp \/ Readies \/ Promotes \/ Tells
  BY ReceiveShapes
<1>1. OneActive' /\ looping' \subseteq looping
  BY <1>0 DEF SInv, OneActive, Passes, Takes, PutsInto, GivesUp, Readies,
     Promotes, Tells
<1>2. CASE Promotes
  <2>1. Held(rx.held) /\ EntryOf(rx.held) /\ rx.held \notin looping
    BY <1>2 DEF Promotes, Held, EntryOf, UpgradeQuiet
  <2>2. \A c \in looping : EntryOf(c) => EntryOf(c)'
    BY <1>2, <1>m, <2>1 DEF Promotes, EntryOf, Held
  <2>3. NoOrphanLoop'
    BY <1>0, <1>1, <2>2, LoopHasEntry DEF SInv, EntryOf, NoOrphanLoop, Pending
  <2>4. SessionKept'
    <3> SUFFICES ASSUME NEW c \in Conns, Promoted(c)', pc'[c] \in Served, c \notin died'
                 PROVE  (slot["established"] = c /\ c \in live)'
      BY DEF SessionKept
    <3>1. c = rx.held
      BY <1>0, <1>2, <2>1, ActiveAlone DEF Promotes
    <3>2. QED
      BY <1>2, <1>m, <3>1 DEF Promotes
  <2>5. QED
    BY <1>1, <2>3, <2>4 DEF SInv
<1>3. CASE Passes \/ Takes \/ (\E m \in Pending : PutsInto(m)) \/ GivesUp
           \/ Readies \/ Tells
  <2>1. /\ slot'["established"] = slot["established"] /\ live' = live
        /\ \A c \in Conns : Promoted(c)' => Promoted(c)
    BY <1>3, <1>m DEF Passes, Takes, PutsInto, GivesUp, Readies, Tells,
       Promoted, Telling
  <2>2. SessionKept'
    BY <1>0, <2>1 DEF SInv, SessionKept
  <2>3. ASSUME NEW c \in looping', EntryOf(c) PROVE EntryOf(c)'
    <3>1. CASE Passes \/ Tells
      BY <2>3, <3>1 DEF Passes, Tells, EntryOf, Held
    <3>2. CASE Takes
      BY <2>3, <3>2, <1>m DEF Takes, EntryOf, Held
    <3>3. ASSUME NEW m \in Pending, PutsInto(m) PROVE EntryOf(c)'
      <4>1. c \in Conns /\ rx.held \in Conns /\ EntryOf(rx.held)
        BY <1>1, <3>3 DEF SInv, PutsInto, EntryOf, Held
      <4>2. c = rx.held
        BY <2>3, <4>1, ActiveAlone
      <4>3. slot'[m] = c
        BY <3>3, <4>2, <1>m DEF PutsInto
      <4>4. QED
        BY <4>3 DEF EntryOf
    <3>4. CASE GivesUp \/ Readies
      BY <2>3, <3>4 DEF GivesUp, Readies, EntryOf, Held
    <3>5. QED
      BY <1>3, <3>1, <3>2, <3>3, <3>4
  <2>4. NoOrphanLoop'
    BY <1>0, <1>1, <2>3, LoopHasEntry DEF SInv, EntryOf, NoOrphanLoop, Pending
  <2>5. QED
    BY <1>1, <2>2, <2>4 DEF SInv
<1>4. QED
  BY <1>0, <1>2, <1>3

LEMMA SequentialUser ==
    ASSUME ~Overlap, ~Cancels, IInv, CInv, SInv, NEW c \in Conns,
           \/ Connect(c) \/ Connecting(c) \/ Cancel(c) \/ DropHandle(c)
           \/ CloseStep(c) \/ SessionDies(c) \/ RecvFrom(c)
    PROVE  SInv'
<1> USE DEF IInv
<1>m. "established" \in Maps /\ Pending \subseteq Maps
      /\ Pending = Maps \ {"established"}
  BY DEF Maps, Pending
<1>0. ~Cancel(c) /\ rx' = rx /\ announced' = announced
  BY DEF Cancel, Connect, Connecting, DropHandle, CloseStep, SessionDies,
     RecvFrom, ConnectRemove, Prepare, PrepareFails, Insert, PollReady,
     PollPending, Woken, RemoteAddr
<1>1. OneActive'
  <2>1. CASE Connect(c)
    BY <2>1 DEF Connect, OneActive, EntriesTyped
  <2>2. CASE ~Connect(c)
    <3>1. \A d \in Conns : pc'[d] \notin Finished => pc[d] \notin Finished
      BY <1>0, <2>2 DEF Connecting, DropHandle, CloseStep, SessionDies,
         RecvFrom, ConnectRemove, Prepare, PrepareFails, Insert, PollReady,
         PollPending, Woken, RemoteAddr, EntriesTyped, Finished
    <3>2. QED
      BY <3>1 DEF SInv, OneActive
  <2>3. QED
    BY <2>1, <2>2
<1>quiet. CASE \/ Connect(c) \/ PrepareFails(c) \/ PollReady(c) \/ PollPending(c)
               \/ Woken(c) \/ RemoteAddr(c) \/ DropHandle(c) \/ SessionDies(c)
  <2>1. /\ slot' = slot /\ looping' = looping
        /\ \A d \in Conns : /\ pc'[d] \in Served => pc[d] \in Served
                            /\ pc[d] = "spawned" => pc'[d] = "spawned"
        /\ \A d \in Conns : d \notin died' => d \notin died
        /\ \A d \in Conns : d \in live /\ d \notin died' => d \in live'
    BY <1>quiet DEF Connect, PrepareFails, PollReady, PollPending, Woken,
       RemoteAddr, DropHandle, SessionDies, EntriesTyped, Served, Waiting
  <2>2. \A d \in Conns : /\ Promoted(d)' <=> Promoted(d)
                         /\ EntryOf(d)' <=> EntryOf(d)
    BY <1>0, <2>1 DEF Promoted, Telling, EntryOf, Held
  <2>3. NoOrphanLoop'
    BY <2>1, <2>2, LoopHasEntry DEF SInv, EntryOf, NoOrphanLoop, Pending
  <2>4. SessionKept'
    BY <2>1, <2>2 DEF SInv, SessionKept
  <2>5. QED
    BY <1>1, <2>1, <2>3, <2>4 DEF SInv
<1>out. ASSUME NEW m \in Maps, NEW k, Remove(m, k), died' = died,
               \A d \in Conns : pc[d] = "spawned" => pc'[d] = "spawned",
               \A d \in Conns : pc'[d] \in Served => pc[d] \in Served,
               \A d \in Conns : pc[d] \in Served /\ slot["established"] = d
                                  => k # None /\ k # d
        PROVE  SInv'
  <2>1. \/ UNCHANGED <<slot, looping, live>>
        \/ Removes(m) /\ (k = None \/ slot[m] = k)
    BY <1>out, RemoveShape
  <2>2. \A d \in Conns : /\ Promoted(d)' => Promoted(d)
                         /\ d \in looping' /\ EntryOf(d) => EntryOf(d)'
    BY <2>1, <1>0, <1>m, NoneAssumption DEF Removes, Promoted, Telling, EntryOf, Held
  <2>3. looping' \subseteq looping
    BY <2>1 DEF Removes
  <2>4. NoOrphanLoop'
    BY <1>out, <2>2, <2>3, LoopHasEntry DEF SInv, EntryOf, NoOrphanLoop, Pending
  <2>5. SessionKept'
    <3> SUFFICES ASSUME NEW d \in Conns, Promoted(d)', pc'[d] \in Served, d \notin died'
                 PROVE  (slot["established"] = d /\ d \in live)'
      BY DEF SessionKept
    <3>1. pc[d] \in Served /\ slot["established"] = d /\ d \in live
      BY <1>out, <2>2 DEF SInv, SessionKept
    <3>2. k # None /\ k # d
      BY <1>out, <3>1
    <3>3. \/ UNCHANGED <<slot, looping, live>>
          \/ Removes(m) /\ slot[m] = k /\ m # "established"
      BY <2>1, <3>1, <3>2
    <3>4. QED
      BY <3>1, <3>2, <3>3, <1>m DEF Removes
  <2>6. QED
    BY <1>1, <2>3, <2>4, <2>5 DEF SInv
<1>remove. CASE ConnectRemove(c)
  <2>1. /\ walk[c] \in 1..4 /\ Remove(RemoveOrder[walk[c]], None) /\ died' = died
        /\ pc[c] = "removing" /\ pc'[c] \in {"removing", "prepare"}
        /\ \A d \in Conns : d # c => pc'[d] = pc[d]
    BY <1>remove DEF ConnectRemove, EntriesTyped
  <2>2. \A d \in Conns : pc[d] \notin Served
    BY <2>1, ActiveAlone DEF Served, Waiting
  <2>3. /\ \A d \in Conns : pc[d] = "spawned" => pc'[d] = "spawned"
        /\ \A d \in Conns : pc'[d] \in Served => pc[d] \in Served
    BY <2>1 DEF Served, Waiting
  <2>4. QED
    BY <2>1, <2>2, <2>3, <1>out, RemoveOrderMaps
<1>close. CASE CloseStep(c)
  <2>1. /\ closing[c] \in 1..4 /\ Remove(RemoveOrder[closing[c]], c)
        /\ died' = died /\ pc' = pc
    BY <1>close DEF CloseStep
  <2>2. pc[c] \notin Served
    BY <2>1 DEF CInv, ClosingClosed, Cancelled, Served, Waiting
  <2>3. QED
    BY <2>1, <2>2, <1>out, RemoveOrderMaps, NoneAssumption
<1>in. CASE Prepare(c) \/ Insert(c)
  <2>1. /\ pc[c] \in {"prepare", "spawned"} /\ died' = died /\ live' = live
        /\ slot'["established"] = slot["established"]
        /\ \A d \in Conns : d # c => pc'[d] = pc[d]
        /\ looping' \subseteq looping \cup {c}
        /\ \/ pc'[c] = "spawned" /\ slot' = slot
           \/ \E m \in Pending : slot'[m] = c
    <3>1. CASE Prepare(c)
      BY <3>1 DEF Prepare, EntriesTyped
    <3>2. CASE Insert(c)
      <4>1. role[c] \in Pending
        BY DEF EntriesTyped, Pending, Maps
      <4>2. QED
        BY <3>2, <4>1, <1>m DEF Insert, EntriesTyped
    <3>3. QED
      BY <1>in, <3>1, <3>2
  <2>2. \A d \in Conns : Promoted(d)' <=> Promoted(d)
    BY <1>0, <2>1 DEF Promoted, Telling
  <2>3. ~Promoted(c)
    BY <2>1 DEF EarlyNowhere, Early
  <2>4. SessionKept'
    BY <2>1, <2>2, <2>3 DEF SInv, SessionKept
  <2>5. \A d \in looping : d = c
    BY <2>1, LoopHasEntry, ActiveAlone DEF SInv
  <2>6. \A d \in looping' : d = c
    BY <2>1, <2>5
  <2>7. NoOrphanLoop'
    BY <2>1, <2>6 DEF NoOrphanLoop, Pending
  <2>8. QED
    BY <1>1, <2>4, <2>6, <2>7 DEF SInv
<1>recv. CASE RecvFrom(c)
  <2>1. /\ slot["established"] \notin live
        /\ \A n \in Maps : slot'[n] = IF n = "established" THEN None ELSE slot[n]
        /\ live' = live /\ looping' = looping /\ pc' = pc /\ died' = died
    BY <1>recv DEF RecvFrom, EntriesTyped
  <2>2. \A d \in Conns : /\ Promoted(d)' => Promoted(d)
                         /\ EntryOf(d) => EntryOf(d)'
    BY <1>0, <2>1, <1>m, NoneAssumption DEF Promoted, Telling, EntryOf, Held
  <2>3. NoOrphanLoop'
    BY <2>1, <2>2, LoopHasEntry DEF SInv, EntryOf, NoOrphanLoop, Pending
  <2>4. SessionKept'
    BY <2>1, <2>2 DEF SInv, SessionKept
  <2>5. QED
    BY <1>1, <2>1, <2>3, <2>4 DEF SInv
<1>q. QED
  BY <1>0, <1>quiet, <1>remove, <1>close, <1>in, <1>recv DEF Connecting

LEMMA SequentialInvariant ==
    ASSUME ~Overlap, ~Cancels PROVE Spec => []SInv
<1>1. Init => SInv
  <2> SUFFICES ASSUME Init PROVE SInv
    OBVIOUS
  <2>1. \A c \in Conns : pc[c] = "new" /\ looping = {}
    BY DEF Init
  <2>2. QED
    BY <2>1 DEF Init, SInv, OneActive, NoOrphanLoop, SessionKept, Served,
       Waiting, Finished
<1>2. IInv /\ CInv /\ SInv /\ [Next]_vars => SInv'
  <2> SUFFICES ASSUME IInv, CInv, SInv, [Next]_vars PROVE SInv'
    OBVIOUS
  <2>1. CASE UNCHANGED vars
    BY <2>1 DEF vars, SInv, OneActive, NoOrphanLoop, SessionKept, Promoted,
       Telling, Held
  <2>2. QED
    BY <2>1, SequentialReceive, SequentialUser DEF Next
<1>3. QED
  BY <1>1, <1>2, InductiveInvariant, OwnedInvariant, PTL DEF Spec

\* With one connect() after another, a session that connect() returned stays in
\* the map until its handle is dropped or its watchdog gives up, whatever the
\* close tasks of earlier handles still do.
THEOREM HandleKeepsSessionCorrect ==
    ASSUME ~Overlap, ~Cancels PROVE Spec => []HandleKeepsSession
<1>1. IInv /\ SInv => HandleKeepsSession
  BY DEF IInv, SInv, ReadyAnnounced, SessionKept, Served, Promoted,
     HandleKeepsSession
<1>2. QED
  BY <1>1, InductiveInvariant, SequentialInvariant, PTL

\* With one connect() after another and packets that decrypt, send loops and
\* pending entries go together.
THEOREM LoopsMatchEntriesCorrect ==
    ASSUME ~Overlap, ~Cancels, ~BadPackets PROVE Spec => []LoopsMatchEntries
<1>1. PInv /\ SInv => LoopsMatchEntries
  BY DEF PInv, SInv, LoopsMatchEntries
<1>2. QED
  BY <1>1, SendingInvariant, SequentialInvariant, PTL

\* One step of a waiting connect()'s entry: nobody but handle_incoming, which
\* puts it back or promotes it, takes it out of its map.
LEMMA WaiterStep ==
    ASSUME ~Overlap, ~Cancels, ~BadPackets,
           IInv, CInv, PInv, SInv, NoOrphanWaiter, [Next]_vars
    PROVE  NoOrphanWaiter'
<1> USE DEF IInv
<1>m. "established" \in Maps /\ Pending \subseteq Maps
      /\ Pending = Maps \ {"established"}
  BY DEF Maps, Pending
<1> DEFINE Home(c) == InMap(c) \/ Held(c) \/ (rx.step = "announce" /\ rx.held = c)
<1> SUFFICES ASSUME NEW c \in Conns, pc'[c] \in Waiting, c \notin announced'
             PROVE  Home(c)'
  BY DEF NoOrphanWaiter
<1>rx. CASE (\E k \in Kinds, good \in BOOLEAN : Arrive(k, good)) \/ HandleIncoming
  <2>0. /\ pc' = pc
        /\ \/ Passes \/ Takes \/ (\E m \in Pending : PutsInto(m))
           \/ GivesUp \/ Readies \/ Promotes \/ Tells
    BY <1>rx, ReceiveShapes
  <2>1. Home(c)
    BY <2>0 DEF NoOrphanWaiter, Passes, Takes, PutsInto, GivesUp, Readies,
       Promotes, Tells
  <2>2. CASE Passes
    BY <2>1, <2>2 DEF Passes, InMap, Held
  <2>3. CASE Takes
    BY <2>1, <2>3, <1>m DEF Takes, InMap, Held
  <2>4. ASSUME NEW m \in Pending, PutsInto(m) PROVE Home(c)'
    <3>1. EntryOf(rx.held) /\ rx.held \in Conns
      BY <2>4 DEF PutsInto, EntryOf, Held
    <3>2. c = rx.held
      BY <2>0, <3>1, ActiveAlone DEF Served
    <3>3. QED
      BY <2>4, <3>2, <1>m DEF PutsInto, InMap
  <2>5. ~GivesUp
    BY DEF GivesUp, PInv
  <2>6. CASE Readies
    BY <2>1, <2>6 DEF Readies, InMap, Held
  <2>7. CASE Promotes
    <3>1. EntryOf(rx.held) /\ rx.held \in Conns
      BY <2>7 DEF Promotes, EntryOf, Held
    <3>2. c = rx.held
      BY <2>0, <3>1, ActiveAlone DEF Served
    <3>3. QED
      BY <2>7, <3>2 DEF Promotes
  <2>8. CASE Tells
    BY <2>0, <2>1, <2>8 DEF Tells, InMap, Held
  <2>9. QED
    BY <2>0, <2>2, <2>3, <2>4, <2>5, <2>6, <2>7, <2>8
<1>stutter. CASE UNCHANGED vars
  BY <1>stutter DEF vars, NoOrphanWaiter, InMap, Held
<1>user. ASSUME NEW d \in Conns,
                \/ Connect(d) \/ Connecting(d) \/ Cancel(d) \/ DropHandle(d)
                \/ CloseStep(d) \/ SessionDies(d) \/ RecvFrom(d)
         PROVE  Home(c)'
  <2>0. ~Cancel(d) /\ rx' = rx /\ announced' = announced
    BY <1>user DEF Cancel, Connect, Connecting, DropHandle, CloseStep,
       SessionDies, RecvFrom, ConnectRemove, Prepare, PrepareFails, Insert,
       PollReady, PollPending, Woken, RemoteAddr
  <2>1. CASE \/ Connect(d) \/ PrepareFails(d) \/ PollReady(d) \/ PollPending(d)
             \/ Woken(d) \/ RemoteAddr(d) \/ DropHandle(d) \/ SessionDies(d)
             \/ Prepare(d)
    <3>1. slot' = slot /\ pc[c] \in Waiting
      BY <2>1 DEF Connect, PrepareFails, PollReady, PollPending, Woken,
         RemoteAddr, DropHandle, SessionDies, Prepare, EntriesTyped, Waiting
    <3>2. QED
      BY <2>0, <3>1 DEF NoOrphanWaiter, InMap, Held
  <2>2. CASE CloseStep(d)
    <3>1. /\ closing[d] \in 1..4 /\ Remove(RemoveOrder[closing[d]], d) /\ pc' = pc
      BY <2>2 DEF CloseStep
    <3>2. d # c
      BY <3>1 DEF CInv, ClosingClosed, Cancelled, Waiting
    <3>3. \A m \in Maps : slot[m] = c => slot'[m] = c
      BY <3>1, <3>2, RemoveShape, RemoveOrderMaps, NoneAssumption DEF Removes
    <3>4. QED
      BY <2>0, <3>1, <3>3 DEF NoOrphanWaiter, InMap, Held
  <2>3. CASE Insert(d)
    <3>1. pc[d] = "spawned" /\ role[d] \in Maps /\ slot'[role[d]] = d
          /\ (c # d => pc[c] \in Waiting)
      BY <2>3 DEF Insert, EntriesTyped, Maps
    <3>2. c = d
      BY <3>1, ActiveAlone DEF Served
    <3>3. QED
      BY <3>1, <3>2 DEF InMap
  <2>4. ~ConnectRemove(d) /\ ~RecvFrom(d)
    <3>1. ConnectRemove(d) \/ RecvFrom(d)
              => pc[d] \in {"removing", "open"} /\ pc[c] \in Waiting
      BY DEF ConnectRemove, RecvFrom, EntriesTyped, Waiting
    <3>2. QED
      BY <3>1, ActiveAlone DEF Served, Waiting
  <2>5. QED
    BY <1>user, <2>0, <2>1, <2>2, <2>3, <2>4 DEF Connecting
<1>q. QED
  BY <1>rx, <1>stutter, <1>user DEF Next

\* With one connect() after another and packets that decrypt, a connect() that
\* waits has an entry that can still become a session, or has been told; on
\* either runtime.
THEOREM NoOrphanWaiterCorrect ==
    ASSUME ~Overlap, ~Cancels, ~BadPackets PROVE Spec => []NoOrphanWaiter
<1>1. Init => NoOrphanWaiter
  BY DEF Init, NoOrphanWaiter, Waiting
<1>2. IInv /\ CInv /\ PInv /\ SInv /\ NoOrphanWaiter /\ [Next]_vars
          => NoOrphanWaiter'
  BY WaiterStep
<1>3. QED
  BY <1>1, <1>2, InductiveInvariant, OwnedInvariant, SendingInvariant,
     SequentialInvariant, PTL DEF Spec
=============================================================================
