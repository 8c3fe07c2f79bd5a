--------------------------- MODULE Handshake_proof ---------------------------
(***************************************************************************)
(* Proofs about Handshake for any number of connects, any packet age and   *)
(* any order of delivery: two sessions established under one id have the   *)
(* same key, and a responder's session is one its initiator held.          *)
(***************************************************************************)
EXTENDS Handshake, TLAPS

\* A loop that sends belongs to a connect(), and a key to two of them.
Started ==
    /\ iloop \/ ist = "established" => ik # 0
    /\ ist = "established" => ij # 0
    /\ rst # "idle" => rj # 0
    /\ rst \in {"responding", "established"} => rk # 0

\* No packet is ahead of the connect() calls that made it.
PacketsBounded ==
    \A m \in sent : /\ m.k <= ik
                    /\ m.kind # "initiation" => m.j <= rj

\* A connect() of the responder answers one initiation only.
OneAnswer ==
    \A m, n \in sent :
        m.kind = "response" /\ n.kind = "response" /\ m.j = n.j => m.k = n.k

\* The responses of the responder's current connect() carry its key.
AnswerIsKey ==
    \A m \in sent :
        m.kind = "response" /\ m.j = rj
            => /\ rst # "poking"
               /\ rst \in {"responding", "established"} => m.k = rk

\* The responder's key names an initiation that was made.
ResponderKey == rst \in {"responding", "established"} => rk <= ik

\* The initiator's key was offered to it.
InitiatorKey ==
    ist = "established" => ij <= rj /\ Response(ik, ij) \in sent

\* So was every key it ever sent a keepalive under.
KeepaliveAnswered ==
    \A m \in sent : m.kind = "keepalive" => Response(m.k, m.j) \in sent

\* The keepalives of the initiator's current connect() are under its key.
KeepaliveIsKey ==
    \A m \in sent :
        m.kind = "keepalive" /\ m.k = ik /\ ist # "idle"
            => ist = "established" /\ m.j = ij

\* A response to a later initiation does not come from an earlier connect()
\* of the responder than one whose key the initiator already held.
AnswersInOrder ==
    \A m, n \in sent :
        m.kind = "keepalive" /\ n.kind = "response" /\ m.k < n.k => m.j <= n.j

IInv ==
    /\ TypeOK /\ Started
    /\ PacketsBounded /\ OneAnswer /\ AnswerIsKey /\ ResponderKey
    /\ InitiatorKey /\ KeepaliveAnswered /\ KeepaliveIsKey /\ AnswersInOrder
    /\ ResponderConfirmed

\* The three kinds of packet, field by field.
LEMMA PacketFields ==
    ASSUME NEW a, NEW b
    PROVE  /\ Initiation(a).kind = "initiation" /\ Initiation(a).k = a
           /\ Response(a, b).kind = "response" /\ Response(a, b).k = a
           /\ Response(a, b).j = b
           /\ Keepalive(a, b).kind = "keepalive" /\ Keepalive(a, b).k = a
           /\ Keepalive(a, b).j = b
BY DEF Initiation, Response, Keepalive

\* A loop sends packets of the right type.
LEMMA CurrentType ==
    ASSUME TypeOK, Started, NEW m \in Current
    PROVE  /\ m \in Packets /\ m.k # 0 /\ (m.j = 0 <=> m.kind = "initiation")
           /\ \/ m = Initiation(ik)
              \/ m = Response(rk, rj) /\ rst = "responding"
              \/ m = Keepalive(ik, ij) /\ ist = "established"
<1>1. 0 \in Numbers
  BY MaxAssumption DEF Numbers
<1>2. \/ m = Initiation(ik) /\ iloop
      \/ m = Response(rk, rj) /\ rst = "responding"
      \/ m = Keepalive(ik, ij) /\ ist = "established"
  BY DEF Current
<1>3. QED
  BY <1>1, <1>2 DEF TypeOK, Started, Packets, Initiation, Response, Keepalive

\* The peers start well typed.
LEMMA InitType == Init => TypeOK
<1> SUFFICES ASSUME Init PROVE TypeOK
  OBVIOUS
<1>1. 0 \in Numbers
  BY MaxAssumption DEF Numbers
<1>2. iloop \in BOOLEAN
  BY Zenon DEF Init
<1>3. stale \in BOOLEAN
  BY Zenon DEF Init
<1>4. QED
  BY <1>1, <1>2, <1>3 DEF Init, TypeOK

\* The types, with the connect() behind every key and every loop.
LEMMA TypeInvariant == Spec => [](TypeOK /\ Started)
<1>1. Init => TypeOK /\ Started
  BY InitType DEF Init, Started
<1>2. TypeOK /\ Started /\ [Next]_vars => TypeOK'
  <2> SUFFICES ASSUME TypeOK, Started, [Next]_vars PROVE TypeOK'
    OBVIOUS
  <2>1. CASE IConnect
    <3>1. iloop' \in BOOLEAN /\ stale' \in BOOLEAN
      BY <2>1, Zenon DEF IConnect
    <3>2. QED
      BY <2>1, <3>1, MaxAssumption DEF IConnect, TypeOK, Numbers, rvars
  <2>2. CASE RConnect
    <3>1. stale' \in BOOLEAN
      BY <2>2, Zenon DEF RConnect
    <3>2. QED
      BY <2>2, <3>1, MaxAssumption DEF RConnect, TypeOK, Numbers, ivars
  <2>3. CASE ILeave
    BY <2>3 DEF ILeave, TypeOK, rvars
  <2>4. CASE RLeave
    BY <2>4 DEF RLeave, TypeOK, ivars
  <2>5. ASSUME NEW m \in Packets, Tick(m) PROVE TypeOK'
    BY <2>5, CurrentType DEF Tick, TypeOK, ivars, rvars
  <2>6. ASSUME NEW m \in Packets, Get(m), stale' \in BOOLEAN PROVE TypeOK'
    <3>1. m.k \in Numbers /\ m.j \in Numbers
      BY DEF Packets
    <3>2. CASE GetInitiation(m)
      BY <2>6, <3>1, <3>2 DEF GetInitiation, TypeOK, ivars
    <3>3. CASE GetResponse(m)
      <4>1. iloop' \in BOOLEAN
        BY <3>3, Zenon DEF GetResponse
      <4>2. QED
        BY <2>6, <3>1, <3>3, <4>1 DEF GetResponse, receive_response, TypeOK, rvars
    <3>4. CASE GetKeepalive(m)
      BY <2>6, <3>4 DEF GetKeepalive, TypeOK, ivars
    <3>5. QED
      BY <2>6, <3>2, <3>3, <3>4 DEF Get
  <2>7. CASE UNCHANGED vars
    BY <2>7 DEF vars, TypeOK
  <2>8. ASSUME NEW m \in Packets, DeliverCurrent(m) \/ DeliverLate(m)
        PROVE  TypeOK'
    <3>1. Get(m) /\ stale' \in BOOLEAN
      BY <2>8, Zenon DEF DeliverCurrent, DeliverLate, TypeOK
    <3>2. QED
      BY <2>6, <3>1
  <2> QED
    BY <2>1, <2>2, <2>3, <2>4, <2>5, <2>7, <2>8 DEF Next
<1>3. TypeOK /\ Started /\ [Next]_vars => Started'
  <2> SUFFICES ASSUME TypeOK, Started, [Next]_vars PROVE Started'
    OBVIOUS
  <2>1. CASE IConnect
    BY <2>1, MaxAssumption DEF IConnect, TypeOK, Numbers, Started, rvars
  <2>2. CASE RConnect
    BY <2>2, MaxAssumption DEF RConnect, TypeOK, Numbers, Started, ivars
  <2>3. CASE ILeave
    BY <2>3 DEF ILeave, Started, rvars
  <2>4. CASE RLeave
    BY <2>4 DEF RLeave, Started, ivars
  <2>5. ASSUME NEW m \in Packets, Tick(m) PROVE Started'
    BY <2>5 DEF Tick, Started, ivars, rvars
  <2>6. ASSUME NEW m \in sent, Get(m) PROVE Started'
    <3>1. m.k # 0 /\ (m.kind = "response" => m.j # 0)
      BY DEF TypeOK
    <3>2. CASE GetInitiation(m)
      BY <3>1, <3>2 DEF GetInitiation, Started, ivars
    <3>3. CASE GetResponse(m)
      BY <3>1, <3>3 DEF GetResponse, receive_response, Started, rvars
    <3>4. CASE GetKeepalive(m)
      BY <3>4 DEF GetKeepalive, Started, ivars
    <3>5. QED
      BY <2>6, <3>2, <3>3, <3>4 DEF Get
  <2>7. CASE UNCHANGED vars
    BY <2>7 DEF vars, Started
  <2>8. QED
    BY <2>1, <2>2, <2>3, <2>4, <2>5, <2>6, <2>7
       DEF Next, DeliverCurrent, DeliverLate
<1>4. QED
  BY <1>1, <1>2, <1>3, PTL DEF Spec, SafetySpec

\* Every state of the handshake is well typed, and no packet is without the
\* connect() calls behind it.
THEOREM TypeCorrect == Spec => []TypeOK
<1>1. QED
  BY TypeInvariant, PTL

\* The parts of the invariant together are inductive.
LEMMA InductiveInvariant == Spec => []IInv
<1>1. Init => IInv
  <2> SUFFICES ASSUME Init PROVE IInv
    OBVIOUS
  <2>1. TypeOK /\ Started
    BY InitType DEF Init, Started
  <2>2. QED
    BY <2>1 DEF Init, IInv, PacketsBounded, OneAnswer, AnswerIsKey,
       ResponderKey, InitiatorKey, KeepaliveAnswered, KeepaliveIsKey,
       AnswersInOrder, ResponderConfirmed
<1>2. IInv /\ (TypeOK /\ Started)' /\ [Next]_vars => IInv'
  <2> SUFFICES ASSUME IInv, (TypeOK /\ Started)', [Next]_vars PROVE IInv'
    OBVIOUS
  <2> USE DEF IInv
  <2>a. /\ ik \in Nat /\ ij \in Nat /\ rj \in Nat /\ rk \in Nat
        /\ \A m \in sent : m.k \in Nat /\ m.j \in Nat
    BY MaxAssumption DEF TypeOK, Packets, Numbers
  <2>1. CASE IConnect
    <3>1. /\ ik' = ik + 1 /\ ist' = "initiating" /\ ij' = ij /\ sent' = sent
          /\ rst' = rst /\ rj' = rj /\ rk' = rk
      BY <2>1 DEF IConnect, rvars
    <3>2. PacketsBounded' /\ ResponderKey' /\ KeepaliveIsKey'
      BY <2>a, <3>1 DEF PacketsBounded, ResponderKey, KeepaliveIsKey
    <3>3. QED
      BY <3>1, <3>2 DEF OneAnswer, AnswerIsKey, InitiatorKey,
         KeepaliveAnswered, AnswersInOrder, ResponderConfirmed,
         Response, Keepalive
  <2>2. CASE RConnect
    <3>1. /\ rj' = rj + 1 /\ rst' = "poking" /\ rk' = rk /\ sent' = sent
          /\ ist' = ist /\ ik' = ik /\ ij' = ij
      BY <2>2 DEF RConnect, ivars
    <3>2. PacketsBounded' /\ AnswerIsKey' /\ InitiatorKey'
      BY <2>a, <3>1 DEF PacketsBounded, AnswerIsKey, InitiatorKey, Response
    <3>3. QED
      BY <3>1, <3>2 DEF OneAnswer, ResponderKey, KeepaliveAnswered,
         KeepaliveIsKey, AnswersInOrder, ResponderConfirmed, Response
  <2>3. CASE ILeave
    BY <2>3 DEF ILeave, rvars, PacketsBounded, OneAnswer, AnswerIsKey,
       ResponderKey, InitiatorKey, KeepaliveAnswered, KeepaliveIsKey,
       AnswersInOrder, ResponderConfirmed, Response, Keepalive
  <2>4. CASE RLeave
    BY <2>4 DEF RLeave, ivars, PacketsBounded, OneAnswer, AnswerIsKey,
       ResponderKey, InitiatorKey, KeepaliveAnswered, KeepaliveIsKey,
       AnswersInOrder, ResponderConfirmed, Response, Keepalive
  <2>5. ASSUME NEW m \in Packets, Tick(m) PROVE IInv'
    <3>1. /\ m \in Current /\ sent' = sent \cup {m}
          /\ ist' = ist /\ ik' = ik /\ ij' = ij
          /\ rst' = rst /\ rj' = rj /\ rk' = rk
      BY <2>5 DEF Tick, ivars, rvars
    <3>2. /\ ResponderKey' /\ InitiatorKey' /\ ResponderConfirmed'
      BY <3>1 DEF ResponderKey, InitiatorKey, ResponderConfirmed,
         Response, Keepalive
    <3>3. CASE m = Initiation(ik)
      <4>1. m.kind = "initiation" /\ m.k = ik
        BY <3>3, PacketFields
      <4>2. QED
        BY <2>a, <3>1, <3>2, <4>1 DEF PacketsBounded, OneAnswer, AnswerIsKey,
           KeepaliveAnswered, KeepaliveIsKey, AnswersInOrder, Response
    <3>4. CASE m = Response(rk, rj) /\ rst = "responding"
      <4>1. m.kind = "response" /\ m.k = rk /\ m.j = rj
        BY <3>4, PacketFields
      <4>2. PacketsBounded' /\ AnswersInOrder'
        BY <2>a, <3>1, <3>4, <4>1 DEF PacketsBounded, AnswersInOrder,
           ResponderKey
      <4>3. OneAnswer' /\ AnswerIsKey'
        BY <2>a, <3>1, <3>4, <4>1 DEF OneAnswer, AnswerIsKey
      <4>4. KeepaliveAnswered' /\ KeepaliveIsKey'
        BY <3>1, <4>1 DEF KeepaliveAnswered, KeepaliveIsKey, Response
      <4>5. QED
        BY <3>2, <4>2, <4>3, <4>4
    <3>5. CASE m = Keepalive(ik, ij) /\ ist = "established"
      <4>1. m.kind = "keepalive" /\ m.k = ik /\ m.j = ij
        BY <3>5, PacketFields
      <4>2. PacketsBounded' /\ AnswersInOrder'
        BY <2>a, <3>1, <3>5, <4>1 DEF PacketsBounded, AnswersInOrder,
           InitiatorKey
      <4>3. OneAnswer' /\ AnswerIsKey'
        BY <3>1, <4>1 DEF OneAnswer, AnswerIsKey
      <4>4. KeepaliveAnswered' /\ KeepaliveIsKey'
        BY <3>1, <3>5, <4>1 DEF KeepaliveAnswered, KeepaliveIsKey,
           InitiatorKey, Response
      <4>5. QED
        BY <3>2, <4>2, <4>3, <4>4
    <3>6. QED
      BY <3>1, <3>3, <3>4, <3>5, CurrentType
  <2>6. ASSUME NEW m \in Packets, m \in sent, Get(m) PROVE IInv'
    <3>1. CASE GetInitiation(m)
      <4>1. /\ rst = "poking" /\ rst' = "responding" /\ rk' = m.k
            /\ rj' = rj /\ sent' = sent
            /\ ist' = ist /\ ik' = ik /\ ij' = ij
        BY <3>1 DEF GetInitiation, ivars
      <4>2. AnswerIsKey' /\ ResponderKey' /\ ResponderConfirmed'
        BY <2>6, <4>1 DEF AnswerIsKey, ResponderKey, ResponderConfirmed,
           PacketsBounded
      <4>3. QED
        BY <4>1, <4>2 DEF PacketsBounded, OneAnswer, InitiatorKey,
           KeepaliveAnswered, KeepaliveIsKey, AnswersInOrder, Response
    <3>2. CASE GetResponse(m)
      <4>1. /\ ist = "initiating" /\ m.kind = "response"
            /\ ik' = ik /\ sent' = sent
            /\ rst' = rst /\ rj' = rj /\ rk' = rk
            /\ \/ m.k = ik /\ ist' = "established" /\ ij' = m.j
               \/ ist' = ist /\ ij' = ij
        BY <3>2 DEF GetResponse, receive_response, rvars
      <4>2. InitiatorKey'
        <5>1. m = Response(m.k, m.j)
          BY <4>1 DEF Packets, Response
        <5>2. m.j <= rj
          BY <2>6, <4>1 DEF PacketsBounded
        <5>3. QED
          BY <2>6, <4>1, <5>1, <5>2 DEF InitiatorKey, Response
      <4>3. KeepaliveIsKey'
        BY <4>1 DEF KeepaliveIsKey
      <4>4. QED
        BY <4>1, <4>2, <4>3 DEF PacketsBounded, OneAnswer, AnswerIsKey,
           ResponderKey, KeepaliveAnswered, AnswersInOrder,
           ResponderConfirmed, Response, Keepalive
    <3>3. CASE GetKeepalive(m)
      <4>1. /\ rst = "responding" /\ m = Keepalive(rk, rj)
            /\ rst' = "established" /\ rk' = rk /\ rj' = rj /\ sent' = sent
            /\ ist' = ist /\ ik' = ik /\ ij' = ij
        BY <3>3 DEF GetKeepalive, ivars
      <4>2. AnswerIsKey' /\ ResponderKey' /\ ResponderConfirmed'
        BY <2>6, <4>1 DEF AnswerIsKey, ResponderKey, ResponderConfirmed,
           Keepalive
      <4>3. QED
        BY <4>1, <4>2 DEF PacketsBounded, OneAnswer, InitiatorKey,
           KeepaliveAnswered, KeepaliveIsKey, AnswersInOrder, Response
    <3>4. QED
      BY <2>6, <3>1, <3>2, <3>3 DEF Get
  <2>7. CASE UNCHANGED vars
    BY <2>7 DEF vars, PacketsBounded, OneAnswer, AnswerIsKey,
       ResponderKey, InitiatorKey, KeepaliveAnswered, KeepaliveIsKey,
       AnswersInOrder, ResponderConfirmed, Response, Keepalive
  <2>8. QED
    BY <2>1, <2>2, <2>3, <2>4, <2>5, <2>6, <2>7
       DEF Next, DeliverCurrent, DeliverLate
<1>3. QED
  BY <1>1, <1>2, TypeInvariant, PTL DEF Spec, SafetySpec

\* A responder's session is one the initiator held.
THEOREM ResponderConfirmedCorrect == Spec => []ResponderConfirmed
<1>1. IInv => ResponderConfirmed
  BY DEF IInv
<1>2. QED
  BY <1>1, InductiveInvariant, PTL

\* Two sessions established under one id have the same key.
THEOREM KeyAgreementCorrect == Spec => []KeyAgreement
<1>1. IInv => KeyAgreement
  <2> SUFFICES ASSUME IInv, ist = "established", rst = "established"
               PROVE  ik = rk /\ ij = rj
    BY DEF KeyAgreement
  <2>1. /\ ik \in Nat /\ ij \in Nat /\ rj \in Nat /\ rk \in Nat
    BY MaxAssumption DEF IInv, TypeOK, Numbers
  <2> DEFINE a == Keepalive(rk, rj)
             b == Response(ik, ij)
             c == Response(rk, rj)
  <2>2. a \in sent /\ b \in sent /\ ij <= rj /\ rk <= ik
    BY DEF IInv, ResponderConfirmed, InitiatorKey, ResponderKey
  <2>3. /\ a.kind = "keepalive" /\ a.k = rk /\ a.j = rj
        /\ b.kind = "response" /\ b.k = ik /\ b.j = ij
        /\ c.kind = "response" /\ c.k = rk /\ c.j = rj
    BY PacketFields
  <2>4. c \in sent
    BY <2>2, <2>3 DEF IInv, KeepaliveAnswered
  <2> HIDE DEF a, b, c
  <2>5. CASE rk = ik
    BY <2>2, <2>3, <2>5 DEF IInv, KeepaliveIsKey
  <2>6. CASE rk < ik
    <3>1. rj <= ij
      BY <2>2, <2>3, <2>6 DEF IInv, AnswersInOrder
    <3>2. ij = rj
      BY <2>1, <2>2, <3>1
    <3>3. ik = rk
      BY <2>2, <2>3, <2>4, <3>2 DEF IInv, OneAnswer
    <3>4. QED
      BY <3>2, <3>3
  <2>7. QED
    BY <2>1, <2>2, <2>5, <2>6
<1>2. QED
  BY <1>1, InductiveInvariant, PTL
=============================================================================
