---------------------------- MODULE Opening_proof ----------------------------
(***************************************************************************)
(* Proofs about Opening, for any number of messages, on a network that     *)
(* keeps order as on one that does not.                                    *)
(*                                                                         *)
(* Opening only uses its transport through write_message and read_message, *)
(* so a behaviour of it is a behaviour of LossyTransport with a window of  *)
(* one (UsesTransport), and everything LossyTransport_proof shows of that  *)
(* holds here: what was read was written, under nonces that are spent, and *)
(* came out in the order of writing.  The rest is about the responder.     *)
(***************************************************************************)
EXTENDS Opening, TLAPS

T == INSTANCE LossyTransport_proof WITH
    Data <- Messages, Size <- 1, StrayNonces <- {}, delivered <- read

\* The two instances of LossyTransport count alike.
LEMMA SameCardinality == \A S : Transport!Cardinality(S) = T!Cardinality(S)
BY DEF Transport!Cardinality, T!Cardinality

\* A packet that reaches the responder goes through read_message.
LEMMA ReceiveReads ==
    ASSUME NEW p \in wire, Receive(p) PROVE T!read_message(p)
BY SameCardinality DEF Receive, Transport!read_message, T!read_message,
   Transport!Admit, T!Admit, Transport!Newest, T!Newest, Transport!Rejects,
   T!Rejects

\* Every step is one of the transport, or leaves it alone.
LEMMA UsesTransport == Spec => T!Spec
<1>1. Init => T!Init
  BY DEF Init, Transport!Init, T!Init
<1>2. [Next]_vars => [T!Next]_T!vars
  <2> SUFFICES ASSUME [Next]_vars PROVE [T!Next]_T!vars
    OBVIOUS
  <2>write. CASE send \/ KeepaliveTick
    BY <2>write DEF send, KeepaliveTick, Transport!write_message,
       T!write_message, T!Next, Messages
  <2>spend. CASE WriteFails
    BY <2>spend DEF WriteFails, Transport!write_message_fails,
       T!write_message_fails, T!Next
  <2>alone. CASE Close \/ UNCHANGED vars
    BY <2>alone DEF Close, vars, T!vars
  <2>read. ASSUME NEW p \in wire, Receive(p) PROVE T!Next
    BY <2>read, ReceiveReads DEF T!Next
  <2>q. QED
    BY <2>write, <2>spend, <2>alone, <2>read DEF Next
<1>3. QED
  BY <1>1, <1>2, PTL DEF Spec, T!Spec

\* So the invariant of the transport is one of Opening.
LEMMA TransportInvariant == Spec => []T!IInv
<1>1. {} \subseteq 0..MaxNonce /\ MaxNonce \in Nat /\ 1 \in Nat \ {0}
  BY MaxNonceAssumption
<1>2. T!Spec => []T!IInv
  BY <1>1, T!InductiveInvariant
<1>3. QED
  BY <1>2, UsesTransport, PTL

\* What the proofs below use of it.
TransportFacts ==
    /\ next_nonce \in 0..MaxNonce
    /\ wire \subseteq [nonce : 0..MaxNonce, data : Messages]
    /\ \A p \in wire : p.nonce < next_nonce
    /\ read \in Seq([nonce : 0..MaxNonce, data : Messages])
    /\ ToSet(read) \subseteq wire

LEMMA TransportGives == T!IInv => TransportFacts
BY DEF T!IInv, T!TypeOK, T!Nonces, T!Packets, T!NonceSpent,
   T!DeliveredRejected, TransportFacts, ToSet

\* What is read now is newer than all that was read.
LEMMA ReadIsNewest ==
    ASSUME T!IInv, NEW p \in wire, Receive(p)
    PROVE  \A q \in ToSet(read) : q.nonce < p.nonce
<1>1. {} \subseteq 0..MaxNonce /\ MaxNonce \in Nat /\ 1 \in Nat \ {0}
  BY MaxNonceAssumption
<1>2. T!read_message(p)
  BY ReceiveReads
<1>3. \A i \in DOMAIN read : read[i].nonce < p.nonce
  BY <1>1, <1>2, T!DeliveryIsFresh
<1>4. QED
  BY <1>3 DEF ToSet

\* Appending to a sequence.
LEMMA AppendSet ==
    ASSUME NEW S, NEW s \in Seq(S), NEW e
    PROVE  /\ ToSet(Append(s, e)) = ToSet(s) \cup {e}
           /\ DOMAIN Append(s, e) = 1..(Len(s) + 1) /\ DOMAIN s = 1..Len(s)
           /\ \A i \in 1..Len(s) : Append(s, e)[i] = s[i] /\ s[i] \in ToSet(s)
           /\ Append(s, e)[Len(s) + 1] = e /\ Len(s) \in Nat
<1>1. DOMAIN s = 1..Len(s) /\ Len(s) \in Nat
  OBVIOUS
<1>2. /\ DOMAIN Append(s, e) = 1..(Len(s) + 1)
      /\ \A i \in 1..Len(s) : Append(s, e)[i] = s[i]
      /\ Append(s, e)[Len(s) + 1] = e
  BY <1>1 DEF Append
<1>3. QED
  BY <1>1, <1>2 DEF ToSet

-----------------------------------------------------------------------------
(***************************************************************************)
(* The responder is a session once it has read a keepalive; its channel    *)
(* holds, in order, payloads it has read.  On a network that keeps order,  *)
(* what it has read is a beginning of what was sent.                       *)
(***************************************************************************)
FlagsTyped == fifo \in BOOLEAN /\ up \in BOOLEAN /\ ticking \in BOOLEAN
Promoted ==
    /\ phase \in {"responding", "established"}
    /\ phase = "established" <=> \E k \in ToSet(read) : k.data = "keepalive"
QueueTyped == queue \in Seq([nonce : 0..MaxNonce, data : {"payload"}])
QueueIncreases ==
    \A i, j \in DOMAIN queue : i < j => queue[i].nonce < queue[j].nonce
QueueRead == \A p \in ToSet(queue) : p \in ToSet(read) /\ p.data = "payload"
ReadPrefix ==
    fifo => \A p \in ToSet(read), q \in wire :
                q.nonce < p.nonce => q \in ToSet(read)
LateQueued == fifo => ToSet(queue) = {p \in ToSet(read) : Late(p)}

RInv == /\ FlagsTyped /\ Promoted /\ QueueTyped /\ QueueIncreases
        /\ QueueRead /\ ReadPrefix /\ LateQueued

\* A new packet is above all that was read: it makes no packet late.
LEMMA WriteKeeps ==
    ASSUME TransportFacts, RInv, NEW d \in Messages,
           Transport!write_message(d), UNCHANGED others
    PROVE  Promoted' /\ QueueTyped' /\ QueueIncreases' /\ QueueRead'
           /\ ReadPrefix' /\ LateQueued'
<1> DEFINE m == [nonce |-> next_nonce, data |-> d]
<1>1. /\ wire' = wire \cup {m} /\ read' = read /\ queue' = queue
      /\ phase' = phase /\ fifo' = fifo
  BY DEF Transport!write_message, others
<1>2. \A p \in ToSet(read) : p \in wire /\ p.nonce < m.nonce /\ p.nonce \in Nat
      /\ m.nonce \in Nat
  BY MaxNonceAssumption DEF TransportFacts
<1>3. Promoted' /\ QueueTyped' /\ QueueIncreases' /\ QueueRead'
  BY <1>1 DEF RInv, Promoted, QueueTyped, QueueIncreases, QueueRead, ToSet
<1>4. ReadPrefix'
  <2>1. ToSet(read)' = ToSet(read)
    BY <1>1
  <2>2. QED
    BY <1>1, <1>2, <2>1 DEF RInv, ReadPrefix
<1>5. LateQueued'
  <2>1. \A p \in ToSet(read) : Late(p)' <=> Late(p)
    <3>1. \A p \in ToSet(read) : ~(m.nonce < p.nonce)
      BY <1>2
    <3>2. QED
      BY <1>1, <3>1 DEF Late, Keepalives
  <2>2. ToSet(read)' = ToSet(read) /\ ToSet(queue)' = ToSet(queue)
    BY <1>1
  <2>3. QED
    BY <1>1, <2>1, <2>2 DEF RInv, LateQueued
<1>6. QED
  BY <1>3, <1>4, <1>5

LEMMA ReceiveKeeps ==
    ASSUME T!IInv, RInv, NEW p \in wire, Receive(p) PROVE RInv'
<1> USE DEF RInv
<1>f. TransportFacts
  BY TransportGives
<1>1. /\ fifo' = fifo /\ up' = up /\ ticking' = ticking /\ wire' = wire
      /\ read' = Append(read, p)
      /\ fifo => \A q \in wire : q.nonce < p.nonce => q \in ToSet(read)
  BY DEF Receive, Transport!read_message
<1>2. ToSet(read)' = ToSet(read) \cup {p}
  BY <1>1, <1>f, AppendSet DEF TransportFacts
<1>3. \A q \in ToSet(read) : q.nonce < p.nonce /\ q.nonce \in Nat /\ p.nonce \in Nat
  BY <1>f, ReadIsNewest, MaxNonceAssumption DEF TransportFacts
<1>4. /\ p \in [nonce : 0..MaxNonce, data : Messages]
      /\ p.data \in {"keepalive", "payload"}
  BY <1>f DEF TransportFacts, Messages
<1>5. \/ /\ phase = "established" /\ p.data = "payload" /\ queue' = Append(queue, p)
      \/ /\ phase = "responding" \/ p.data = "keepalive"
         /\ queue' = queue
  BY <1>4 DEF Receive, HandlePending, HandleEstablished
<1>phase. Promoted'
  <2>1. phase' = IF p.data = "keepalive" THEN "established" ELSE phase
    BY DEF Receive, HandlePending, HandleEstablished, Promoted
  <2>2. QED
    BY <1>2, <2>1 DEF Promoted
<1>prefix. ReadPrefix'
  BY <1>1, <1>2, <1>3 DEF ReadPrefix
<1>late. \A q \in ToSet(read) \cup {p} : Late(q)' <=> Late(q)
  BY <1>1 DEF Late, Keepalives
<1>put. CASE phase = "established" /\ p.data = "payload" /\ queue' = Append(queue, p)
  <2>1. ToSet(queue)' = ToSet(queue) \cup {p}
    BY <1>put, AppendSet DEF QueueTyped
  <2>2. QueueTyped'
    <3>1. p \in [nonce : 0..MaxNonce, data : {"payload"}]
      BY <1>put, <1>4
    <3>2. QED
      BY <1>put, <3>1 DEF QueueTyped
  <2>3. QueueIncreases'
    <3>1. /\ DOMAIN queue' = 1..(Len(queue) + 1) /\ Len(queue) \in Nat
          /\ DOMAIN queue = 1..Len(queue)
          /\ \A i \in 1..Len(queue) : queue'[i] = queue[i] /\ queue[i] \in ToSet(queue)
          /\ queue'[Len(queue) + 1] = p
      BY <1>put, AppendSet DEF QueueTyped
    <3>2. \A i \in 1..Len(queue) : queue[i].nonce < p.nonce
      BY <3>1, <1>3 DEF QueueRead
    <3>3. QED
      BY <3>1, <3>2 DEF QueueIncreases
  <2>4. QueueRead'
    BY <1>put, <1>2, <2>1 DEF QueueRead
  <2>5. Late(p)
    BY <1>put, <1>f, <1>3 DEF Promoted, Late, Keepalives, TransportFacts
  <2>6. LateQueued'
    BY <1>1, <1>2, <1>late, <2>1, <2>5 DEF LateQueued
  <2>7. QED
    BY <1>1, <1>phase, <1>prefix, <2>2, <2>3, <2>4, <2>6 DEF FlagsTyped
<1>skip. CASE (phase = "responding" \/ p.data = "keepalive") /\ queue' = queue
  <2>1. fifo => ~Late(p)
    BY <1>1, <1>skip DEF Promoted, Late, Keepalives
  <2>2. ToSet(queue)' = ToSet(queue)
    BY <1>skip
  <2>3. LateQueued'
    BY <1>1, <1>2, <1>late, <2>1, <2>2 DEF LateQueued
  <2>4. QueueTyped' /\ QueueIncreases' /\ QueueRead'
    BY <1>2, <1>skip, <2>2 DEF QueueTyped, QueueIncreases, QueueRead
  <2>5. QED
    BY <1>1, <1>phase, <1>prefix, <2>3, <2>4 DEF FlagsTyped
<1>q. QED
  BY <1>5, <1>put, <1>skip

LEMMA ResponderInvariant == Spec => []RInv
<1>1. Init => RInv
  <2> SUFFICES ASSUME Init PROVE RInv
    OBVIOUS
  <2>1. FlagsTyped
    BY Zenon DEF Init, FlagsTyped
  <2>2. read = << >> /\ queue = << >> /\ ToSet(read) = {} /\ ToSet(queue) = {}
    BY DEF Init, Transport!Init, ToSet
  <2>3. QED
    BY <2>1, <2>2 DEF Init, RInv, Promoted, QueueTyped, QueueIncreases,
       QueueRead, ReadPrefix, LateQueued
<1>2. T!IInv /\ RInv /\ [Next]_vars => RInv'
  <2> SUFFICES ASSUME T!IInv, RInv, [Next]_vars PROVE RInv'
    OBVIOUS
  <2>flags. FlagsTyped'
    BY Zenon DEF RInv, FlagsTyped, Next, send, WriteFails, KeepaliveTick,
       Close, Receive, others, vars
  <2>write. CASE send \/ KeepaliveTick
    <3>1. PICK d \in Messages : Transport!write_message(d)
      BY <2>write DEF send, KeepaliveTick, Messages
    <3>2. UNCHANGED others
      BY <2>write DEF send, KeepaliveTick
    <3>3. QED
      BY <2>flags, <3>1, <3>2, WriteKeeps, TransportGives DEF RInv
  <2>rest. CASE WriteFails \/ Close \/ UNCHANGED vars
    <3>1. UNCHANGED <<fifo, wire, phase, read, queue>>
      BY <2>rest DEF WriteFails, Close, vars, others, Transport!write_message_fails
    <3>2. QED
      BY <2>flags, <3>1 DEF RInv, Promoted, QueueTyped, QueueIncreases, QueueRead,
         ReadPrefix, LateQueued, Late, Keepalives
  <2>read. ASSUME NEW p \in wire, Receive(p) PROVE RInv'
    BY <2>read, ReceiveKeeps
  <2>q. QED
    BY <2>write, <2>rest, <2>read DEF Next
<1>3. QED
  BY <1>1, <1>2, TransportInvariant, PTL DEF Spec

\* Every variable keeps its type, those of the transport included.
THEOREM TypeCorrect == Spec => []TypeOK
<1>1. T!IInv /\ RInv => TypeOK
  BY DEF T!IInv, T!TypeOK, T!Nonces, T!Packets, RInv, FlagsTyped, Promoted,
     QueueTyped, TypeOK, Transport!TypeOK, Transport!Nonces, Transport!Packets
<1>2. QED
  BY <1>1, TransportInvariant, ResponderInvariant, PTL

\* On a network that keeps order and loses nothing, exactly the payloads sent
\* before the first keepalive are lost, and the others come in order.
THEOREM OnlyEarlyPayloadsLostCorrect == Spec => []OnlyEarlyPayloadsLost
<1>1. RInv => OnlyEarlyPayloadsLost
  BY DEF RInv, LateQueued, QueueIncreases, OnlyEarlyPayloadsLost
<1>2. QED
  BY <1>1, ResponderInvariant, PTL

\* Whatever the network does, what recv() sees is an ordered lossy channel of
\* payloads, also across the move of the transport into the Session.
THEOREM OpeningImplementsChannel == Spec => ImplementsChannel
<1>1. Init => Channel!Init
  BY DEF Init, Transport!Init, Channel!Init, Keepalives
<1>2. T!IInv /\ RInv /\ [Next]_vars => [Channel!Next]_Channel!vars
  <2> SUFFICES ASSUME T!IInv, RInv, [Next]_vars
               PROVE  [Channel!Next]_Channel!vars
    OBVIOUS
  <2>f. TransportFacts
    BY TransportGives
  <2>send. CASE send
    <3> DEFINE m == [nonce |-> next_nonce, data |-> "payload"]
    <3>1. wire' = wire \cup {m} /\ queue' = queue
      BY <2>send DEF send, Transport!write_message, others
    <3>2. (wire \ Keepalives)' = (wire \ Keepalives) \cup {m}
      BY <3>1 DEF Keepalives
    <3>3. m \in Channel!Messages
      BY <2>f DEF TransportFacts, Channel!Messages
    <3>4. Channel!Send(m)
      BY <2>f, <3>1, <3>2 DEF TransportFacts, Channel!Send
    <3>5. QED
      BY <3>3, <3>4 DEF Channel!Next
  <2>tick. CASE KeepaliveTick
    <3>1. wire' = wire \cup {[nonce |-> next_nonce, data |-> "keepalive"]}
          /\ queue' = queue
      BY <2>tick DEF KeepaliveTick, Transport!write_message, others
    <3>2. (wire \ Keepalives)' = wire \ Keepalives
      BY <3>1 DEF Keepalives
    <3>3. QED
      BY <3>1, <3>2 DEF Channel!vars
  <2>rest. CASE WriteFails \/ Close \/ UNCHANGED vars
    <3>1. wire' = wire /\ queue' = queue
      BY <2>rest DEF WriteFails, Close, vars, others, Transport!write_message_fails
    <3>2. QED
      BY <3>1 DEF Channel!vars, Keepalives
  <2>read. ASSUME NEW p \in wire, Receive(p)
           PROVE  [Channel!Next]_Channel!vars
    <3>1. wire' = wire
      BY <2>read DEF Receive, Transport!read_message
    <3>2. (wire \ Keepalives)' = wire \ Keepalives
      BY <3>1 DEF Keepalives
    <3>3. CASE queue' = queue
      BY <3>2, <3>3 DEF Channel!vars
    <3>4. CASE queue' = Append(queue, p) /\ p.data = "payload"
      <4>1. p \in Channel!Messages
        BY <2>f, <3>4 DEF TransportFacts, Channel!Messages
      <4>2. \A i \in DOMAIN queue : queue[i].nonce < p.nonce
        BY <2>read, ReadIsNewest DEF RInv, QueueRead, ToSet
      <4>3. Channel!Deliver(p)
        BY <3>2, <3>4, <4>2 DEF Channel!Deliver, Keepalives
      <4>4. QED
        BY <4>1, <4>3 DEF Channel!Next
    <3>5. QED
      BY <2>read, <3>3, <3>4 DEF Receive, HandlePending, HandleEstablished
  <2>q. QED
    BY <2>send, <2>tick, <2>rest, <2>read DEF Next
<1>3. QED
  BY <1>1, <1>2, TransportInvariant, ResponderInvariant, PTL
     DEF Spec, ImplementsChannel, Channel!Spec
=============================================================================
