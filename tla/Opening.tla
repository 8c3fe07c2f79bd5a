------------------------------- MODULE Opening -------------------------------
(***************************************************************************)
(* The first packets of a session, from the initiator, whose connect() has *)
(* returned, to the responder, which is a PendingSessionResponder until a  *)
(* keepalive gets through and a Session afterwards.  Keepalive task and    *)
(* send() of the initiator share one transport; the responder's transport  *)
(* moves from the pending session into the Session.  Both are the          *)
(* LossyTransport, composed here with what its users make of each message. *)
(*                                                                         *)
(* The network loses, duplicates and reorders, or (fifo) does neither.     *)
(***************************************************************************)
EXTENDS Naturals, Sequences, SequencesExt

CONSTANT MaxNonce  \* bound on the messages written; the last is left to the
                   \* keepalive task

ASSUME MaxNonceAssumption == MaxNonce \in Nat \ {0}

VARIABLES fifo,             \* the kind of network, chosen once
          up,               \* the initiator's session is not dead
          ticking,          \* its keepalive task runs
          next_nonce, wire, \* its transport, and what it sent
          phase,            \* the responder: "responding" or "established"
          received_nonces,  \* its transport
          read,             \* history: the packets its transport returned
          queue             \* payloads in the channel of its Session

vars == <<fifo, up, ticking, next_nonce, wire, phase, received_nonces, read,
          queue>>
others == <<fifo, up, phase, queue>>

Messages == {"keepalive", "payload"}

\* The transport of a session: a window of one nonce (from_stateless).
Transport == INSTANCE LossyTransport WITH
    Data <- Messages, Size <- 1, StrayNonces <- {}, delivered <- read

TypeOK ==
    /\ fifo \in BOOLEAN /\ up \in BOOLEAN /\ ticking \in BOOLEAN
    /\ phase \in {"responding", "established"}
    /\ Transport!TypeOK
    /\ queue \in Seq([nonce : Transport!Nonces, data : {"payload"}])

Init ==
    /\ fifo \in BOOLEAN /\ up = TRUE /\ ticking = TRUE
    /\ phase = "responding" /\ queue = << >>
    /\ Transport!Init

-----------------------------------------------------------------------------
\* Mutated forms of the definitions below, for the mutation runs.
HandleAsEstablished(p) ==
    /\ phase = "responding"
    /\ phase' = "established"
    /\ queue' = IF p.data = "payload" THEN Append(queue, p) ELSE queue
QueuedTwice(p) ==
    /\ phase = "established"
    /\ queue' = IF p.data = "payload" THEN queue \o <<p, p>> ELSE queue
    /\ UNCHANGED phase
StaysPending(p) == phase = "responding" /\ UNCHANGED <<phase, queue>>
QueuesEveryMessage(p) ==
    /\ phase = "established"
    /\ queue' = Append(queue, p)
    /\ UNCHANGED phase

-----------------------------------------------------------------------------
\* send() of the handle: on a dead session it fails and changes nothing; else
\* the payload is sealed and queued for the socket under the transport's lock,
\* so packets leave in the order of their nonces.
send ==
    /\ up /\ next_nonce < MaxNonce - 1
    /\ Transport!write_message("payload")
    /\ UNCHANGED ticking /\ UNCHANGED others

\* The cipher fails, for send() or for the keepalive task, which then goes on
\* without a look at dead.
WriteFails ==
    /\ ticking /\ next_nonce < MaxNonce - 1
    /\ Transport!write_message_fails
    /\ UNCHANGED ticking /\ UNCHANGED others

\* The keepalive task sends, then looks whether the session is dead.
KeepaliveTick ==
    /\ ticking
    /\ Transport!write_message("keepalive")
    /\ ticking' = up
    /\ UNCHANGED others

\* The initiator's session is closed, or its watchdog gives up.
Close ==
    /\ up /\ up' = FALSE
    /\ UNCHANGED <<fifo, phase, queue, ticking, next_nonce, wire,
                   received_nonces, read>>

\* PendingSessionResponder::handle_incoming: only a keepalive makes it a
\* session; a payload is an error, and lost, its nonce spent.
HandlePending(p) ==
    /\ phase = "responding"
    /\ phase' = IF p.data = "keepalive" THEN "established" ELSE phase
    /\ UNCHANGED queue

\* Session::handle_incoming: a payload goes into the channel.
HandleEstablished(p) ==
    /\ phase = "established"
    /\ queue' = IF p.data = "payload" THEN Append(queue, p) ELSE queue
    /\ UNCHANGED phase

\* A packet reaches the responder, whose transport accepts it.
Receive(p) ==
    /\ p \in wire
    /\ fifo => \A q \in wire : q.nonce < p.nonce => q \in ToSet(read)
    /\ Transport!read_message(p)
    /\ HandlePending(p) \/ HandleEstablished(p)
    /\ UNCHANGED <<fifo, up, ticking>>

Next ==
    \/ send \/ WriteFails \/ KeepaliveTick \/ Close
    \/ \E p \in wire : Receive(p)

\* The keepalive task's interval fires, and packets that were not lost arrive.
Fairness == WF_vars(KeepaliveTick) /\ WF_vars(\E p \in wire : Receive(p))

Spec == Init /\ [][Next]_vars /\ Fairness

-----------------------------------------------------------------------------
Keepalives == {k \in wire : k.data = "keepalive"}

\* A payload sent after the first keepalive.
Late(p) == p.data = "payload" /\ \E k \in Keepalives : k.nonce < p.nonce

\* On a network that keeps order and loses nothing, the payloads that are lost
\* are those sent before the first keepalive, which race the keepalive task;
\* every other one that arrived is in the channel, once and in order.
OnlyEarlyPayloadsLost ==
    fifo => /\ ToSet(queue) = {p \in ToSet(read) : Late(p)}
            /\ \A i, j \in DOMAIN queue : i < j => queue[i].nonce < queue[j].nonce

\* A responder whose initiator stays up becomes a session, however many
\* payloads come first, if the network keeps order.
ResponderPromoted == fifo /\ up ~> phase = "established" \/ ~up

\* Whatever the network does, and across the move of the transport from the
\* pending session to the Session, recv() sees an ordered lossy channel.
Channel == INSTANCE LossyChannel WITH
    Data <- {"payload"}, Stamps <- 0..MaxNonce, Ordered <- TRUE,
    sent <- wire \ Keepalives, delivered <- queue
ImplementsChannel == Channel!Spec
=============================================================================
