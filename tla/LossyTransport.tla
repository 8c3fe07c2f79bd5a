--------------------------- MODULE LossyTransport ---------------------------
(***************************************************************************)
(* LossyTransportState of snow_types.rs: one direction of an encrypted     *)
(* session, from the write_message of one peer to the read_message of the  *)
(* other, over a network that may lose, duplicate, delay and reorder.      *)
(*                                                                         *)
(* The cipher is external (snow's StatelessTransportState): a packet       *)
(* written under the keys of this session decrypts to what was written,    *)
(* and a packet written under other keys does not decrypt.  The latter are *)
(* the stray packets: a session id can be used again by a later connect(), *)
(* and packets of the earlier session then reach the reader of the new     *)
(* one.                                                                    *)
(***************************************************************************)
EXTENDS Naturals, FiniteSets, Sequences

CONSTANTS Data,         \* plaintexts
          Size,         \* the window, "size" in LossyTransportState::new
          MaxNonce,     \* bound on next_nonce (a u64 in the code)
          StrayNonces   \* nonces on packets of other sessions

ASSUME SizeAssumption == Size \in Nat \ {0}
ASSUME MaxNonceAssumption == MaxNonce \in Nat
ASSUME StrayAssumption == StrayNonces \subseteq 0..MaxNonce

VARIABLES next_nonce,       \* writer: the nonce of the next message
          received_nonces,  \* reader: the window of nonces seen
          wire,             \* every packet written; the network may present
                            \* any of them at any time, any number of times
          delivered         \* history: what read_message returned, in order

vars == <<next_nonce, received_nonces, wire, delivered>>

Nonces == 0..MaxNonce
Packets == [nonce : Nonces, data : Data]

TypeOK ==
    /\ next_nonce \in Nonces
    /\ received_nonces \subseteq Nonces
    /\ wire \subseteq Packets
    /\ delivered \in Seq(Packets)

-----------------------------------------------------------------------------
\* Mutated forms of the definitions below, for the mutation runs.
RejectsOldOnly(nonce) ==
    received_nonces # {} /\ \A f \in received_nonces : f > nonce
NewestKeepOneMore(S) == {n \in S : Cardinality({m \in S : m > n}) <= Size}
NewestPopLast(S) == {n \in S : Cardinality({m \in S : m < n}) < Size}
NonceCountedTwice(d) ==
    /\ next_nonce < MaxNonce
    /\ next_nonce' = next_nonce + 2
    /\ wire' = wire \cup {[nonce |-> next_nonce, data |-> d]}
    /\ UNCHANGED <<received_nonces, delivered>>
NonceReused(d) ==
    /\ next_nonce < MaxNonce
    /\ \E n \in {next_nonce, next_nonce + 1} : next_nonce' = n
    /\ wire' = wire \cup {[nonce |-> next_nonce, data |-> d]}
    /\ UNCHANGED <<received_nonces, delivered>>

-----------------------------------------------------------------------------
Init ==
    /\ next_nonce = 0
    /\ received_nonces = {}
    /\ wire = {}
    /\ delivered = << >>

\* write_message: the nonce is taken, the counter moves on, the message is
\* sealed under that nonce and travels with it (struct Nonced).
write_message(d) ==
    /\ next_nonce < MaxNonce
    /\ next_nonce' = next_nonce + 1
    /\ wire' = wire \cup {[nonce |-> next_nonce, data |-> d]}
    /\ UNCHANGED <<received_nonces, delivered>>

\* write_message when the cipher or the serializer fails: the counter has
\* moved on already, so the nonce is spent and nothing is sent.
write_message_fails ==
    /\ next_nonce < MaxNonce
    /\ next_nonce' = next_nonce + 1
    /\ UNCHANGED <<received_nonces, wire, delivered>>

\* The reader turns down a nonce it holds, and one below its whole window
\* (the BTreeSet's first() is above it).
Rejects(nonce) ==
    \/ nonce \in received_nonces
    \/ received_nonces # {} /\ \A f \in received_nonces : f > nonce

\* while len() > size { pop_first() }: the Size greatest nonces stay.
Newest(S) == {n \in S : Cardinality({m \in S : m > n}) < Size}

\* The part of read_message that comes before decryption.  When the nonce is
\* rejected the call returns an error and changes nothing.
Admit(nonce) ==
    /\ ~Rejects(nonce)
    /\ received_nonces' = Newest(received_nonces \cup {nonce})

\* read_message on a packet of this session, which decrypts.
read_message(p) ==
    /\ p \in wire
    /\ Admit(p.nonce)
    /\ delivered' = Append(delivered, p)
    /\ UNCHANGED <<next_nonce, wire>>

\* read_message on a stray packet: the window has taken its nonce when the
\* decryption fails.
read_message_fails(nonce) ==
    /\ nonce \in StrayNonces
    /\ Admit(nonce)
    /\ UNCHANGED <<next_nonce, wire, delivered>>

Next ==
    \/ \E d \in Data : write_message(d)
    \/ write_message_fails
    \/ \E p \in wire : read_message(p)
    \/ \E n \in StrayNonces : read_message_fails(n)

Spec == Init /\ [][Next]_vars

-----------------------------------------------------------------------------
\* No message is handed to the reader twice, however the network duplicates
\* and reorders packets, and whatever the window size (the replay check of
\* read_message, test_nonce_rejects).
NoReplay ==
    \A i, j \in DOMAIN delivered :
        i # j => delivered[i].nonce # delivered[j].nonce

\* "Packets that are older than a configurable window are ignored"
\* (README.md): a message is returned only while fewer than Size newer ones
\* have been.  With the window of from_stateless (size 1), delivery follows
\* the order of writing.
Overtakers(j) ==
    {delivered[i].nonce : i \in {k \in DOMAIN delivered :
                                    k < j /\ delivered[k].nonce > delivered[j].nonce}}
WithinWindow ==
    \A j \in DOMAIN delivered : Cardinality(Overtakers(j)) < Size

\* The reader's memory stays within the configured window.
WindowBounded == Cardinality(received_nonces) <= Size

\* A nonce that read_message has turned down is turned down for ever: popping
\* the window never makes an old packet acceptable again.
RejectedForever ==
    [][\A n \in Nonces : Rejects(n) => Rejects(n)']_vars

\* "Invalid packets are ignored" (README.md): a genuine message newer than
\* all that were delivered is still acceptable to the reader.
NewestAccepted ==
    \A p \in wire :
        (\A i \in DOMAIN delivered : delivered[i].nonce < p.nonce)
            => ~Rejects(p.nonce)

\* The abstract channel this transport implements.
Channel == INSTANCE LossyChannel WITH
               Stamps <- Nonces, Ordered <- (Size = 1), sent <- wire

\* The transport is a lossy at-most-once channel, in order when size is 1.
ImplementsChannel == Channel!Spec
=============================================================================
