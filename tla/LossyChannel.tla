---------------------------- MODULE LossyChannel ----------------------------
(***************************************************************************)
(* What one direction of an encrypted udpp session promises its reader,    *)
(* with no nonces window, no keys and no wire: messages that were written  *)
(* come out at most once each, any of them may be lost, and, when Ordered, *)
(* those that do come out come out in the order in which they were         *)
(* written.  LossyTransport is shown to implement this specification.      *)
(***************************************************************************)
EXTENDS Naturals, Sequences

CONSTANTS Data,      \* plaintexts
          Stamps,    \* the numbers a writer may attach to its messages
          Ordered    \* TRUE: delivery never goes back in writing order

VARIABLES sent,      \* the messages written so far, each with its own stamp
          delivered  \* the messages handed to the reader, in that order

vars == <<sent, delivered>>

Messages == [nonce : Stamps, data : Data]

Init ==
    /\ sent = {}
    /\ delivered = << >>

\* A message enters the channel; its stamp is above every stamp used before.
Send(m) ==
    /\ \A s \in sent : s.nonce < m.nonce
    /\ sent' = sent \cup {m}
    /\ UNCHANGED delivered

\* A message leaves the channel.  One that is never picked has been lost.
Deliver(m) ==
    /\ m \in sent
    /\ \A i \in DOMAIN delivered :
           IF Ordered THEN delivered[i].nonce < m.nonce
                      ELSE delivered[i].nonce # m.nonce
    /\ delivered' = Append(delivered, m)
    /\ UNCHANGED sent

Next == \E m \in Messages : Send(m) \/ Deliver(m)

Spec == Init /\ [][Next]_vars
=============================================================================
