------------------------------ MODULE Handshake ------------------------------
(***************************************************************************)
(* The handshake between two peers that connect() with the same session    *)
(* id: the initiator (the peer with the smaller public key, is_initiator)  *)
(* and the responder, over a network that loses, duplicates and delays.    *)
(*                                                                         *)
(* The i-th connect() of the initiator and the j-th of the responder each  *)
(* build a fresh handshake state, so a session key is a pair <<k, j>>.     *)
(* The cipher (snow, external) is modelled by what it lets through: any    *)
(* initiation of this initiator is good for a poking responder; a response *)
(* is good for the initiator only if it answers its own initiation; an     *)
(* encrypted packet is good only under its own key.                        *)
(*                                                                         *)
(* Each handle_incoming is one step here (module Handler takes it apart).  *)
(* Pokes, which only open a path through a NAT, change no state.           *)
(***************************************************************************)
EXTENDS Naturals

CONSTANT MaxConnects    \* bound on the connect() calls of each peer

ASSUME MaxAssumption == MaxConnects \in Nat

VARIABLES ist, ik, ij,  \* initiator: state, its connect() number, and the
                        \* responder's number in its key once established
          iloop,        \* its PendingSessionInitiator is sending
          rst, rj, rk,  \* responder: state, its connect() number, and the
                        \* initiator's number in its key once responding
          sent,         \* every handshake packet and keepalive sent so far
          stale         \* history: a packet whose loop had stopped was taken
                        \* since the last connect() of either peer

ivars == <<ist, ik, ij, iloop>>
rvars == <<rst, rj, rk>>
vars == <<ist, ik, ij, iloop, rst, rj, rk, sent, stale>>

Numbers == 0..MaxConnects
Packets == [kind : {"initiation", "response", "keepalive"},
            k : Numbers, j : Numbers]

Initiation(k) == [kind |-> "initiation", k |-> k, j |-> 0]
Response(k, j) == [kind |-> "response", k |-> k, j |-> j]
Keepalive(k, j) == [kind |-> "keepalive", k |-> k, j |-> j]

TypeOK ==
    /\ ist \in {"idle", "initiating", "established"}
    /\ rst \in {"idle", "poking", "responding", "established"}
    /\ ik \in Numbers /\ ij \in Numbers /\ rj \in Numbers /\ rk \in Numbers
    /\ iloop \in BOOLEAN
    /\ sent \subseteq Packets
    /\ \A m \in sent : m.k # 0 /\ (m.j = 0 <=> m.kind = "initiation")
    /\ stale \in BOOLEAN

Init ==
    /\ ist = "idle" /\ ik = 0 /\ ij = 0 /\ iloop = FALSE
    /\ rst = "idle" /\ rj = 0 /\ rk = 0
    /\ sent = {} /\ stale = FALSE

-----------------------------------------------------------------------------
\* Mutated forms of the definitions below, for the mutation runs.
AnyKeepalive(m) ==
    /\ rst = "responding" /\ m.kind = "keepalive"
    /\ rst' = "established"
    /\ UNCHANGED <<rj, rk, sent>> /\ UNCHANGED ivars
KeepaliveDiscarded(m) ==
    /\ rst = "responding" /\ m = Keepalive(rk, rj)
    /\ UNCHANGED <<sent, ivars, rvars>>
InitiationPromotes(m) ==
    /\ rst = "poking" /\ m.kind = "initiation"
    /\ rst' = "established" /\ rk' = m.k
    /\ UNCHANGED <<rj, sent>> /\ UNCHANGED ivars
InitiationForgotten(m) ==
    /\ rst = "poking" /\ m.kind = "initiation"
    /\ rst' = "responding"
    /\ UNCHANGED <<rj, rk, sent>> /\ UNCHANGED ivars

-----------------------------------------------------------------------------
\* connect() on the initiator: what there was under the id is removed, and a
\* fresh handshake state starts sending its initiation.
IConnect ==
    /\ ik < MaxConnects
    /\ ik' = ik + 1
    /\ ist' = "initiating" /\ iloop' = TRUE /\ stale' = FALSE
    /\ UNCHANGED <<ij, sent>> /\ UNCHANGED rvars

\* connect() on the responder.
RConnect ==
    /\ rj < MaxConnects
    /\ rj' = rj + 1
    /\ rst' = "poking" /\ stale' = FALSE
    /\ UNCHANGED <<rk, sent>> /\ UNCHANGED ivars

\* A connect() or a handle is dropped, or the watchdog gives the session up
\* (a dead session in the map takes no part in a handshake either).
ILeave ==
    /\ ist # "idle"
    /\ ist' = "idle" /\ iloop' = FALSE
    /\ UNCHANGED <<ik, ij, sent, stale>> /\ UNCHANGED rvars

RLeave ==
    /\ rst # "idle"
    /\ rst' = "idle"
    /\ UNCHANGED <<rj, rk, sent, stale>> /\ UNCHANGED ivars

\* What the send loops are sending now.
Current ==
    (IF iloop THEN {Initiation(ik)} ELSE {})
    \cup (IF rst = "responding" THEN {Response(rk, rj)} ELSE {})
    \cup (IF ist = "established" THEN {Keepalive(ik, ij)} ELSE {})

\* A tick of a send loop.
Tick(m) ==
    /\ m \in Current \ sent
    /\ sent' = sent \cup {m}
    /\ UNCHANGED stale /\ UNCHANGED ivars /\ UNCHANGED rvars

\* PendingSessionPoker gets an initiation: it becomes a responder, which
\* looks at no further initiation.
GetInitiation(m) ==
    /\ rst = "poking" /\ m.kind = "initiation"
    /\ rst' = "responding" /\ rk' = m.k
    /\ UNCHANGED <<rj, sent>> /\ UNCHANGED ivars

\* The response decrypts: it answers the initiation of this connect().
receive_response(m) == m.k = ik

\* PendingSessionInitiator gets a response: its loop is aborted, and if the
\* response answers its initiation it has a session.
GetResponse(m) ==
    /\ ist = "initiating" /\ m.kind = "response"
    /\ iloop' = FALSE
    /\ IF receive_response(m) THEN ist' = "established" /\ ij' = m.j
                              ELSE UNCHANGED <<ist, ij>>
    /\ UNCHANGED <<ik, sent>> /\ UNCHANGED rvars

\* PendingSessionResponder gets a keepalive under its key: it has a session.
GetKeepalive(m) ==
    /\ rst = "responding" /\ m = Keepalive(rk, rj)
    /\ rst' = "established"
    /\ UNCHANGED <<rj, rk, sent>> /\ UNCHANGED ivars

Get(m) == GetInitiation(m) \/ GetResponse(m) \/ GetKeepalive(m)

\* The network hands over a packet: one a loop is sending, or an old one.
DeliverCurrent(m) == m \in Current \cap sent /\ Get(m) /\ UNCHANGED stale
DeliverLate(m) == m \in sent \ Current /\ Get(m) /\ stale' = TRUE

Next ==
    \/ IConnect \/ RConnect \/ ILeave \/ RLeave
    \/ \E m \in Packets : Tick(m) \/ DeliverCurrent(m) \/ DeliverLate(m)

\* The send loops tick, and the network does not lose every copy of a packet
\* that is sent again every second.
Fairness ==
    /\ WF_vars(\E m \in Packets : Tick(m))
    /\ \A m \in Packets : WF_vars(DeliverCurrent(m))

SafetySpec == Init /\ [][Next]_vars
Spec == SafetySpec /\ Fairness

\* The peers take turns as in test_session_id_reuse: a peer connects again
\* when both have left, or when the other has already connected again.
InTurn ==
    /\ ik' # ik => ist = "idle" /\ (ik < rj \/ (ik = rj /\ rst = "idle"))
    /\ rj' # rj => rst = "idle" /\ (rj < ik \/ (rj = ik /\ ist = "idle"))
ReuseSpec == Init /\ [][Next /\ InTurn]_vars /\ Fairness

-----------------------------------------------------------------------------
\* Two established sessions under one id have the same key, whatever either
\* peer reconnects and however old the packets are that arrive.
KeyAgreement ==
    ist = "established" /\ rst = "established" => ik = rk /\ ij = rj

\* The responder establishes a session only under a key the initiator held:
\* an initiation, fresh or stale, is not enough.
ResponderConfirmed ==
    rst = "established" => Keepalive(rk, rj) \in sent

\* Both peers are in the middle of a fresh connect(), the initiator's k-th
\* and the responder's j-th.
Connecting(k, j) ==
    ist = "initiating" /\ iloop /\ ik = k /\ rst = "poking" /\ rj = j

\* That pair of connect() calls has its session, or is no longer a pair.
Settled(k, j) ==
    \/ ist = "established" /\ rst = "established"
    \/ ist = "idle" \/ rst = "idle" \/ ik # k \/ rj # j

\* Two peers that connect() get their session, whatever they did under the id
\* before, unless one leaves, connects again, or takes a packet of a loop
\* that has stopped.
ConnectCompletes ==
    \A k, j \in Numbers : Connecting(k, j) ~> Settled(k, j) \/ stale

\* The second round of test_session_id_reuse (ReuseSpec): both peers had
\* dropped their session before either connected again, and the next
\* connect() on each side gets one as well, whatever the network still holds.
ReuseCompletes ==
    \A k \in Numbers : Connecting(k, k) ~> Settled(k, k)
=============================================================================
