------------------------------ MODULE Traversal ------------------------------
(***************************************************************************)
(* Two VeqSockets find a path to each other: binding the v4 and v6 sockets *)
(* (dualstack), the addresses they advertise (ip_discovery), and the       *)
(* handshake of one connect() on each side, sent to every advertised       *)
(* address at once, until each side has the remote_addr it will use.       *)
(*                                                                         *)
(* The network (external) is what the code is written for: hosts share a   *)
(* machine, share a LAN, or sit apart, each behind a NAT or a firewall per *)
(* address family that rewrites the source of what leaves and admits what  *)
(* answers it. Hairpin translation is not assumed. Packets may be lost and *)
(* repeated; every loop sends its packet again each second.                *)
(*                                                                         *)
(* Cryptography and reconnects are left to Handshake, which this module    *)
(* implements.                                                             *)
(***************************************************************************)
EXTENDS Naturals

CONSTANT Networks   \* the environments: [place : Places, nat : [Peers -> ...]]

Peers == {"a", "b"}
Other(p) == CHOOSE q \in Peers : q # p
Families == {"v4", "v6"}
\* A VersionedSocket has one family, a DualSocket both.
Sockets == SUBSET Families \ {{}}
\* Public keys, which have an order.
Keys == 1..2
Places == {"host", "lan", "apart"}
Nats == [stun : BOOLEAN,                        \* the STUN query is answered
         map : {"none", "same", "perdest"},     \* ports rewritten
         filter : {"none", "address", "port"}]  \* which senders are admitted

ASSUME NetworksAssumption ==
    Networks \subseteq [place : Places, nat : [Peers -> [Families -> Nats]]]

\* A socket address: "own" is the port the socket is bound to, "map" the one
\* its NAT shows the STUN server, "dest" one made for a single destination.
Ips == {"any", "loop", "lan", "ext"}
\* What a socket may be bound to: every interface, the loopback one, or one
\* of the LAN.
BindIps == {"any", "loop", "lan"}
Ports == {"own", "map", "dest"}
SocketAddr == [fam : Families, ip : Ips, of : Peers, port : Ports]
Addr(f, ip, p, port) == [fam |-> f, ip |-> ip, of |-> p, port |-> port]

VARIABLES network,      \* the environment, chosen once
          key,          \* public keys
          st,           \* where each socket is: bind, connect(), the handshake
          bound, at,    \* families it has a socket for, and the ip it is bound to
          addresses,    \* ConnectionInfo::addresses
          remote,       \* {remote_addr} once there is one
          net           \* every packet sent so far

vars == <<network, key, st, bound, at, addresses, remote, net>>
env == <<network, key>>
sockets == <<bound, at, addresses>>

States == {"unbound", "failed", "bound", "initiating", "poking",
           "responding", "established"}
Kinds == {"poke", "initiation", "response", "keepalive"}
Packets == [from : Peers, to : SocketAddr, kind : Kinds]

TypeOK ==
    /\ network \in Networks /\ key \in [Peers -> Keys]
    /\ st \in [Peers -> States]
    /\ bound \in [Peers -> SUBSET Families] /\ at \in [Peers -> BindIps]
    /\ addresses \in [Peers -> SUBSET [fam : Families, ip : Ips \ {"any"},
                                       of : Peers, port : Ports \ {"dest"}]]
    /\ remote \in [Peers -> SUBSET SocketAddr]
    /\ net \subseteq Packets

\* Naming the peers so that the keys are in order loses no case.
Init ==
    /\ network \in Networks
    /\ key \in {k \in [Peers -> Keys] : k["a"] <= k["b"]}
    /\ st = [p \in Peers |-> "unbound"]
    /\ bound = [p \in Peers |-> {}] /\ at = [p \in Peers |-> "any"]
    /\ addresses = [p \in Peers |-> {}] /\ remote = [p \in Peers |-> {}]
    /\ net = {}

-----------------------------------------------------------------------------
\* The network, external to the code.

nat(p, f) == network.nat[p][f]

\* The port that packets of p to another host seem to come from, and that
\* answers must be sent to.
OuterPort(p, f) ==
    CASE nat(p, f).map = "none" -> "own"
      [] nat(p, f).map = "same" -> "map"
      [] nat(p, f).map = "perdest" -> "dest"

\* The source address the receiver of a packet sees.
Src(pk) ==
    Addr(pk.to.fam, pk.to.ip, pk.from,
         IF pk.to.ip = "ext" THEN OuterPort(pk.from, pk.to.fam) ELSE "own")

\* q has sent something that makes its NAT or firewall admit address s.
Admits(q, s) ==
    LET f == nat(q, s.fam).filter
    IN  \/ f = "none"
        \/ \E pk \in net : /\ pk.from = q /\ pk.to.fam = s.fam
                           /\ pk.to.ip = s.ip
                           /\ f = "port" => pk.to.port = s.port

\* A socket of p that is bound to ip b can send to, and be reached at, an
\* address of kind ip: where send_to and recv_from meet the operating system.
\* Behind a NAT, what leaves the LAN leaves from the host's address there.
Uses(p, f, b, ip) ==
    \/ b \in {"any", ip}
    \/ b = "lan" /\ ip = "ext" /\ nat(p, f).map # "none"

SocketFor(p, a) == a.fam \in bound[p] /\ Uses(p, a.fam, at[p], a.ip)

\* A packet gets to a socket of the peer it is meant for.
Arrives(pk) ==
    LET q == pk.to.of
    IN  /\ SocketFor(q, pk.to)
        /\ \/ pk.to.ip = "loop" /\ network.place = "host"
           \/ pk.to.ip = "lan" /\ network.place \in {"host", "lan"}
           \/ /\ pk.to.ip = "ext" /\ network.place = "apart"
              /\ pk.to.port = OuterPort(q, pk.to.fam)
              /\ Admits(q, Src(pk))

-----------------------------------------------------------------------------
\* Mutated forms of the definitions below, for the mutation runs.
DiscoverUnspecified(p, fams, ip) ==
    UNION {{Addr(f, ip, p, "own"), Addr(f, "lan", p, "own")} : f \in fams}
PokesNobody(p) == {}
LargerKeyInitiates(p) == key[p] > key[Other(p)]
AnswersAdvertised(p, pk) ==
    CHOOSE a \in addresses[Other(p)] : a.fam = pk.to.fam
InitiationEstablishes(p, pk) ==
    /\ pk.kind \in {"initiation", "response"}
    /\ st[p] \in {"poking", "initiating"}
    /\ st' = [st EXCEPT ![p] = "established"]
    /\ remote' = [remote EXCEPT ![p] = {Src(pk)}]

-----------------------------------------------------------------------------
\* ip_discovery.

\* The interfaces' addresses of one family, with the bound port: without a NAT
\* the host's outer address is one of them.
local_ips(p, f) ==
    {Addr(f, ip, p, "own") :
        ip \in {"loop", "lan"} \cup {x \in {"ext"} : nat(p, f).map = "none"}}

\* What the STUN server sees, if the socket reaches it and it answers.
Observed(p, f, ip) ==
    IF Uses(p, f, ip, "ext") /\ nat(p, f).stun
    THEN {Addr(f, "ext", p, IF nat(p, f).map = "none" THEN "own" ELSE "map")}
    ELSE {}

public_v4(p, ip) == Observed(p, "v4", ip)

\* For v6 the same ip with the bound port is added.
public_v6(p, ip) ==
    Observed(p, "v6", ip)
        \cup {[a EXCEPT !.port = "own"] : a \in Observed(p, "v6", ip)}

\* Unspecified addresses are dropped at the end.
discover_ips(p, fams, ip) ==
    LET v4 == {Addr("v4", ip, p, "own")} \cup local_ips(p, "v4")
                  \cup public_v4(p, ip)
        v6 == {Addr("v6", ip, p, "own")} \cup local_ips(p, "v6")
                  \cup public_v6(p, ip)
        ips == (IF "v4" \in fams THEN v4 ELSE {})
                   \cup (IF "v6" \in fams THEN v6 ELSE {})
    IN  {a \in ips : a.ip # "any"}

-----------------------------------------------------------------------------
\* veq.rs and dualstack.

\* bind, dualstack, from_socket: one socket or one for each family, bound alike;
\* then the addresses are collected.
from_socket(p, fams, ip) ==
    /\ st[p] = "unbound"
    /\ st' = [st EXCEPT ![p] = "bound"]
    /\ bound' = [bound EXCEPT ![p] = fams]
    /\ at' = [at EXCEPT ![p] = ip]
    /\ addresses' = [addresses EXCEPT ![p] = discover_ips(p, fams, ip)]
    /\ UNCHANGED <<remote, net>> /\ UNCHANGED env

\* Either bind or the listing of the interfaces fails: there is no VeqSocket.
BindFails(p) ==
    /\ st[p] = "unbound"
    /\ st' = [st EXCEPT ![p] = "failed"]
    /\ UNCHANGED <<remote, net>> /\ UNCHANGED env /\ UNCHANGED sockets

is_initiator(p) == key[p] < key[Other(p)]

\* connect() with the other's ConnectionInfo.
connect(p) ==
    /\ st[p] = "bound" /\ st[Other(p)] \notin {"unbound", "failed"}
    /\ st' = [st EXCEPT ![p] = IF is_initiator(p) THEN "initiating" ELSE "poking"]
    /\ UNCHANGED <<remote, net>> /\ UNCHANGED env /\ UNCHANGED sockets

\* The outgoing loop: send_to picks the socket by the address's family, and
\* drops the packet with an error where there is none or it cannot route.
Outgoing(p, kind, to) ==
    {[from |-> p, to |-> a, kind |-> kind] : a \in {x \in to : SocketFor(p, x)}}

PokeAddresses(p) == addresses[Other(p)]

\* A tick of whichever send loop is running.
Tick(p) ==
    /\ net' = net \cup
         CASE st[p] = "poking" -> Outgoing(p, "poke", PokeAddresses(p))
           [] st[p] = "initiating" ->
                  Outgoing(p, "initiation", addresses[Other(p)])
           [] st[p] = "responding" -> Outgoing(p, "response", remote[p])
           [] st[p] = "established" -> Outgoing(p, "keepalive", remote[p])
           [] OTHER -> {}
    /\ UNCHANGED <<st, remote>> /\ UNCHANGED env /\ UNCHANGED sockets

-----------------------------------------------------------------------------
\* The receive loop, and what handle_incoming makes of each packet.

\* Where the answer goes: the source of the packet, whatever was advertised.
working_remote_addr(p, pk) == Src(pk)

\* PendingSessionPoker takes the first initiation, PendingSessionInitiator the
\* first response; each keeps its source as the remote address.
TakeHandshake(p, pk) ==
    /\ \/ /\ pk.kind = "initiation" /\ st[p] = "poking"
          /\ st' = [st EXCEPT ![p] = "responding"]
       \/ /\ pk.kind = "response" /\ st[p] = "initiating"
          /\ st' = [st EXCEPT ![p] = "established"]
    /\ remote' = [remote EXCEPT ![p] = {working_remote_addr(p, pk)}]

\* PendingSessionResponder takes a keepalive and keeps its remote address.
TakeKeepalive(p, pk) ==
    /\ pk.kind = "keepalive" /\ st[p] = "responding"
    /\ st' = [st EXCEPT ![p] = "established"]
    /\ UNCHANGED remote

\* Pokes, and packets no pending session waits for, change nothing.
Receive(p) ==
    \E pk \in net :
        /\ pk.to.of = p /\ Arrives(pk)
        /\ TakeHandshake(p, pk) \/ TakeKeepalive(p, pk)
        /\ UNCHANGED net /\ UNCHANGED env /\ UNCHANGED sockets

Next ==
    \E p \in Peers :
        \/ \E fams \in Sockets, ip \in BindIps :
               from_socket(p, fams, ip)
        \/ BindFails(p) \/ connect(p) \/ Tick(p) \/ Receive(p)

\* The loops tick; the network does not lose every copy of a packet that is
\* sent again each second. Sockets are bound and connected at will.
Fairness == \A p \in Peers : WF_vars(Tick(p)) /\ WF_vars(Receive(p))

Spec == Init /\ [][Next]_vars /\ Fairness

-----------------------------------------------------------------------------
\* p knows its outer address, from the STUN server or from an interface.
KnowsOuter(p, f) == nat(p, f).stun \/ nat(p, f).map = "none"

\* Some address of r can be reached by i, read off the environment: a local
\* one, or r's outer one when that is the same for every destination and r's
\* filter is opened by pokes to the outer address that i advertises.
HasPath(i, r) ==
    \E f \in bound[i] \cap bound[r] :
        LET Both(ip) == Uses(i, f, at[i], ip) /\ Uses(r, f, at[r], ip)
            N == nat(r, f)
            M == nat(i, f)
        IN  \/ network.place = "host" /\ (Both("loop") \/ Both("lan"))
            \/ network.place = "lan" /\ Both("lan")
            \/ /\ network.place = "apart" /\ Both("ext")
               /\ KnowsOuter(r, f) /\ N.map # "perdest"
               /\ \/ N.filter = "none"
                  \/ /\ KnowsOuter(i, f)
                     /\ N.filter = "address" \/ M.map # "perdest"

\* Whatever address the first packet came from, it leads back to the peer
\* that sent it: the response, and all later traffic, goes to no other one.
RemoteAddrRoutes ==
    \A p \in Peers : \A a \in remote[p] :
        /\ a.of = Other(p)
        /\ Arrives([from |-> p, to |-> a, kind |-> "keepalive"])

\* A session comes only of a path from the peer with the smaller key to the
\* other. A path in the other direction alone is not used: the initiator
\* gives pokes no answer, so which peer has which key decides.
SessionNeedsPath ==
    \A i, r \in Peers :
        (st[i] = "established" /\ st[r] = "established" /\ i # r)
            => key[i] # key[r] /\ (key[i] < key[r] => HasPath(i, r))

\* Two sockets with different keys that connect to each other get their
\* session whenever the initiator has a path to the responder, be it only one
\* family of two, or one that the responder's pokes must open first.
ReachableConnects ==
    \A i, r \in Peers :
        (st[i] = "initiating" /\ st[r] = "poking" /\ HasPath(i, r))
            ~> (st[i] = "established" /\ st[r] = "established")

-----------------------------------------------------------------------------
\* The handshake of Handshake, with one connect() of each peer.
I == "a"
R == "b"
Seen(kind, p) == \E pk \in net : pk.kind = kind /\ pk.from = p
HS == INSTANCE Handshake WITH
    MaxConnects <- 1,
    ist <- IF st[I] \in {"initiating", "established"} THEN st[I] ELSE "idle",
    ik <- IF st[I] \in {"initiating", "established"} THEN 1 ELSE 0,
    ij <- IF st[I] = "established" THEN 1 ELSE 0,
    iloop <- st[I] = "initiating",
    rst <- IF st[R] \in {"poking", "responding", "established"}
           THEN st[R] ELSE "idle",
    rj <- IF st[R] \in {"poking", "responding", "established"} THEN 1 ELSE 0,
    rk <- IF st[R] \in {"responding", "established"} THEN 1 ELSE 0,
    sent <- {m \in {[kind |-> "initiation", k |-> 1, j |-> 0]} :
                 Seen("initiation", I)}
            \cup {m \in {[kind |-> "response", k |-> 1, j |-> 1]} :
                 Seen("response", R)}
            \cup {m \in {[kind |-> "keepalive", k |-> 1, j |-> 1]} :
                 Seen("keepalive", I)},
    stale <- FALSE

\* Over any number of addresses and families, and however the copies of a
\* packet arrive, one connect() on each side is a handshake of Handshake.
ImplementsHandshake == HS!SafetySpec
=============================================================================
