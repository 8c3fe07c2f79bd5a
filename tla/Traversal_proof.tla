--------------------------- MODULE Traversal_proof ---------------------------
(***************************************************************************)
(* Proofs about Traversal, for every set of environments: any placement of *)
(* the hosts and any NAT of each peer and family.                          *)
(*                                                                         *)
(* The argument follows the packets. A packet stays in net, names the role *)
(* and the progress of the peer that sent it (PacketsTell), and was sent   *)
(* from a socket of the address's family to an address of the other peer   *)
(* (Sent). Sockets, addresses and the environment are fixed before the     *)
(* first packet, and net only grows, so what a packet has once opened in a *)
(* NAT stays open. That gives the way back (RemoteAddrRoutes), the path a  *)
(* session needs, and, with the roles, the handshake of Handshake.         *)
(***************************************************************************)
EXTENDS Traversal, TLAPS

-----------------------------------------------------------------------------
\* The inductive invariant.

\* Before bind there is no socket.
NoSocketYet == \A p \in Peers : st[p] = "unbound" => bound[p] = {}

\* What a peer advertises is its own, of a family it is bound to, and an
\* outer address was seen by the STUN server or is an interface's.
Advertised ==
    \A p \in Peers : \A x \in addresses[p] :
        /\ x.of = p /\ x.fam \in bound[p]
        /\ x.ip = "ext" => KnowsOuter(p, x.fam)

\* A packet left by a socket that can send it, for the other peer; before
\* there is a remote address, to one that is advertised.
Sent ==
    \A pk \in net :
        /\ pk.to.of = Other(pk.from) /\ SocketFor(pk.from, pk.to)
        /\ pk.kind \in {"poke", "initiation"} =>
               pk.to \in addresses[Other(pk.from)]

\* What the kind of a packet tells of its sender, then and now.
PacketsTell ==
    \A pk \in net :
        LET p == pk.from
        IN  CASE pk.kind = "poke" ->
                     st[p] \in {"poking", "responding", "established"}
              [] pk.kind = "initiation" ->
                     is_initiator(p) /\ st[p] \in {"initiating", "established"}
              [] pk.kind = "response" ->
                     ~is_initiator(p) /\ st[p] \in {"responding", "established"}
              [] pk.kind = "keepalive" -> st[p] = "established"

\* The keys decide the roles, and equal keys get nowhere.
Roles ==
    \A p \in Peers :
        /\ st[p] = "initiating" => is_initiator(p)
        /\ st[p] \in {"poking", "responding"} => ~is_initiator(p)
        /\ st[p] \in {"responding", "established"} => key[p] # key[Other(p)]

\* An established peer has had the other's last word of the handshake.
Confirmed ==
    \A p \in Peers :
        st[p] = "established" =>
            Seen(IF is_initiator(p) THEN "response" ELSE "keepalive", Other(p))

\* A responder has had an initiation, so the initiator has a path to it.
ResponderReached ==
    \A p \in Peers :
        st[p] \in {"responding", "established"} /\ ~is_initiator(p) =>
            HasPath(Other(p), p)

IInv ==
    /\ TypeOK /\ key["a"] <= key["b"]
    /\ NoSocketYet /\ Advertised /\ Sent /\ PacketsTell
    /\ Roles /\ Confirmed /\ RemoteAddrRoutes /\ ResponderReached

-----------------------------------------------------------------------------
\* Operators.

LEMMA OtherPeer ==
    /\ Other("a") = "b" /\ Other("b") = "a"
    /\ \A p \in Peers : Other(p) \in Peers /\ Other(p) # p /\ Other(Other(p)) = p
<1>1. Other("a") = "b"
  BY DEF Other, Peers
<1>2. Other("b") = "a"
  BY DEF Other, Peers
<1>3. QED
  BY <1>1, <1>2 DEF Peers

\* What discover_ips returns, and where an outer address comes from.
LEMMA Discovered ==
    ASSUME NEW p \in Peers, NEW fams \in Sockets, NEW ip \in BindIps,
           NEW x \in discover_ips(p, fams, ip)
    PROVE  /\ x \in [fam : fams, ip : Ips \ {"any"}, of : {p},
                     port : Ports \ {"dest"}]
           /\ x.ip = "ext" => KnowsOuter(p, x.fam)
<1>1. \A f \in Families : \A y \in local_ips(p, f) :
          /\ y.fam = f /\ y.ip \in {"loop", "lan", "ext"} /\ y.of = p
          /\ y.port = "own" /\ y = Addr(y.fam, y.ip, y.of, y.port)
          /\ y.ip = "ext" => nat(p, f).map = "none"
  BY DEF local_ips, Addr
<1>2. \A f \in Families : \A y \in Observed(p, f, ip) :
          /\ y.fam = f /\ y.ip = "ext" /\ y.of = p /\ y.port \in {"own", "map"}
          /\ nat(p, f).stun /\ y = Addr(y.fam, y.ip, y.of, y.port)
  BY DEF Observed, Addr
<1>3. \A y \in public_v6(p, ip) :
          /\ y.fam = "v6" /\ y.ip = "ext" /\ y.of = p /\ y.port \in {"own", "map"}
          /\ nat(p, "v6").stun /\ y = Addr(y.fam, y.ip, y.of, y.port)
  <2>1. \A a \in Observed(p, "v6", ip) :
            [a EXCEPT !.port = "own"] = Addr("v6", "ext", p, "own")
    BY <1>2 DEF Addr, Families
  <2>2. SUFFICES ASSUME NEW y \in public_v6(p, ip), y \notin Observed(p, "v6", ip)
                 PROVE  y = Addr("v6", "ext", p, "own") /\ nat(p, "v6").stun
    BY <1>2 DEF Addr, Families
  <2>3. PICK a \in Observed(p, "v6", ip) : y = [a EXCEPT !.port = "own"]
    BY <2>2 DEF public_v6
  <2>4. QED
    BY <1>2, <2>1, <2>3 DEF Families
<1>4. /\ x.ip # "any" /\ x.fam \in fams
      /\ \/ x = Addr(x.fam, ip, p, "own")
         \/ x \in local_ips(p, x.fam)
         \/ x \in Observed(p, "v4", ip) /\ x.fam = "v4"
         \/ x \in public_v6(p, ip) /\ x.fam = "v6"
  BY <1>1, <1>2, <1>3 DEF discover_ips, public_v4, Addr, Families
<1>5. x.fam \in Families
  BY <1>4 DEF Sockets
<1>6. CASE x = Addr(x.fam, ip, p, "own")
  BY <1>4, <1>6 DEF Addr, Ips, BindIps, Ports
<1>7. CASE x \in local_ips(p, x.fam)
  <2>1. /\ x.ip \in {"loop", "lan", "ext"} /\ x.of = p /\ x.port = "own"
        /\ x = Addr(x.fam, x.ip, x.of, x.port)
        /\ x.ip = "ext" => nat(p, x.fam).map = "none"
    BY <1>1, <1>5, <1>7
  <2> QED
    BY <1>4, <2>1 DEF Addr, Ips, Ports, KnowsOuter
<1>8. CASE x \in Observed(p, "v4", ip) /\ x.fam = "v4"
  BY <1>2, <1>4, <1>8 DEF Addr, Ips, Ports, Families, KnowsOuter
<1>9. CASE x \in public_v6(p, ip) /\ x.fam = "v6"
  BY <1>3, <1>4, <1>9 DEF Addr, Ips, Ports, KnowsOuter
<1>10. QED
  BY <1>4, <1>6, <1>7, <1>8, <1>9

\* The sockets are left alone from bind on.
Fixed(p) == bound'[p] = bound[p] /\ at'[p] = at[p]

\* net only grows and sockets are fixed once bound, so a packet that arrives
\* keeps arriving.
LEMMA ArrivesOn ==
    ASSUME NEW pk, Arrives(pk), UNCHANGED network, net \subseteq net',
           Fixed(pk.to.of)
    PROVE  Arrives(pk)'
<1>1. Src(pk)' = Src(pk)
  BY DEF Src, OuterPort, nat
<1>2. OuterPort(pk.to.of, pk.to.fam)' = OuterPort(pk.to.of, pk.to.fam)
  BY DEF OuterPort, nat
<1>3. SocketFor(pk.to.of, pk.to)'
  BY DEF Fixed, SocketFor, Uses, nat, Arrives
<1>4. Admits(pk.to.of, Src(pk)) => Admits(pk.to.of, Src(pk))'
  BY <1>1 DEF Admits, nat
<1>5. QED
  BY <1>2, <1>3, <1>4 DEF Arrives

\* So does a path.
LEMMA PathStays ==
    ASSUME NEW i, NEW r, HasPath(i, r), UNCHANGED network, Fixed(i), Fixed(r)
    PROVE  HasPath(i, r)'
BY DEF HasPath, Fixed, Uses, KnowsOuter, nat

\* The reply to a packet that arrived gets back to its sender: the sender's
\* NAT gave the packet the source the reply goes to, and the packet opened it.
LEMMA WayBack ==
    ASSUME NEW pk \in net, Arrives(pk), SocketFor(pk.from, pk.to), NEW kind
    PROVE  Arrives([from |-> pk.to.of, to |-> Src(pk), kind |-> kind])
<1> DEFINE reply == [from |-> pk.to.of, to |-> Src(pk), kind |-> kind]
<1>1. /\ reply.from = pk.to.of /\ reply.to.fam = pk.to.fam
      /\ reply.to.ip = pk.to.ip /\ reply.to.of = pk.from
  BY DEF Src, Addr
<1>2. SocketFor(pk.from, reply.to)
  BY <1>1 DEF SocketFor
<1>3. CASE pk.to.ip = "ext"
  <2>1. reply.to.port = OuterPort(pk.from, pk.to.fam)
    BY <1>3 DEF Src, Addr
  <2>2. /\ Src(reply).fam = pk.to.fam /\ Src(reply).ip = pk.to.ip
        /\ Src(reply).port = OuterPort(pk.to.of, pk.to.fam)
    BY <1>1, <1>3 DEF Src, Addr
  <2>3. pk.to.port = OuterPort(pk.to.of, pk.to.fam) /\ network.place = "apart"
    BY <1>3 DEF Arrives
  <2>4. Admits(pk.from, Src(reply))
    BY <2>2, <2>3 DEF Admits
  <2>5. QED
    BY <1>1, <1>2, <1>3, <2>1, <2>3, <2>4 DEF Arrives
<1>4. CASE pk.to.ip # "ext"
  BY <1>1, <1>2, <1>4 DEF Arrives
<1>5. QED
  BY <1>3, <1>4

-----------------------------------------------------------------------------
\* What no step undoes.

\* Every step keeps the environment, the packets, and any socket there is.
LEMMA EveryStep ==
    ASSUME IInv, [Next]_vars
    PROVE  /\ network' = network /\ key' = key /\ net \subseteq net'
           /\ \A p \in Peers : is_initiator(p)' = is_initiator(p)
           /\ \A p \in Peers :
                  bound[p] # {} => Fixed(p) /\ addresses'[p] = addresses[p]
<1>1. network' = network /\ key' = key /\ net \subseteq net'
  BY DEF Next, vars, from_socket, BindFails, connect, Tick, Receive, env
<1>2. \A p \in Peers : is_initiator(p)' = is_initiator(p)
  BY <1>1 DEF is_initiator
<1>3. ASSUME NEW p \in Peers, bound[p] # {}
      PROVE  Fixed(p) /\ addresses'[p] = addresses[p]
  <2>1. st[p] # "unbound"
    BY <1>3 DEF IInv, NoSocketYet
  <2>2. CASE UNCHANGED sockets
    BY <2>2 DEF sockets, Fixed
  <2>3. ASSUME NEW q \in Peers, NEW fams \in Sockets, NEW ip \in BindIps,
               from_socket(q, fams, ip)
        PROVE  Fixed(p) /\ addresses'[p] = addresses[p]
    BY <2>1, <2>3 DEF from_socket, Fixed, IInv, TypeOK
  <2>4. QED
    BY <2>2, <2>3 DEF Next, vars, sockets, BindFails, connect, Tick, Receive
<1>4. QED
  BY <1>1, <1>2, <1>3

\* A packet that was sent rightly stays so.
LEMMA SentStays ==
    ASSUME IInv, [Next]_vars, NEW pk \in net
    PROVE  /\ pk.to.of = Other(pk.from) /\ SocketFor(pk.from, pk.to)'
           /\ pk.kind \in {"poke", "initiation"} =>
                  pk.to \in addresses'[Other(pk.from)]
<1>1. pk.from \in Peers /\ Other(pk.from) \in Peers
  BY OtherPeer DEF IInv, TypeOK, Packets
<1>2. SocketFor(pk.from, pk.to)'
  BY <1>1, EveryStep DEF IInv, Sent, SocketFor, Fixed, Uses, nat
<1>3. ASSUME pk.kind \in {"poke", "initiation"}
      PROVE  pk.to \in addresses'[Other(pk.from)]
  <2>1. pk.to \in addresses[Other(pk.from)]
    BY <1>3 DEF IInv, Sent
  <2>2. bound[Other(pk.from)] # {}
    BY <1>1, <2>1 DEF IInv, Advertised
  <2>3. QED
    BY <1>1, <2>1, <2>2, EveryStep
<1>4. QED
  BY <1>2, <1>3 DEF IInv, Sent

\* A remote address that routed still does, and a path is still there.
LEMMA RoutesStay ==
    ASSUME IInv, [Next]_vars, NEW p \in Peers
    PROVE  /\ \A a \in remote[p] :
                  /\ a.of = Other(p)
                  /\ Arrives([from |-> p, to |-> a, kind |-> "keepalive"])'
           /\ HasPath(Other(p), p) => HasPath(Other(p), p)'
<1>1. ASSUME NEW a \in remote[p]
      PROVE  /\ a.of = Other(p)
             /\ Arrives([from |-> p, to |-> a, kind |-> "keepalive"])'
  <2> DEFINE pk == [from |-> p, to |-> a, kind |-> "keepalive"]
  <2>1. Arrives(pk) /\ a.of = Other(p)
    BY DEF IInv, RemoteAddrRoutes
  <2>2. bound[a.of] # {}
    BY <2>1 DEF Arrives, SocketFor
  <2>3. Fixed(pk.to.of) /\ UNCHANGED network /\ net \subseteq net'
    BY <2>1, <2>2, EveryStep, OtherPeer
  <2>4. Arrives(pk)'
    BY <2>1, <2>3, ArrivesOn
  <2>5. QED
    BY <2>1, <2>4
<1>2. ASSUME HasPath(Other(p), p) PROVE HasPath(Other(p), p)'
  <2>1. bound[Other(p)] # {} /\ bound[p] # {}
    BY <1>2 DEF HasPath
  <2>2. Fixed(Other(p)) /\ Fixed(p) /\ UNCHANGED network
    BY <2>1, EveryStep, OtherPeer
  <2>3. QED
    BY <1>2, <2>2, PathStays
<1>3. QED
  BY <1>1, <1>2

\* An initiation that arrives at a poking peer came along a path: the pokes
\* are all it has sent, so only pokes can have opened its filter.
LEMMA InitiationPath ==
    ASSUME IInv, NEW pk \in net, Arrives(pk), pk.kind = "initiation",
           st[pk.to.of] = "poking"
    PROVE  HasPath(pk.from, pk.to.of)
<1> DEFINE i == pk.from
           r == pk.to.of
           f == pk.to.fam
<1>1. /\ i \in Peers /\ r \in Peers /\ f \in Families /\ i = Other(r) /\ r = Other(i)
  BY OtherPeer DEF IInv, TypeOK, Packets, SocketAddr, Sent
<1>2. f \in bound[i] \cap bound[r]
  BY DEF IInv, Sent, SocketFor, Arrives
<1>3. Uses(i, f, at[i], pk.to.ip) /\ Uses(r, f, at[r], pk.to.ip)
  BY <1>1 DEF IInv, Sent, SocketFor, Arrives
<1>4. \A p \in Peers : \A a \in addresses[p] :
          /\ a.port # "dest"
          /\ a.ip = "ext" => KnowsOuter(p, a.fam)
  BY DEF IInv, TypeOK, Advertised, Ports
<1>5. ASSUME pk.to.ip = "ext"
      PROVE  LET N == nat(r, f)
                 M == nat(i, f)
             IN  /\ KnowsOuter(r, f) /\ N.map # "perdest"
                 /\ \/ N.filter = "none"
                    \/ KnowsOuter(i, f) /\ (N.filter = "address" \/ M.map # "perdest")
  <2>1. pk.to \in addresses[r]
    BY <1>1 DEF IInv, Sent
  <2>2. KnowsOuter(r, f) /\ nat(r, f).map # "perdest"
    BY <1>1, <1>4, <1>5, <2>1 DEF Arrives, OuterPort
  <2>3. Admits(r, Src(pk))
    BY <1>5 DEF Arrives
  <2>4. Src(pk).fam = f /\ Src(pk).ip = "ext" /\ Src(pk).port = OuterPort(i, f)
    BY <1>5 DEF Src, Addr
  <2>5. nat(r, f).filter \in {"none", "address", "port"}
    BY <1>1, NetworksAssumption DEF IInv, TypeOK, nat, Nats
  <2>6. ASSUME nat(r, f).filter # "none"
        PROVE  KnowsOuter(i, f)
                 /\ (nat(r, f).filter = "port" => nat(i, f).map # "perdest")
    <3>1. PICK poke \in net :
              /\ poke.from = r /\ poke.to.fam = f /\ poke.to.ip = "ext"
              /\ nat(r, f).filter = "port" => poke.to.port = OuterPort(i, f)
      BY <2>3, <2>4, <2>6 DEF Admits
    <3>2. poke.kind = "poke"
      BY <3>1 DEF IInv, PacketsTell, TypeOK, Packets, Kinds
    <3>3. poke.to \in addresses[i]
      BY <1>1, <3>1, <3>2 DEF IInv, Sent
    <3>4. QED
      BY <1>1, <1>4, <3>1, <3>3 DEF OuterPort
  <2>7. QED
    BY <2>2, <2>5, <2>6
<1>6. \/ network.place = "host" /\ pk.to.ip \in {"loop", "lan"}
      \/ network.place = "lan" /\ pk.to.ip = "lan"
      \/ network.place = "apart" /\ pk.to.ip = "ext"
  BY DEF Arrives
<1>7. QED
  BY <1>2, <1>3, <1>5, <1>6 DEF HasPath

-----------------------------------------------------------------------------
\* Each step keeps the invariant.

LEMMA InitInv == Init => IInv
BY OtherPeer DEF Init, IInv, TypeOK, NoSocketYet, Advertised, Sent, PacketsTell,
   Roles, Confirmed, RemoteAddrRoutes, ResponderReached, States, Peers, BindIps

\* Whatever a step leaves as it was needs no more than the lemmas above.
LEMMA BindInv ==
    ASSUME IInv, NEW p \in Peers, NEW fams \in Sockets, NEW ip \in BindIps,
           from_socket(p, fams, ip)
    PROVE  IInv'
<1>1. [Next]_vars
  BY DEF Next
<1>2. TypeOK'
  <2>1. discover_ips(p, fams, ip) \subseteq
            [fam : Families, ip : Ips \ {"any"}, of : Peers, port : Ports \ {"dest"}]
    <3>1. fams \subseteq Families
      BY DEF Sockets
    <3>2. \A x \in discover_ips(p, fams, ip) :
              x \in [fam : fams, ip : Ips \ {"any"}, of : {p}, port : Ports \ {"dest"}]
      BY Discovered
    <3>3. QED
      BY <3>1, <3>2
  <2>2. QED
    BY <2>1 DEF IInv, TypeOK, from_socket, env, States, Sockets
<1>3. NoSocketYet' /\ key'["a"] <= key'["b"]
  BY <1>1, EveryStep DEF IInv, TypeOK, NoSocketYet, from_socket
<1>4. Advertised'
  <2> SUFFICES ASSUME NEW q \in Peers, NEW x \in addresses'[q]
               PROVE  /\ x.of = q /\ x.fam \in bound'[q]
                      /\ x.ip = "ext" => KnowsOuter(q, x.fam)'
    BY DEF Advertised
  <2>1. KnowsOuter(q, x.fam)' = KnowsOuter(q, x.fam)
    BY <1>1, EveryStep DEF KnowsOuter, nat
  <2>2. CASE q = p
    <3>1. x \in discover_ips(p, fams, ip) /\ bound'[q] = fams
      BY <2>2 DEF from_socket, IInv, TypeOK
    <3>2. x.of = p /\ x.fam \in fams /\ (x.ip = "ext" => KnowsOuter(p, x.fam))
      BY <3>1, Discovered
    <3>3. QED
      BY <2>1, <2>2, <3>1, <3>2
  <2>3. CASE q # p
    BY <2>1, <2>3 DEF from_socket, IInv, TypeOK, Advertised
  <2>4. QED
    BY <2>2, <2>3
<1>5. net' = net /\ remote' = remote /\ key' = key
  BY DEF from_socket, env
<1>6. Sent'
  BY <1>1, <1>5, SentStays DEF Sent
<1>7. \A q \in Peers : q # p => st'[q] = st[q]
  BY DEF from_socket, IInv, TypeOK
<1>8. st[p] = "unbound" /\ st'[p] = "bound"
  BY DEF from_socket, IInv, TypeOK
<1>9. PacketsTell'
  <2>1. \A pk \in net : pk.from \in Peers /\ pk.from # p /\ pk.kind \in Kinds
    BY <1>8 DEF IInv, TypeOK, Packets, PacketsTell, Kinds
  <2>2. QED
    BY <1>1, <1>5, <1>7, <2>1, EveryStep DEF PacketsTell, IInv, Kinds
<1>10. Roles'
  BY <1>1, <1>5, <1>7, <1>8, EveryStep DEF Roles, IInv
<1>11. Confirmed'
  BY <1>1, <1>5, <1>7, <1>8, EveryStep DEF Confirmed, IInv, Seen
<1>12. RemoteAddrRoutes'
  BY <1>1, <1>5, RoutesStay DEF RemoteAddrRoutes
<1>13. ResponderReached'
  BY <1>1, <1>7, <1>8, EveryStep, RoutesStay DEF ResponderReached, IInv
<1>14. QED
  BY <1>2, <1>3, <1>4, <1>6, <1>9, <1>10, <1>11, <1>12, <1>13 DEF IInv

\* The other steps leave the sockets alone.
LEMMA SocketsInv ==
    ASSUME IInv, [Next]_vars, UNCHANGED sockets
    PROVE  Advertised'
BY EveryStep DEF IInv, Advertised, sockets, KnowsOuter, nat

LEMMA ConnectInv ==
    ASSUME IInv, NEW p \in Peers, BindFails(p) \/ connect(p)
    PROVE  IInv'
<1>1. [Next]_vars
  BY DEF Next
<1>2. /\ net' = net /\ remote' = remote /\ UNCHANGED sockets
      /\ st[p] \in {"unbound", "bound"}
      /\ st'[p] \in {"failed", IF is_initiator(p) THEN "initiating" ELSE "poking"}
      /\ \A q \in Peers : q # p => st'[q] = st[q]
  BY DEF BindFails, connect, IInv, TypeOK
<1>3. TypeOK' /\ key'["a"] <= key'["b"]
  BY DEF IInv, TypeOK, BindFails, connect, env, sockets, States
<1>4. NoSocketYet' /\ Advertised'
  BY <1>1, <1>2, SocketsInv DEF IInv, NoSocketYet, sockets
<1>5. Sent'
  BY <1>1, <1>2, SentStays DEF Sent
<1>6. PacketsTell'
  <2>1. \A pk \in net : pk.from \in Peers /\ pk.from # p /\ pk.kind \in Kinds
    BY <1>2 DEF IInv, TypeOK, Packets, PacketsTell, Kinds
  <2>2. QED
    BY <1>1, <1>2, <2>1, EveryStep DEF PacketsTell, IInv, Kinds
<1>7. Roles' /\ Confirmed'
  BY <1>1, <1>2, EveryStep DEF Roles, Confirmed, IInv, Seen
<1>8. RemoteAddrRoutes'
  BY <1>1, <1>2, RoutesStay DEF RemoteAddrRoutes
<1>9. ResponderReached'
  BY <1>1, <1>2, EveryStep, RoutesStay DEF ResponderReached, IInv
<1>10. QED
  BY <1>3, <1>4, <1>5, <1>6, <1>7, <1>8, <1>9 DEF IInv

\* A tick of a send loop: its packets go to addresses of the other peer.
LEMMA TickSends ==
    ASSUME IInv, NEW p \in Peers, Tick(p), NEW pk \in net', pk \notin net
    PROVE  /\ pk \in Packets /\ pk.from = p /\ SocketFor(p, pk.to)
           /\ pk.to.of = Other(p)
           /\ \/ /\ st[p] = "poking" /\ pk.kind = "poke"
                 /\ pk.to \in addresses[Other(p)]
              \/ /\ st[p] = "initiating" /\ pk.kind = "initiation"
                 /\ pk.to \in addresses[Other(p)]
              \/ st[p] = "responding" /\ pk.kind = "response"
              \/ st[p] = "established" /\ pk.kind = "keepalive"
<1>1. Other(p) \in Peers
  BY OtherPeer
<1>2. \A x \in addresses[Other(p)] : x \in SocketAddr /\ x.of = Other(p)
  BY <1>1 DEF IInv, TypeOK, Advertised, SocketAddr
<1>3. \A x \in remote[p] : x \in SocketAddr /\ x.of = Other(p)
  BY DEF IInv, TypeOK, RemoteAddrRoutes
<1>4. CASE st[p] \in {"poking", "initiating"}
  BY <1>2, <1>4 DEF Tick, Outgoing, PokeAddresses, Packets, Kinds
<1>5. CASE st[p] \in {"responding", "established"}
  BY <1>3, <1>5 DEF Tick, Outgoing, Packets, Kinds
<1>6. CASE st[p] \notin {"poking", "initiating", "responding", "established"}
  BY <1>6 DEF Tick
<1>7. QED
  BY <1>4, <1>5, <1>6

LEMMA TickInv ==
    ASSUME IInv, NEW p \in Peers, Tick(p)
    PROVE  IInv'
<1>1. [Next]_vars
  BY DEF Next
<1>2. st' = st /\ remote' = remote /\ UNCHANGED sockets /\ UNCHANGED env
  BY DEF Tick
<1>3. \A pk \in net' \ net :
          /\ pk \in Packets /\ pk.from = p /\ SocketFor(p, pk.to)
          /\ pk.to.of = Other(p)
          /\ \/ /\ st[p] = "poking" /\ pk.kind = "poke"
                /\ pk.to \in addresses[Other(p)]
             \/ /\ st[p] = "initiating" /\ pk.kind = "initiation"
                /\ pk.to \in addresses[Other(p)]
             \/ st[p] = "responding" /\ pk.kind = "response"
             \/ st[p] = "established" /\ pk.kind = "keepalive"
  BY TickSends
<1>4. TypeOK' /\ key'["a"] <= key'["b"]
  BY <1>2, <1>3 DEF IInv, TypeOK, env, sockets
<1>5. NoSocketYet' /\ Advertised'
  BY <1>1, <1>2, SocketsInv DEF IInv, NoSocketYet, sockets
<1>6. Sent'
  <2> SUFFICES ASSUME NEW pk \in net'
               PROVE  /\ pk.to.of = Other(pk.from) /\ SocketFor(pk.from, pk.to)'
                      /\ pk.kind \in {"poke", "initiation"} =>
                             pk.to \in addresses'[Other(pk.from)]
    BY DEF Sent
  <2>1. CASE pk \in net
    BY <1>1, <2>1, SentStays
  <2>2. CASE pk \notin net
    BY <1>2, <1>3, <2>2 DEF SocketFor, Uses, nat, env, sockets
  <2>3. QED
    BY <2>1, <2>2
<1>7. PacketsTell'
  <2>1. ASSUME NEW pk \in net', pk \notin net
        PROVE  \/ /\ pk.kind = "poke" /\ st'[pk.from] = "poking"
               \/ /\ pk.kind = "initiation" /\ is_initiator(pk.from)'
                  /\ st'[pk.from] = "initiating"
               \/ /\ pk.kind = "response" /\ ~is_initiator(pk.from)'
                  /\ st'[pk.from] = "responding"
               \/ pk.kind = "keepalive" /\ st'[pk.from] = "established"
    BY <1>1, <1>2, <1>3, <2>1, EveryStep DEF IInv, Roles
  <2>2. \A pk \in net : is_initiator(pk.from)' = is_initiator(pk.from)
    BY <1>1, EveryStep DEF IInv, TypeOK, Packets
  <2>3. QED
    BY <1>2, <2>1, <2>2 DEF PacketsTell, IInv
<1>8. Roles'
  BY <1>1, <1>2, EveryStep DEF Roles, IInv
<1>9. Confirmed'
  BY <1>1, <1>2, EveryStep DEF Confirmed, IInv, Seen
<1>10. RemoteAddrRoutes'
  BY <1>1, <1>2, RoutesStay DEF RemoteAddrRoutes
<1>11. ResponderReached'
  BY <1>1, <1>2, EveryStep, RoutesStay DEF ResponderReached, IInv
<1>12. QED
  BY <1>4, <1>5, <1>6, <1>7, <1>8, <1>9, <1>10, <1>11 DEF IInv

\* What a packet that is taken says of the two peers: the three moves of the
\* handshake.
LEMMA Taken ==
    ASSUME IInv, NEW p \in Peers, NEW pk \in net, pk.to.of = p,
           TakeHandshake(p, pk) \/ TakeKeepalive(p, pk)
    PROVE  /\ pk.from = Other(p)
           /\ key[p] # key[Other(p)]
           /\ \A q \in Peers : q # p => st'[q] = st[q] /\ remote'[q] = remote[q]
           /\ \/ /\ pk.kind = "initiation" /\ st[p] = "poking"
                 /\ st'[p] = "responding" /\ remote'[p] = {Src(pk)}
                 /\ ~is_initiator(p) /\ is_initiator(Other(p))
              \/ /\ pk.kind = "response" /\ st[p] = "initiating"
                 /\ st'[p] = "established" /\ remote'[p] = {Src(pk)}
                 /\ is_initiator(p)
              \/ /\ pk.kind = "keepalive" /\ st[p] = "responding"
                 /\ st'[p] = "established" /\ remote'[p] = remote[p]
                 /\ ~is_initiator(p)
<1>1. pk.from \in Peers /\ pk.from = Other(p)
  BY OtherPeer DEF IInv, TypeOK, Packets, Sent
<1>2. st \in [Peers -> States] /\ remote \in [Peers -> SUBSET SocketAddr]
      /\ key \in [Peers -> Keys]
  BY DEF IInv, TypeOK
<1>3. Other(p) \in Peers /\ Other(Other(p)) = p
  BY OtherPeer
<1>4. CASE pk.kind = "initiation" /\ TakeHandshake(p, pk)
  <2>1. is_initiator(Other(p))
    BY <1>1, <1>4 DEF IInv, PacketsTell
  <2>2. key[p] # key[Other(p)]
    BY <1>2, <1>3, <2>1 DEF is_initiator, Keys
  <2>3. QED
    BY <1>1, <1>2, <1>4, <2>1, <2>2
    DEF TakeHandshake, working_remote_addr, IInv, Roles
<1>5. CASE pk.kind = "response" /\ TakeHandshake(p, pk)
  <2>1. is_initiator(p)
    BY <1>5 DEF TakeHandshake, IInv, Roles
  <2>2. key[p] # key[Other(p)]
    BY <1>2, <1>3, <2>1 DEF is_initiator, Keys
  <2>3. QED
    BY <1>1, <1>2, <1>5, <2>1, <2>2 DEF TakeHandshake, working_remote_addr
<1>6. CASE TakeKeepalive(p, pk)
  BY <1>1, <1>2, <1>6 DEF TakeKeepalive, IInv, Roles
<1>7. QED
  BY <1>4, <1>5, <1>6 DEF TakeHandshake

LEMMA ReceiveInv ==
    ASSUME IInv, NEW p \in Peers, Receive(p)
    PROVE  IInv'
<1>1. [Next]_vars
  BY DEF Next
<1>2. net' = net /\ UNCHANGED env /\ UNCHANGED sockets
  BY DEF Receive
<1>3. PICK pk \in net : /\ pk.to.of = p /\ Arrives(pk)
                        /\ TakeHandshake(p, pk) \/ TakeKeepalive(p, pk)
  BY DEF Receive
<1>4. Arrives([from |-> p, to |-> Src(pk), kind |-> "keepalive"])
  BY <1>3, WayBack DEF IInv, Sent
<1>5. Src(pk) \in SocketAddr /\ Src(pk).of = pk.from
  <2>1. OuterPort(pk.from, pk.to.fam) \in Ports
    BY NetworksAssumption DEF IInv, TypeOK, Packets, SocketAddr, OuterPort, nat,
       Nats, Ports
  <2>2. QED
    BY <2>1 DEF IInv, TypeOK, Packets, SocketAddr, Src, Addr, Ports
<1>6. TypeOK' /\ key'["a"] <= key'["b"]
  BY <1>2, <1>3, <1>5
  DEF IInv, TypeOK, TakeHandshake, TakeKeepalive, working_remote_addr, env,
      sockets, States
<1>7. NoSocketYet'
  BY <1>2, <1>3, Taken DEF IInv, NoSocketYet, sockets
<1>8. Advertised'
  BY <1>1, <1>2, SocketsInv
<1>9. Sent'
  BY <1>1, <1>2, SentStays DEF Sent
<1>10. PacketsTell'
  <2>1. \A m \in net : m.from \in Peers /\ m.kind \in Kinds
    BY DEF IInv, TypeOK, Packets
  <2>2. st[p] = "poking" => st'[p] = "responding"
    BY <1>3, Taken
  <2>3. st[p] \in {"initiating", "responding"} => st'[p] = "established"
    BY <1>3, Taken
  <2>4. st[p] \in {"poking", "initiating", "responding"}
    BY <1>3, Taken
  <2>5. \A q \in Peers : q # p => st'[q] = st[q]
    BY <1>3, Taken
  <2>6. \A m \in net : is_initiator(m.from)' = is_initiator(m.from)
    BY <1>1, <2>1, EveryStep
  <2>7. ASSUME NEW m \in net
        PROVE  /\ m.kind = "poke" =>
                      st'[m.from] \in {"poking", "responding", "established"}
               /\ m.kind = "initiation" => is_initiator(m.from)'
                      /\ st'[m.from] \in {"initiating", "established"}
               /\ m.kind = "response" => ~is_initiator(m.from)'
                      /\ st'[m.from] \in {"responding", "established"}
               /\ m.kind = "keepalive" => st'[m.from] = "established"
    <3>1. /\ m.kind = "poke" =>
                 st[m.from] \in {"poking", "responding", "established"}
          /\ m.kind = "initiation" =>
                 is_initiator(m.from) /\ st[m.from] \in {"initiating", "established"}
          /\ m.kind = "response" =>
                 ~is_initiator(m.from) /\ st[m.from] \in {"responding", "established"}
          /\ m.kind = "keepalive" => st[m.from] = "established"
      BY DEF PacketsTell, IInv
    <3>2. CASE m.from = p
      BY <2>2, <2>3, <2>4, <2>6, <3>1, <3>2
    <3>3. CASE m.from # p
      BY <2>1, <2>5, <2>6, <3>1, <3>3
    <3>4. QED
      BY <3>2, <3>3
  <2>8. QED
    BY <1>2, <2>1, <2>7 DEF PacketsTell, Kinds
<1>11. Roles'
  BY <1>1, <1>2, <1>3, Taken, EveryStep DEF Roles, IInv, env
<1>12. Confirmed'
  BY <1>1, <1>2, <1>3, Taken, EveryStep DEF Confirmed, IInv, Seen
<1>13. RemoteAddrRoutes'
  <2> SUFFICES ASSUME NEW q \in Peers, NEW a \in remote'[q]
               PROVE  /\ a.of = Other(q)
                      /\ Arrives([from |-> q, to |-> a, kind |-> "keepalive"])'
    BY DEF RemoteAddrRoutes
  <2>1. CASE a \in remote[q]
    BY <1>1, <2>1, RoutesStay
  <2>2. CASE a \notin remote[q]
    <3>1. q = p /\ a = Src(pk)
      BY <1>3, <2>2, Taken
    <3>2. a.of = Other(p)
      BY <1>3, <1>5, <3>1, Taken
    <3>3. Arrives([from |-> p, to |-> a, kind |-> "keepalive"])'
      <4> DEFINE reply == [from |-> p, to |-> a, kind |-> "keepalive"]
      <4>1. Arrives(reply) /\ reply.to.of = Other(p)
        BY <1>4, <3>1, <3>2
      <4>2. Fixed(reply.to.of) /\ UNCHANGED network /\ net \subseteq net'
        BY <1>2 DEF sockets, Fixed, env
      <4>3. QED
        BY <4>1, <4>2, ArrivesOn
    <3>4. QED
      BY <3>1, <3>2, <3>3
  <2>3. QED
    BY <2>1, <2>2
<1>14. ResponderReached'
  <2> SUFFICES ASSUME NEW q \in Peers, st'[q] \in {"responding", "established"},
                      ~is_initiator(q)'
               PROVE  HasPath(Other(q), q)'
    BY DEF ResponderReached
  <2>1. ~is_initiator(q)
    BY <1>1, EveryStep
  <2>2. HasPath(Other(q), q)
    <3>1. CASE st[q] \in {"responding", "established"}
      BY <2>1, <3>1 DEF IInv, ResponderReached
    <3>2. CASE st[q] \notin {"responding", "established"}
      BY <1>3, <2>1, <3>2, Taken, InitiationPath
    <3>3. QED
      BY <3>1, <3>2
  <2>3. QED
    BY <1>1, <2>2, RoutesStay
<1>15. QED
  BY <1>6, <1>7, <1>8, <1>9, <1>10, <1>11, <1>12, <1>13, <1>14 DEF IInv

LEMMA NextInv == IInv /\ [Next]_vars => IInv'
<1> SUFFICES ASSUME IInv, [Next]_vars PROVE IInv'
  OBVIOUS
<1>1. CASE UNCHANGED vars
  <2>1. TypeOK' /\ key'["a"] <= key'["b"] /\ NoSocketYet'
    BY <1>1 DEF vars, IInv, TypeOK, NoSocketYet
  <2>2. Advertised' /\ Sent'
    BY <1>1, SocketsInv, SentStays DEF vars, sockets, Sent
  <2>3. PacketsTell' /\ Roles' /\ Confirmed'
    BY <1>1 DEF vars, IInv, PacketsTell, Roles, Confirmed, Seen, is_initiator
  <2>4. RemoteAddrRoutes'
    BY <1>1, RoutesStay DEF vars, RemoteAddrRoutes
  <2>5. ResponderReached'
    BY <1>1, EveryStep, RoutesStay DEF vars, IInv, ResponderReached
  <2>q. QED
    BY <2>1, <2>2, <2>3, <2>4, <2>5 DEF IInv
<1>2. QED
  BY <1>1, BindInv, ConnectInv, TickInv, ReceiveInv DEF Next

\* IInv holds throughout.
THEOREM InductiveInvariant == Spec => []IInv
BY InitInv, NextInv, PTL DEF Spec

-----------------------------------------------------------------------------
\* The properties of the runs.

\* The variables keep their types in every environment.
THEOREM TypeCorrect == Spec => []TypeOK
<1>1. IInv => TypeOK
  BY DEF IInv
<1>2. QED
  BY <1>1, InductiveInvariant, PTL

\* Whatever NATs and firewalls lie between the peers, the source of the packet
\* a pending session takes leads back to its sender.
THEOREM RemoteAddrRoutesCorrect == Spec => []RemoteAddrRoutes
<1>1. IInv => RemoteAddrRoutes
  BY DEF IInv
<1>2. QED
  BY <1>1, InductiveInvariant, PTL

\* In every environment, a session comes only of a path from the peer with
\* the smaller key to the other.
THEOREM SessionNeedsPathCorrect == Spec => []SessionNeedsPath
<1>1. IInv => SessionNeedsPath
  <2> SUFFICES ASSUME IInv, NEW i \in Peers, NEW r \in Peers, i # r,
                      st[i] = "established", st[r] = "established"
               PROVE  key[i] # key[r] /\ (key[i] < key[r] => HasPath(i, r))
    BY DEF SessionNeedsPath
  <2>1. i = Other(r) /\ r = Other(i)
    BY OtherPeer DEF Peers
  <2>2. key[i] \in 1..2 /\ key[r] \in 1..2
    BY DEF IInv, TypeOK, Keys
  <2>3. key[i] # key[r]
    BY <2>1 DEF IInv, Roles
  <2>4. key[i] < key[r] => ~is_initiator(r)
    BY <2>1, <2>2 DEF is_initiator
  <2>5. QED
    BY <2>1, <2>3, <2>4 DEF IInv, ResponderReached
<1>2. QED
  BY <1>1, InductiveInvariant, PTL

-----------------------------------------------------------------------------
\* The refinement of Handshake.

\* The roles with the keys in order: b never initiates; a responds to nobody,
\* and is established only as the initiator.
LEMMA OrderedRoles ==
    ASSUME IInv
    PROVE  /\ ~is_initiator("b") /\ st["b"] # "initiating"
           /\ st["a"] # "responding"
           /\ st["a"] = "established" => is_initiator("a")
<1>1. "a" \in Peers /\ "b" \in Peers /\ key["a"] \in 1..2 /\ key["b"] \in 1..2
  BY DEF IInv, TypeOK, Peers, Keys
<1>2. is_initiator("a") <=> key["a"] < key["b"]
  BY OtherPeer DEF is_initiator
<1>3. is_initiator("b") <=> key["b"] < key["a"]
  BY OtherPeer DEF is_initiator
<1>4. key["a"] <= key["b"]
  BY DEF IInv
<1>5. ~is_initiator("b") /\ (key["a"] # key["b"] => is_initiator("a"))
  BY <1>1, <1>2, <1>3, <1>4
<1>6. QED
  BY <1>1, <1>5, OtherPeer DEF IInv, Roles

\* What has been sent tells where the peers are, and the other way round: a
\* handshake packet is only taken while its loop still runs.
LEMMA OrderedPackets ==
    ASSUME IInv
    PROVE  /\ Seen("initiation", "a") => st["a"] \in {"initiating", "established"}
           /\ Seen("response", "b") => st["b"] \in {"responding", "established"}
           /\ Seen("keepalive", "a") => st["a"] = "established"
           /\ st["a"] = "established" => st["b"] \in {"responding", "established"}
           /\ st["b"] = "established" => st["a"] = "established"
<1>1. /\ Seen("initiation", "a") => st["a"] \in {"initiating", "established"}
      /\ Seen("response", "b") => st["b"] \in {"responding", "established"}
      /\ Seen("keepalive", "a") => st["a"] = "established"
  BY DEF IInv, PacketsTell, Seen
<1>2. st["a"] = "established" => Seen("response", "b")
  BY OrderedRoles, OtherPeer DEF IInv, Confirmed, Peers
<1>3. st["b"] = "established" => Seen("keepalive", "a")
  BY OrderedRoles, OtherPeer DEF IInv, Confirmed, Peers
<1>4. QED
  BY <1>1, <1>2, <1>3

\* bind, and connect() on either side.
LEMMA ConnectImplements ==
    ASSUME IInv, NEW p \in Peers,
           \/ \E fams \in Sockets, ip \in BindIps : from_socket(p, fams, ip)
           \/ BindFails(p) \/ connect(p)
    PROVE  [HS!Next]_HS!vars
<1>1. net' = net /\ \A q \in Peers : q # p => st'[q] = st[q]
  BY DEF from_socket, BindFails, connect, IInv, TypeOK
<1>2. \A kind, q : Seen(kind, q)' = Seen(kind, q)
  BY <1>1 DEF Seen
<1>3. "a" \in Peers /\ "b" \in Peers /\ (p = "a" \/ p = "b")
  BY DEF Peers
<1>4. CASE ~connect(p)
  <2>1. st[p] = "unbound" /\ st'[p] \in {"bound", "failed"}
    BY <1>4 DEF from_socket, BindFails, IInv, TypeOK
  <2>2. QED
    BY <1>1, <1>2, <1>3, <2>1 DEF HS!vars, I, R
<1>5. CASE connect(p) /\ p = "a"
  <2>1. st["a"] = "bound" /\ st'["a"] \in {"initiating", "poking"}
    BY <1>5 DEF connect, IInv, TypeOK
  <2>2. st'["b"] = st["b"]
    BY <1>1, <1>3, <1>5
  <2>3. CASE st'["a"] = "poking"
    BY <1>2, <2>1, <2>2, <2>3 DEF HS!vars, I, R
  <2>4. CASE st'["a"] = "initiating"
    BY <1>2, <2>1, <2>2, <2>4 DEF HS!Next, HS!IConnect, HS!rvars, I, R
  <2>5. QED
    BY <2>1, <2>3, <2>4
<1>6. CASE connect(p) /\ p = "b"
  <2>1. st["b"] = "bound" /\ st'["b"] = "poking"
    BY <1>6, OrderedRoles DEF connect, IInv, TypeOK
  <2>2. st'["a"] = st["a"]
    BY <1>1, <1>3, <1>6
  <2>3. QED
    BY <1>2, <2>1, <2>2 DEF HS!Next, HS!RConnect, HS!ivars, I, R
<1>7. QED
  BY <1>3, <1>4, <1>5, <1>6

\* A tick sends a packet of Handshake, or a poke or a repetition, which
\* Handshake does not see.
LEMMA TickImplements ==
    ASSUME IInv, NEW p \in Peers, Tick(p)
    PROVE  [HS!Next]_HS!vars
<1>1. st' = st /\ net \subseteq net'
  BY DEF Tick
<1>2. \A kind, q : Seen(kind, q) => Seen(kind, q)'
  BY <1>1 DEF Seen
<1>3. ASSUME NEW kind, NEW q, Seen(kind, q)', ~Seen(kind, q)
      PROVE  /\ p = q
             /\ \/ st[q] = "poking" /\ kind = "poke"
                \/ st[q] = "initiating" /\ kind = "initiation"
                \/ st[q] = "responding" /\ kind = "response"
                \/ st[q] = "established" /\ kind = "keepalive"
  BY <1>3, TickSends DEF Seen
<1> DEFINE ini == [kind |-> "initiation", k |-> 1, j |-> 0]
           res == [kind |-> "response", k |-> 1, j |-> 1]
           kee == [kind |-> "keepalive", k |-> 1, j |-> 1]
           flow == {m \in {ini} : Seen("initiation", "a")}
                       \cup {m \in {res} : Seen("response", "b")}
                       \cup {m \in {kee} : Seen("keepalive", "a")}
<1>4. ini \in HS!Packets /\ res \in HS!Packets /\ kee \in HS!Packets
  BY DEF HS!Packets, HS!Numbers
<1>5. ini # res /\ ini # kee /\ res # kee
  OBVIOUS
<1>6. CASE Seen("initiation", "a")' /\ ~Seen("initiation", "a")
  <2>1. st["a"] = "initiating"
    BY <1>3, <1>6
  <2>2. Seen("response", "b")' = Seen("response", "b")
    BY <1>2, <1>3, <1>6 DEF Seen
  <2>3. Seen("keepalive", "a")' = Seen("keepalive", "a")
    BY <1>2, <1>3, <2>1 DEF Seen
  <2>4. flow' = flow \cup {ini} /\ ini \notin flow
    BY <1>5, <1>6, <2>2, <2>3
  <2>5. ini \in HS!Current
    BY <2>1 DEF HS!Current, HS!Initiation, I
  <2>6. HS!Tick(ini)
    BY <1>1, <2>4, <2>5 DEF HS!Tick, HS!ivars, HS!rvars, I, R
  <2>7. QED
    BY <1>4, <2>6 DEF HS!Next
<1>7. CASE Seen("response", "b")' /\ ~Seen("response", "b")
  <2>1. st["b"] = "responding" /\ p = "b"
    BY <1>3, <1>7
  <2>2. Seen("initiation", "a")' = Seen("initiation", "a")
    BY <1>2, <1>3, <2>1 DEF Seen
  <2>3. Seen("keepalive", "a")' = Seen("keepalive", "a")
    BY <1>2, <1>3, <2>1 DEF Seen
  <2>4. flow' = flow \cup {res} /\ res \notin flow
    BY <1>5, <1>7, <2>2, <2>3
  <2>5. res \in HS!Current
    BY <2>1 DEF HS!Current, HS!Response, R
  <2>6. HS!Tick(res)
    BY <1>1, <2>4, <2>5 DEF HS!Tick, HS!ivars, HS!rvars, I, R
  <2>7. QED
    BY <1>4, <2>6 DEF HS!Next
<1>8. CASE Seen("keepalive", "a")' /\ ~Seen("keepalive", "a")
  <2>1. st["a"] = "established" /\ p = "a"
    BY <1>3, <1>8
  <2>2. Seen("initiation", "a")' = Seen("initiation", "a")
    BY <1>2, <1>3, <2>1 DEF Seen
  <2>3. Seen("response", "b")' = Seen("response", "b")
    BY <1>2, <1>3, <2>1 DEF Seen
  <2>4. flow' = flow \cup {kee} /\ kee \notin flow
    BY <1>5, <1>8, <2>2, <2>3
  <2>5. kee \in HS!Current
    BY <2>1 DEF HS!Current, HS!Keepalive, I
  <2>6. HS!Tick(kee)
    BY <1>1, <2>4, <2>5 DEF HS!Tick, HS!ivars, HS!rvars, I, R
  <2>7. QED
    BY <1>4, <2>6 DEF HS!Next
<1>9. CASE /\ Seen("initiation", "a")' = Seen("initiation", "a")
           /\ Seen("response", "b")' = Seen("response", "b")
           /\ Seen("keepalive", "a")' = Seen("keepalive", "a")
  BY <1>1, <1>9 DEF HS!vars, I, R
<1>10. QED
  BY <1>2, <1>6, <1>7, <1>8, <1>9 DEF Seen

\* A packet that is taken is one its loop is still sending, so nothing stale
\* is taken with one connect() on each side.
LEMMA ReceiveImplements ==
    ASSUME IInv, NEW p \in Peers, Receive(p)
    PROVE  [HS!Next]_HS!vars
<1>1. PICK pk \in net : /\ pk.to.of = p
                        /\ TakeHandshake(p, pk) \/ TakeKeepalive(p, pk)
  BY DEF Receive
<1>2. net' = net
  BY DEF Receive
<1>3. \A kind, q : Seen(kind, q)' = Seen(kind, q)
  BY <1>2 DEF Seen
<1>4. Seen(pk.kind, Other(p))
  BY <1>1, Taken DEF Seen
<1> DEFINE ini == [kind |-> "initiation", k |-> 1, j |-> 0]
           res == [kind |-> "response", k |-> 1, j |-> 1]
           kee == [kind |-> "keepalive", k |-> 1, j |-> 1]
<1>5. ini \in HS!Packets /\ res \in HS!Packets /\ kee \in HS!Packets
  BY DEF HS!Packets, HS!Numbers
<1>6. CASE p = "a"
  <2>1. /\ pk.kind = "response" /\ st["a"] = "initiating"
        /\ st'["a"] = "established" /\ st'["b"] = st["b"]
    BY <1>1, <1>6, Taken, OrderedRoles, OtherPeer DEF Peers
  <2>2. Seen("response", "b")
    BY <1>4, <1>6, <2>1, OtherPeer
  <2>3. st["b"] = "responding"
    BY <2>1, <2>2, OrderedPackets
  <2>4. HS!GetResponse(res)
    BY <1>3, <2>1, <2>3 DEF HS!GetResponse, HS!receive_response, HS!rvars, I, R
  <2>5. HS!DeliverCurrent(res)
    BY <2>2, <2>3, <2>4 DEF HS!DeliverCurrent, HS!Get, HS!Current, HS!Response, R
  <2>6. QED
    BY <1>5, <2>5 DEF HS!Next
<1>7. CASE p = "b" /\ pk.kind = "initiation"
  <2>1. st["b"] = "poking" /\ st'["b"] = "responding" /\ st'["a"] = st["a"]
    BY <1>1, <1>7, Taken DEF Peers
  <2>2. Seen("initiation", "a")
    BY <1>4, <1>7, OtherPeer
  <2>3. st["a"] = "initiating"
    BY <2>1, <2>2, OrderedPackets
  <2>4. HS!GetInitiation(ini)
    BY <1>3, <2>1, <2>3 DEF HS!GetInitiation, HS!ivars, I, R
  <2>5. HS!DeliverCurrent(ini)
    BY <2>2, <2>3, <2>4 DEF HS!DeliverCurrent, HS!Get, HS!Current, HS!Initiation, I
  <2>6. QED
    BY <1>5, <2>5 DEF HS!Next
<1>8. CASE p = "b" /\ pk.kind = "keepalive"
  <2>1. st["b"] = "responding" /\ st'["b"] = "established" /\ st'["a"] = st["a"]
    BY <1>1, <1>8, Taken DEF Peers
  <2>2. Seen("keepalive", "a")
    BY <1>4, <1>8, OtherPeer
  <2>3. st["a"] = "established"
    BY <2>2, OrderedPackets
  <2>4. HS!GetKeepalive(kee)
    BY <1>3, <2>1, <2>3 DEF HS!GetKeepalive, HS!Keepalive, HS!ivars, I, R
  <2>5. HS!DeliverCurrent(kee)
    BY <2>2, <2>3, <2>4 DEF HS!DeliverCurrent, HS!Get, HS!Current, HS!Keepalive, I
  <2>6. QED
    BY <1>5, <2>5 DEF HS!Next
<1>9. QED
  BY <1>1, <1>6, <1>7, <1>8, Taken, OrderedRoles DEF Peers

\* In every environment, over any number of addresses and families and however
\* the copies of a packet arrive, one connect() on each side is a handshake of
\* Handshake in which no stale packet is taken.
THEOREM TraversalImplementsHandshake == Spec => ImplementsHandshake
<1>1. Init => HS!Init
  BY DEF Init, HS!Init, Seen, I, R, Peers
<1>2. IInv /\ [Next]_vars => [HS!Next]_HS!vars
  <2> SUFFICES ASSUME IInv, [Next]_vars PROVE [HS!Next]_HS!vars
    OBVIOUS
  <2>1. CASE UNCHANGED vars
    BY <2>1 DEF vars, HS!vars, Seen
  <2>2. QED
    BY <2>1, ConnectImplements, TickImplements, ReceiveImplements DEF Next
<1>3. QED
  BY <1>1, <1>2, InductiveInvariant, PTL DEF Spec, ImplementsHandshake, HS!SafetySpec
=============================================================================
