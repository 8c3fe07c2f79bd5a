------------------------ MODULE LossyTransport_proof ------------------------
(***************************************************************************)
(* Proofs about LossyTransport, for every window size, every bound on the  *)
(* nonces, every set of plaintexts and every set of stray packets.         *)
(*                                                                         *)
(* The inductive invariant says that the reader rejects every nonce it has *)
(* delivered.  It is kept because the window, once it rejects a nonce,     *)
(* rejects it for ever (lemma AdmitKeepsRejecting), which in turn rests on *)
(* what popping the smallest nonces leaves behind (the Newest lemmas).     *)
(***************************************************************************)
EXTENDS LossyTransport, FiniteSetTheorems, WellFoundedInduction, TLAPS

\* A nonempty set of nonces has a least element (BTreeSet::first).
LEMMA LeastNonce ==
    ASSUME NEW S \in SUBSET Nat, S # {}
    PROVE  \E x \in S : \A y \in S : x <= y
<1>1. \E x \in S : \A y \in S : ~(<<y, x>> \in OpToRel(<, Nat))
  BY WFMin, NatLessThanWellFounded
<1>2. PICK x \in S : \A y \in S : ~(y < x)
  BY <1>1, Zenon DEF OpToRel
<1>3. QED
  BY <1>2

\* A nonempty set of nonces has a greatest element: nonces are bounded.
LEMMA GreatestNonce ==
    ASSUME NEW S \in SUBSET Nonces, S # {}
    PROVE  \E x \in S : \A y \in S : y <= x
<1> DEFINE D == {MaxNonce - n : n \in S}
<1>1. D \in SUBSET Nat /\ D # {}
  <2>1. \A n \in S : MaxNonce - n \in Nat
    BY MaxNonceAssumption DEF Nonces
  <2>2. QED
    BY <2>1
<1>2. PICK d \in D : \A y \in D : d <= y
  BY <1>1, LeastNonce
<1>3. PICK x \in S : d = MaxNonce - x
  BY <1>2
<1>4. ASSUME NEW y \in S PROVE y <= x
  <2>1. d <= MaxNonce - y
    BY <1>2
  <2>2. QED
    BY <2>1, <1>3, MaxNonceAssumption DEF Nonces
<1>5. QED
  BY <1>4

\* Any set of nonces, and any part of it, is finite.
LEMMA NoncesFinite ==
    ASSUME NEW S \in SUBSET Nonces
    PROVE  IsFiniteSet(S) /\ Cardinality(S) \in Nat
<1>1. S \in SUBSET Nat /\ \A s \in S : s <= MaxNonce
  BY MaxNonceAssumption DEF Nonces
<1>2. IsFiniteSet(S)
  BY <1>1, FS_BoundedSetOfNaturals, MaxNonceAssumption
<1>3. QED
  BY <1>2, FS_CardinalityType

\* What pop_first removes is below everything it leaves.
LEMMA NewestKeepsTop ==
    ASSUME NEW S \in SUBSET Nonces, NEW n \in S, n \notin Newest(S),
           NEW k \in Newest(S)
    PROVE  n < k
<1> DEFINE Above(x) == {m \in S : m > x}
<1>1. k \in S /\ Cardinality(Above(k)) < Size /\ ~(Cardinality(Above(n)) < Size)
  BY DEF Newest
<1>2. S \subseteq Nat
  BY MaxNonceAssumption DEF Nonces
<1>3. SUFFICES ASSUME k <= n PROVE FALSE
  BY <1>1, <1>2
<1>4. Above(n) \in SUBSET Above(k)
  <2> SUFFICES ASSUME NEW m \in S, m > n PROVE m > k
    OBVIOUS
  <2>1. m \in Nat /\ n \in Nat /\ k \in Nat
    BY <1>1, <1>2
  <2>2. QED
    BY <2>1, <1>3
<1>5. IsFiniteSet(Above(k))
  BY NoncesFinite
<1>6. Cardinality(Above(n)) <= Cardinality(Above(k))
  BY <1>4, <1>5, FS_Subset
<1>7. Cardinality(Above(n)) \in Nat /\ Cardinality(Above(k)) \in Nat
  BY NoncesFinite
<1> HIDE DEF Above
<1>8. QED
  BY <1>1, <1>6, <1>7, SizeAssumption

\* The greatest nonce always stays, since size is at least 1.
LEMMA NewestNonempty ==
    ASSUME NEW S \in SUBSET Nonces, S # {}
    PROVE  Newest(S) # {} /\ Newest(S) \subseteq S
<1>1. PICK x \in S : \A y \in S : y <= x
  BY GreatestNonce
<1>2. {m \in S : m > x} = {}
  <2>1. \A y \in S : ~(y > x)
    BY <1>1, MaxNonceAssumption DEF Nonces
  <2>2. QED
    BY <2>1
<1>3. Cardinality({m \in S : m > x}) = 0
  BY <1>2, FS_EmptySet
<1>4. x \in Newest(S)
  BY <1>3, SizeAssumption DEF Newest
<1>5. QED
  BY <1>4 DEF Newest

\* The while loop of read_message leaves at most size nonces.
LEMMA NewestBounded ==
    ASSUME NEW S \in SUBSET Nonces
    PROVE  Cardinality(Newest(S)) <= Size
<1>1. CASE Newest(S) = {}
  BY <1>1, FS_EmptySet, SizeAssumption
<1>2. CASE Newest(S) # {}
  <2> DEFINE Above(x) == {m \in S : m > x}
  <2>1. Newest(S) \in SUBSET Nat /\ Newest(S) \subseteq S
    <3>1. Newest(S) \subseteq S
      BY DEF Newest
    <3>2. S \subseteq Nat
      BY MaxNonceAssumption DEF Nonces
    <3>3. QED
      BY <3>1, <3>2
  <2>2. PICK x \in Newest(S) : \A y \in Newest(S) : x <= y
    BY <2>1, <1>2, LeastNonce
  <2>3. Cardinality(Above(x)) < Size
    BY <2>2 DEF Newest
  <2>4. Newest(S) \in SUBSET (Above(x) \cup {x})
    <3> SUFFICES ASSUME NEW y \in Newest(S), y # x PROVE y \in S /\ y > x
      OBVIOUS
    <3>1. y \in Nat /\ x \in Nat /\ x <= y
      BY <2>1, <2>2
    <3>2. QED
      BY <3>1, <2>1
  <2>5. IsFiniteSet(Above(x)) /\ Cardinality(Above(x)) \in Nat /\ x \notin Above(x)
    <3>1. Above(x) \in SUBSET Nonces
      OBVIOUS
    <3>2. QED
      BY <3>1, <2>1, NoncesFinite
  <2> HIDE DEF Above
  <2>6. /\ IsFiniteSet(Above(x) \cup {x})
        /\ Cardinality(Above(x) \cup {x}) = Cardinality(Above(x)) + 1
    BY <2>5, FS_AddElement
  <2>7. Cardinality(Newest(S)) <= Cardinality(Above(x) \cup {x})
    BY <2>4, <2>6, FS_Subset
  <2>8. Cardinality(Newest(S)) \in Nat
    BY <2>1, NoncesFinite
  <2>9. QED
    BY <2>3, <2>5, <2>6, <2>7, <2>8, SizeAssumption
<1>3. QED
  BY <1>1, <1>2

-----------------------------------------------------------------------------
\* Admitting a nonce never reopens the window: what was rejected before is
\* rejected after, and so is the nonce just admitted.
LEMMA AdmitKeepsRejecting ==
    ASSUME received_nonces \in SUBSET Nonces, NEW n \in Nonces, Admit(n),
           NEW k \in Nonces, k = n \/ Rejects(k)
    PROVE  Rejects(k)'
<1> DEFINE S == received_nonces \cup {n}
<1>1. S \in SUBSET Nonces /\ S # {} /\ received_nonces' = Newest(S)
  BY DEF Admit
<1>2. Newest(S) # {} /\ Newest(S) \subseteq S
  BY <1>1, NewestNonempty
<1>3. CASE k \in S
  <2>1. k \in Newest(S) \/ \A f \in Newest(S) : k < f
    BY <1>1, <1>3, NewestKeepsTop
  <2>2. QED
    BY <2>1, <1>1, <1>2, MaxNonceAssumption DEF Rejects, Nonces
<1>4. CASE k \notin S
  <2>1. received_nonces # {} /\ \A f \in received_nonces : f > k
    BY <1>4 DEF Rejects
  <2>2. PICK f \in received_nonces : ~(f > n)
    BY <2>1 DEF Admit, Rejects
  <2>3. \A g \in S : g > k
    BY <2>1, <2>2, MaxNonceAssumption DEF Nonces
  <2>4. QED
    BY <2>3, <1>1, <1>2 DEF Rejects
<1>5. QED
  BY <1>3, <1>4

-----------------------------------------------------------------------------
\* Every variable of the transport keeps its type.
THEOREM TypeCorrect == Spec => []TypeOK
<1>1. Init => TypeOK
  BY MaxNonceAssumption DEF Init, TypeOK, Nonces, Packets
<1>2. TypeOK /\ [Next]_vars => TypeOK'
  <2> SUFFICES ASSUME TypeOK, [Next]_vars PROVE TypeOK'
    OBVIOUS
  <2> USE DEF TypeOK
  <2>stutter. CASE UNCHANGED vars
    BY <2>stutter DEF vars
  <2>write. ASSUME NEW d \in Data, write_message(d) PROVE TypeOK'
    BY <2>write, MaxNonceAssumption DEF write_message, Nonces, Packets
  <2>spend. CASE write_message_fails
    BY <2>spend, MaxNonceAssumption DEF write_message_fails, Nonces
  <2>read. ASSUME NEW p \in wire, read_message(p) PROVE TypeOK'
    BY <2>read DEF read_message, Admit, Newest, Packets
  <2>stray. ASSUME NEW n \in StrayNonces, read_message_fails(n) PROVE TypeOK'
    BY <2>stray, StrayAssumption DEF read_message_fails, Admit, Newest, Nonces
  <2> QED
    BY <2>stutter, <2>write, <2>spend, <2>read, <2>stray DEF Next
<1>3. QED
  BY <1>1, <1>2, PTL DEF Spec

\* A nonce the reader rejects is rejected for ever.
THEOREM RejectedForeverCorrect == Spec => RejectedForever
<1>1. TypeOK /\ [Next]_vars => [\A n \in Nonces : Rejects(n) => Rejects(n)']_vars
  <2> SUFFICES ASSUME TypeOK, Next, NEW k \in Nonces, Rejects(k)
               PROVE  Rejects(k)'
    OBVIOUS
  <2> USE DEF TypeOK
  <2>1. CASE UNCHANGED received_nonces
    BY <2>1 DEF Rejects
  <2>2. ASSUME NEW p \in wire, read_message(p) PROVE Rejects(k)'
    <3>1. p.nonce \in Nonces /\ Admit(p.nonce)
      BY <2>2 DEF read_message, Packets
    <3>2. QED
      BY <3>1, AdmitKeepsRejecting
  <2>3. ASSUME NEW n \in StrayNonces, read_message_fails(n) PROVE Rejects(k)'
    <3>1. n \in Nonces /\ Admit(n)
      BY <2>3, StrayAssumption DEF read_message_fails, Nonces
    <3>2. QED
      BY <3>1, AdmitKeepsRejecting
  <2>4. QED
    BY <2>1, <2>2, <2>3 DEF Next, write_message, write_message_fails
<1>2. QED
  BY <1>1, TypeCorrect, PTL DEF Spec, RejectedForever

-----------------------------------------------------------------------------
\* The inductive invariant.
NonceSpent == \A p \in wire : p.nonce < next_nonce
OneDataPerNonce == \A p, q \in wire : p.nonce = q.nonce => p = q
DeliveredRejected ==
    \A i \in DOMAIN delivered :
        delivered[i] \in wire /\ Rejects(delivered[i].nonce)

\* What WithinWindow says of a window of 1.
InOrder ==
    Size = 1 => \A i, j \in DOMAIN delivered :
                    i < j => delivered[i].nonce < delivered[j].nonce

IInv ==
    /\ TypeOK
    /\ WindowBounded
    /\ NonceSpent
    /\ OneDataPerNonce
    /\ DeliveredRejected
    /\ NoReplay
    /\ InOrder
    /\ WithinWindow

\* What a delivery appends is new to the reader, and newer than all that was
\* delivered when the window has size 1.
LEMMA DeliveryIsFresh ==
    ASSUME IInv, NEW p \in wire, read_message(p), NEW i \in DOMAIN delivered
    PROVE  /\ delivered[i].nonce # p.nonce
           /\ Size = 1 => delivered[i].nonce < p.nonce
<1> DEFINE d == delivered[i].nonce
           n == p.nonce
<1>1. d \in Nonces /\ n \in Nonces /\ Rejects(d) /\ ~Rejects(n)
  BY DEF IInv, TypeOK, DeliveredRejected, read_message, Admit, Packets
<1>2. ASSUME Size = 1 PROVE d < n
  <2>1. received_nonces # {}
    BY <1>1 DEF Rejects
  <2>2. /\ IsFiniteSet(received_nonces) /\ Cardinality(received_nonces) \in Nat
        /\ Cardinality(received_nonces) <= 1
    BY <1>2, NoncesFinite DEF IInv, TypeOK, WindowBounded
  <2>3. Cardinality(received_nonces) = 1
    BY <2>1, <2>2, FS_EmptySet
  <2>4. PICK w : received_nonces = {w}
    BY <2>2, <2>3, FS_Singleton
  <2>5. w \in Nonces
    BY <2>4 DEF IInv, TypeOK
  <2>6. d = w \/ w > d
    BY <1>1, <2>4 DEF Rejects
  <2>7. n # w /\ ~(w > n)
    BY <1>1, <2>4 DEF Rejects
  <2>8. QED
    BY <1>1, <2>5, <2>6, <2>7, MaxNonceAssumption DEF Nonces
<1>3. QED
  BY <1>1, <1>2

\* Delivered nonces above one that is acceptable are all in the window, which
\* also has one that is not above it.
LEMMA FewOvertake ==
    ASSUME IInv, NEW n \in Nonces, ~Rejects(n)
    PROVE  LET T == {k \in Nonces : k > n /\ \E i \in DOMAIN delivered :
                                                delivered[i].nonce = k}
           IN  IsFiniteSet(T) /\ Cardinality(T) \in Nat /\ Cardinality(T) < Size
<1> DEFINE T == {k \in Nonces : k > n /\ \E i \in DOMAIN delivered :
                                            delivered[i].nonce = k}
<1>1. T \in SUBSET received_nonces
  <2> SUFFICES ASSUME NEW k \in T PROVE k \in received_nonces
    OBVIOUS
  <2>1. Rejects(k) /\ k > n /\ k \in Nat /\ n \in Nat
    BY MaxNonceAssumption DEF IInv, DeliveredRejected, Nonces
  <2>2. received_nonces \subseteq Nat
    BY MaxNonceAssumption DEF IInv, TypeOK, Nonces
  <2>3. QED
    BY <2>1, <2>2 DEF Rejects
<1>2. /\ IsFiniteSet(received_nonces) /\ Cardinality(received_nonces) \in Nat
      /\ Cardinality(received_nonces) <= Size
  BY NoncesFinite DEF IInv, TypeOK, WindowBounded
<1>3. /\ IsFiniteSet(T) /\ Cardinality(T) <= Cardinality(received_nonces)
      /\ Cardinality(received_nonces) = Cardinality(T) => received_nonces = T
  <2> HIDE DEF T
  <2>1. QED
    BY <1>1, <1>2, FS_Subset
<1>4. Cardinality(T) \in Nat
  BY <1>3, FS_CardinalityType
<1>5. CASE received_nonces = {}
  BY <1>2, <1>3, <1>4, <1>5, FS_EmptySet, SizeAssumption
<1>6. CASE received_nonces # {}
  <2>1. PICK f \in received_nonces : ~(f > n)
    BY <1>6 DEF Rejects
  <2>2. f \notin T
    BY <2>1
  <2>3. Cardinality(received_nonces) # Cardinality(T)
    BY <1>3, <2>1, <2>2
  <2>4. QED
    BY <1>2, <1>3, <1>4, <2>3, SizeAssumption
<1>7. QED
  BY <1>3, <1>4, <1>5, <1>6

\* The inductive invariant holds initially and no step breaks it.
THEOREM InductiveInvariant == Spec => []IInv
<1>1. Init => IInv
  <2> SUFFICES ASSUME Init PROVE IInv
    OBVIOUS
  <2>1. TypeOK
    BY MaxNonceAssumption DEF Init, TypeOK, Nonces, Packets
  <2>2. WindowBounded
    BY FS_EmptySet, SizeAssumption DEF Init, WindowBounded
  <2>3. QED
    BY <2>1, <2>2 DEF Init, IInv, NonceSpent, OneDataPerNonce,
       DeliveredRejected, NoReplay, InOrder, WithinWindow, Overtakers
<1>2. IInv /\ TypeOK' /\ [Next]_vars => IInv'
  <2> SUFFICES ASSUME IInv, TypeOK', [Next]_vars PROVE IInv'
    OBVIOUS
  <2> USE DEF IInv
  <2>write. ASSUME NEW d \in Data, write_message(d) PROVE IInv'
    <3>1. next_nonce \in Nat /\ next_nonce' = next_nonce + 1
      BY <2>write, MaxNonceAssumption DEF write_message, TypeOK, Nonces
    <3>2. \A p \in wire : p.nonce \in Nat
      BY MaxNonceAssumption DEF TypeOK, Packets, Nonces
    <3>3. NonceSpent'
      BY <2>write, <3>1, <3>2 DEF write_message, NonceSpent
    <3>4. OneDataPerNonce'
      BY <2>write, <3>1, <3>2 DEF write_message, NonceSpent, OneDataPerNonce
    <3>5. QED
      BY <2>write, <3>3, <3>4 DEF write_message, WindowBounded,
         DeliveredRejected, Rejects, NoReplay, InOrder, WithinWindow,
         Overtakers
  <2>spend. CASE write_message_fails
    <3>1. next_nonce \in Nat /\ next_nonce' = next_nonce + 1
      BY <2>spend, MaxNonceAssumption DEF write_message_fails, TypeOK, Nonces
    <3>2. \A p \in wire : p.nonce \in Nat
      BY MaxNonceAssumption DEF TypeOK, Packets, Nonces
    <3>3. NonceSpent'
      BY <2>spend, <3>1, <3>2 DEF write_message_fails, NonceSpent
    <3>4. QED
      BY <2>spend, <3>3 DEF write_message_fails, WindowBounded,
         OneDataPerNonce, DeliveredRejected, Rejects, NoReplay, InOrder, WithinWindow,
         Overtakers
  <2>read. ASSUME NEW p \in wire, read_message(p) PROVE IInv'
    <3>1. /\ delivered \in Seq(Packets) /\ p \in Packets
          /\ p.nonce \in Nonces /\ Admit(p.nonce)
          /\ delivered' = Append(delivered, p) /\ wire' = wire
      BY <2>read DEF read_message, TypeOK, Packets
    <3>2. DOMAIN delivered = 1..Len(delivered) /\ Len(delivered) \in Nat
      BY <3>1
    <3>3. /\ DOMAIN delivered' = 1..(Len(delivered) + 1)
          /\ \A i \in 1..Len(delivered) : delivered'[i] = delivered[i]
          /\ delivered'[Len(delivered) + 1] = p
      BY <3>1, <3>2
    <3>4. WindowBounded'
      <4>1. received_nonces \cup {p.nonce} \in SUBSET Nonces
        BY <3>1 DEF TypeOK
      <4>2. QED
        BY <4>1, <3>1, NewestBounded DEF Admit, WindowBounded
    <3>5. DeliveredRejected'
      <4> DEFINE Out(k) == \/ k \in received_nonces'
                           \/ /\ received_nonces' # {}
                              /\ \A f \in received_nonces' : f > k
      <4>1. \A k \in Nonces : (k = p.nonce \/ Rejects(k)) => Out(k)
        <5>1. \A k \in Nonces : (k = p.nonce \/ Rejects(k)) => Rejects(k)'
          BY <3>1, AdmitKeepsRejecting DEF TypeOK
        <5>2. QED
          BY <5>1 DEF Rejects
      <4>2. \A i \in 1..Len(delivered) :
                /\ delivered[i] \in wire
                /\ delivered[i].nonce \in Nonces
                /\ Rejects(delivered[i].nonce)
        BY <3>2 DEF DeliveredRejected, TypeOK, Packets
      <4>3. \A i \in 1..Len(delivered) : Out(delivered'[i].nonce)
        BY <4>1, <4>2, <3>3
      <4>4. Out(delivered'[Len(delivered) + 1].nonce)
        BY <4>1, <3>1, <3>3
      <4>5. \A i \in DOMAIN delivered' : Out(delivered'[i].nonce)
        <5> HIDE DEF Out
        <5>1. QED
          BY <4>3, <4>4, <3>2, <3>3
      <4>6. \A i \in DOMAIN delivered' : delivered'[i] \in wire'
        BY <4>2, <3>1, <3>2, <3>3
      <4>7. QED
        BY <4>5, <4>6 DEF DeliveredRejected, Rejects
    <3>6. NoReplay'
      <4>1. \A i \in 1..Len(delivered) : delivered[i].nonce # p.nonce
        BY <2>read, <3>2, DeliveryIsFresh
      <4>2. QED
        BY <4>1, <3>2, <3>3 DEF NoReplay
    <3>7. InOrder'
      <4>1. Size = 1 => \A i \in 1..Len(delivered) : delivered[i].nonce < p.nonce
        BY <2>read, <3>2, DeliveryIsFresh
      <4>2. QED
        BY <4>1, <3>2, <3>3 DEF InOrder
    <3>8. NonceSpent' /\ OneDataPerNonce'
      BY <2>read DEF read_message, NonceSpent, OneDataPerNonce
    <3>9. WithinWindow'
      <4> DEFINE last == Len(delivered) + 1
                 T == {k \in Nonces : k > p.nonce /\ \E i \in DOMAIN delivered :
                                                       delivered[i].nonce = k}
                 U(j) == {delivered'[i].nonce :
                            i \in {k \in DOMAIN delivered' :
                                     k < j /\ delivered'[k].nonce > delivered'[j].nonce}}
      <4>1. \A j \in 1..Len(delivered) : U(j) = Overtakers(j)
        BY <3>2, <3>3 DEF Overtakers
      <4>2. U(last) \in SUBSET T
        <5>1. \A i \in 1..Len(delivered) : delivered[i].nonce \in Nonces
          <6>1. \A i \in 1..Len(delivered) : delivered[i] \in Packets
            BY <3>1, <3>2
          <6>2. QED
            BY <6>1 DEF Packets
        <5>2. QED
          BY <3>2, <3>3, <5>1
      <4>3. IsFiniteSet(T) /\ Cardinality(T) \in Nat /\ Cardinality(T) < Size
        BY <3>1, FewOvertake DEF Admit
      <4>4. WithinWindow' <=> \A j \in DOMAIN delivered' : Cardinality(U(j)) < Size
        BY DEF WithinWindow, Overtakers
      <4> HIDE DEF T, U
      <4>5. IsFiniteSet(U(last)) /\ Cardinality(U(last)) <= Cardinality(T)
        BY <4>2, <4>3, FS_Subset
      <4>6. Cardinality(U(last)) < Size
        <5>1. Cardinality(U(last)) \in Nat
          BY <4>5, FS_CardinalityType
        <5>2. QED
          BY <4>3, <4>5, <5>1, SizeAssumption
      <4>7. \A j \in 1..Len(delivered) : Cardinality(U(j)) < Size
        BY <4>1, <3>2 DEF WithinWindow
      <4>8. QED
        BY <4>4, <4>6, <4>7, <3>2, <3>3
    <3>10. QED
      BY <3>4, <3>5, <3>6, <3>7, <3>8, <3>9
  <2>stray. ASSUME NEW n \in StrayNonces, read_message_fails(n) PROVE IInv'
    <3>1. n \in Nonces /\ Admit(n)
      BY <2>stray, StrayAssumption DEF read_message_fails, Nonces
    <3>2. delivered' = delivered /\ wire' = wire /\ next_nonce' = next_nonce
      BY <2>stray DEF read_message_fails
    <3>3. WindowBounded'
      <4>1. received_nonces \cup {n} \in SUBSET Nonces
        BY <3>1 DEF TypeOK
      <4>2. QED
        BY <4>1, <3>1, NewestBounded DEF Admit, WindowBounded
    <3>4. DeliveredRejected'
      <4> SUFFICES ASSUME NEW i \in DOMAIN delivered
                   PROVE  delivered[i] \in wire /\ Rejects(delivered[i].nonce)'
        BY <3>2 DEF DeliveredRejected
      <4>1. delivered[i] \in wire /\ Rejects(delivered[i].nonce)
        BY DEF DeliveredRejected
      <4>2. delivered[i].nonce \in Nonces
        BY <4>1 DEF TypeOK, Packets
      <4>3. \A k \in Nonces : Rejects(k) => Rejects(k)'
        BY <3>1, AdmitKeepsRejecting DEF TypeOK
      <4>4. QED
        BY <3>2, <4>1, <4>2, <4>3 DEF Rejects
    <3>5. QED
      BY <3>2, <3>3, <3>4 DEF NonceSpent, OneDataPerNonce, NoReplay, InOrder,
         WithinWindow, Overtakers
  <2>stutter. CASE UNCHANGED vars
    BY <2>stutter DEF vars, WindowBounded, NonceSpent, OneDataPerNonce,
       DeliveredRejected, Rejects, NoReplay, InOrder, WithinWindow,
         Overtakers
  <2> QED
    BY <2>write, <2>spend, <2>read, <2>stray, <2>stutter DEF Next
<1>3. QED
  BY <1>1, <1>2, TypeCorrect, PTL DEF Spec

\* No message is delivered twice, whatever the network does.
THEOREM NoReplayCorrect == Spec => []NoReplay
<1>1. IInv => NoReplay
  BY DEF IInv
<1>2. QED
  BY <1>1, InductiveInvariant, PTL

\* A message comes out only while fewer than Size newer ones have.
THEOREM WithinWindowCorrect == Spec => []WithinWindow
<1>1. IInv => WithinWindow
  BY DEF IInv
<1>2. QED
  BY <1>1, InductiveInvariant, PTL

\* With the window of from_stateless, messages come out in writing order.
THEOREM InOrderCorrect == Spec => []InOrder
<1>1. IInv => InOrder
  BY DEF IInv
<1>2. QED
  BY <1>1, InductiveInvariant, PTL

\* The window never outgrows its size.
THEOREM WindowBoundedCorrect == Spec => []WindowBounded
<1>1. IInv => WindowBounded
  BY DEF IInv
<1>2. QED
  BY <1>1, InductiveInvariant, PTL

-----------------------------------------------------------------------------
\* LossyTransport implements LossyChannel: an at-most-once channel for every
\* window size, and an ordered one for size 1.
THEOREM TransportImplementsChannel == Spec => ImplementsChannel
<1>1. Init => Channel!Init
  BY DEF Init, Channel!Init
<1>2. IInv /\ [Next]_vars => [Channel!Next]_Channel!vars
  <2> SUFFICES ASSUME IInv, [Next]_vars PROVE [Channel!Next]_Channel!vars
    OBVIOUS
  <2>1. ASSUME NEW d \in Data, write_message(d) PROVE Channel!Next
    <3> DEFINE m == [nonce |-> next_nonce, data |-> d]
    <3>1. m \in Channel!Messages
      BY DEF IInv, TypeOK, Channel!Messages
    <3>2. Channel!Send(m)
      BY <2>1 DEF IInv, NonceSpent, write_message, Channel!Send
    <3>3. QED
      BY <3>1, <3>2 DEF Channel!Next
  <2>2. ASSUME NEW p \in wire, read_message(p) PROVE Channel!Next
    <3>1. p \in Channel!Messages
      BY DEF IInv, TypeOK, Packets, Channel!Messages
    <3>2. \A i \in DOMAIN delivered : /\ delivered[i].nonce # p.nonce
                                      /\ Size = 1 => delivered[i].nonce < p.nonce
      BY <2>2, DeliveryIsFresh
    <3>3. Channel!Deliver(p)
      BY <2>2, <3>2 DEF read_message, Channel!Deliver
    <3>4. QED
      BY <3>1, <3>3 DEF Channel!Next
  <2>3. CASE UNCHANGED <<wire, delivered>>
    BY <2>3 DEF Channel!vars
  <2>4. QED
    BY <2>1, <2>2, <2>3 DEF Next, vars, write_message_fails, read_message_fails
<1>3. QED
  BY <1>1, <1>2, InductiveInvariant, PTL DEF Spec, ImplementsChannel, Channel!Spec
=============================================================================
