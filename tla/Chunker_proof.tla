---------------------------- MODULE Chunker_proof ----------------------------
(***************************************************************************)
(* Proofs about Chunker, for any number of messages and chunks, any number *)
(* of receiving tasks, any size of the map and any number of dropped       *)
(* calls, over a delegate that loses chunks or one that does not.          *)
(*                                                                         *)
(* Types and the size of the map hold whoever sends.  The rest needs one   *)
(* sender at a time (OneSender), and is built up in this order:            *)
(*   WInv   what is on the wire: messages and groups count up together;    *)
(*   RInv   each chunk is in one place at most, so a group is complete     *)
(*          when it has all chunks of its message, and comes out once;     *)
(*   OInv   one receiver completes messages in the order of the wire;      *)
(*   DInv   each message that can no longer come out stands for a dropped  *)
(*          call, so with room in the map no group that is still wanted is *)
(*          evicted: it would be one group too many.                       *)
(***************************************************************************)
EXTENDS Chunker, FiniteSetTheorems, SequenceTheorems, WellFoundedInduction, TLAPS

-----------------------------------------------------------------------------
\* Types: with any number of senders.

Chunks == {c \in [group : 0..MaxSends, index : Nat, group_length : Lengths,
                  data : Msgs] : c.index < c.group_length}
Data == Seq(Msgs \cup {NoMsg})

\* A ChunkGroup, with a place for each of its chunks.
GroupTyped(h) ==
    /\ h = [chunks |-> h.chunks, size |-> h.size, group_length |-> h.group_length]
    /\ h.size \in Nat /\ h.group_length \in Lengths
    /\ h.chunks \in [0..(h.group_length - 1) -> Msgs \cup {NoMsg}]

SendersTyped ==
    /\ current_group \in Nat /\ holder \subseteq Senders
    /\ spc \in [Senders -> {"idle", "read", "send"}]
    /\ msg \in [Senders -> Msgs \cup {NoMsg}]
    /\ group \in [Senders -> 0..MaxSends] /\ next \in [Senders -> Nat]
    /\ length \in Seq(Lengths) /\ wire \in Seq(Chunks)

ReceiversTyped ==
    /\ pos \in 0..Len(wire)
    /\ DOMAIN chunk_groups \subseteq 0..MaxSends
    /\ \A g \in DOMAIN chunk_groups : GroupTyped(chunk_groups[g])
    /\ rpc \in [Receivers -> {"idle", "wait", "add", "remove", "push", "clean",
                              "panicked"}]
    /\ chunk \in [Receivers -> Chunks \cup {NoChunk}]
    /\ \A r \in Receivers : rpc[r] = "add" => chunk[r] \in Chunks
    /\ received \in Seq(Data) /\ completed_chunks \in Seq(Data)
    /\ ready \in [Receivers -> Data]

\* Each group number read is below the number of messages so far, so the
\* counter does not overtake them.
Counted ==
    /\ Len(length) <= MaxSends /\ current_group <= Len(length)
    /\ \A s \in Senders :
           spc[s] # "idle" => /\ group[s] < Len(length) /\ msg[s] \in 1..Len(length)
                              /\ next[s] <= length[msg[s]]

TInv ==
    /\ lossy \in BOOLEAN /\ clones \in Receivers /\ drops \in 0..MaxDrops
    /\ SendersTyped /\ ReceiversTyped /\ Counted

-----------------------------------------------------------------------------
\* One sender: what is on the wire.

\* The chunks of a message are consecutive, and groups and messages both
\* count up.
WireOrdered ==
    \A i, j \in 1..Len(wire) :
        i < j => \/ wire[i].group < wire[j].group /\ wire[i].data < wire[j].data
                 \/ /\ wire[i].group = wire[j].group /\ wire[i].data = wire[j].data
                    /\ wire[i].index < wire[j].index

WireLengths ==
    \A i \in 1..Len(wire) :
        /\ wire[i].data \in 1..Len(length) /\ wire[i].group < current_group
        /\ wire[i].group_length = length[wire[i].data]

\* The sender is at the end of it, with the newest message.
AtTheEnd ==
    \A s \in Senders : spc[s] # "idle" =>
        /\ msg[s] = Len(length)
        /\ current_group = IF spc[s] = "read" THEN group[s] ELSE group[s] + 1
        /\ \A i \in 1..Len(wire) :
               \/ wire[i].group < group[s] /\ wire[i].data < msg[s]
               \/ /\ spc[s] = "send" /\ wire[i].group = group[s]
                  /\ wire[i].data = msg[s] /\ wire[i].index < next[s]

WInv == WireOrdered /\ WireLengths /\ AtTheEnd

-----------------------------------------------------------------------------
\* One sender, any number of receivers: each chunk is in one place at most.

Passed(c) == \E i \in 1..pos : wire[i] = c

\* A receiver about to add a chunk is the only one that has it, and its place
\* in the map is free. What a receiver has, came over the wire.
HeldOnce ==
    \A r \in Receivers :
        /\ rpc[r] \in {"add", "remove", "push"} => Passed(chunk[r])
        /\ rpc[r] = "add" =>
               /\ \A t \in Receivers : t # r /\ rpc[t] = "add" => chunk[t] # chunk[r]
               /\ chunk[r].group \in DOMAIN chunk_groups =>
                      chunk_groups[chunk[r].group].chunks[chunk[r].index] = NoMsg

\* What is in the map came over the wire, to the place where it is.
Places(h) == 0..(h.group_length - 1)
PlacedRight ==
    \A g \in DOMAIN chunk_groups :
        LET h == chunk_groups[g]
        IN  /\ \E i \in Places(h) : h.chunks[i] # NoMsg
            /\ \A i \in Places(h) : h.chunks[i] # NoMsg =>
                   Passed([group |-> g, index |-> i,
                           group_length |-> h.group_length, data |-> h.chunks[i]])

\* All chunks of message m have passed, and none is still to be added.
Gone(m) ==
    /\ \A k \in 0..(length[m] - 1) :
           \E i \in 1..pos : wire[i].data = m /\ wire[i].index = k
    /\ \A r \in Receivers : rpc[r] = "add" => chunk[r].data # m

\* So it is with a group that is complete, and one receiver takes it out.
TakenOutOnce ==
    \A r \in Receivers : rpc[r] = "remove" =>
        /\ Gone(chunk[r].data)
        /\ \A t \in Receivers :
               t # r /\ rpc[t] = "remove" => chunk[t].data # chunk[r].data

\* A message that is out, or about to be, is whole and has no chunk left.
Out(x) ==
    /\ x # << >> /\ x[1] \in 1..Len(length) /\ x = Whole(x[1]) /\ Gone(x[1])
    /\ \A g \in DOMAIN chunk_groups : \A i \in Places(chunk_groups[g]) :
           chunk_groups[g].chunks[i] # x[1]

Pushing == {r \in Receivers : rpc[r] = "push"}
Results == {Assembled[i] : i \in DOMAIN Assembled} \cup {ready[r] : r \in Pushing}

OutOnce ==
    /\ \A x \in Results : Out(x)
    /\ \A i, j \in DOMAIN Assembled : i # j => Assembled[i][1] # Assembled[j][1]
    /\ \A r \in Pushing :
           /\ ready[r][1] = chunk[r].data
           /\ \A i \in DOMAIN Assembled : Assembled[i][1] # ready[r][1]
           /\ \A t \in Pushing : t # r => ready[t][1] # ready[r][1]

\* A group counts its chunks, and one that a receiver is to take out has all.
SizesRight ==
    /\ \A g \in DOMAIN chunk_groups :
           chunk_groups[g].size =
               Cardinality({i \in Places(chunk_groups[g]) :
                                chunk_groups[g].chunks[i] # NoMsg})
    /\ \A r \in Receivers :
           rpc[r] = "remove" /\ chunk[r].group \in DOMAIN chunk_groups =>
               NoMsg \notin Range(chunk_groups[chunk[r].group].chunks)

RInv == HeldOnce /\ PlacedRight /\ TakenOutOnce /\ OutOnce /\ SizesRight

-----------------------------------------------------------------------------
\* One sender, one receiver: what it is adding is what it read last, so
\* messages complete in the order of the wire.
LastRead == rpc[1] \in {"add", "remove", "push"} => pos > 0 /\ chunk[1] = wire[pos]

OInv == (clones = 1 => LastRead) /\ InOrder

-----------------------------------------------------------------------------
\* One sender, and room: nothing panics, and each message that can no longer
\* come out is one for a dropped call.

InMap(m, k) ==
    \E g \in DOMAIN chunk_groups :
        k \in Places(chunk_groups[g]) /\ chunk_groups[g].chunks[k] = m

\* Chunk k of message m is still on its way to the map.
Coming(m, k) ==
    \/ \E s \in Senders : spc[s] # "idle" /\ msg[s] = m /\ next[s] <= k
    \/ \E i \in (pos + 1)..Len(wire) : wire[i].data = m /\ wire[i].index = k
    \/ \E r \in Receivers :
           rpc[r] = "add" /\ chunk[r].data = m /\ chunk[r].index = k

Alive(m) ==
    \/ \E i \in DOMAIN Assembled : Assembled[i][1] = m
    \/ \E r \in Receivers : rpc[r] \in {"remove", "push"} /\ chunk[r].data = m
    \/ /\ \A k \in 0..(length[m] - 1) : InMap(m, k) \/ Coming(m, k)
       /\ \E k \in 0..(length[m] - 1) : Coming(m, k)

Dead == {m \in 1..Len(length) : length[m] > 0 /\ ~Alive(m)}

\* A group that a receiver is to take out is still there.
NotEvicted ==
    Room => \A r \in Receivers : rpc[r] = "remove" => chunk[r].group \in DOMAIN chunk_groups

LossesCounted == ~lossy /\ Room => Cardinality(Dead) <= drops

\* A receiver that is not there does nothing.
OnlyActive == \A r \in Receivers : r > clones => rpc[r] = "idle"

DInv == OnlyActive /\ NoPanic /\ NotEvicted /\ LossesCounted

-----------------------------------------------------------------------------
\* Operators.

\* Appending to a sequence.
LEMMA AppendGives ==
    ASSUME NEW S, NEW q \in Seq(S), NEW e \in S
    PROVE  /\ Append(q, e) \in Seq(S) /\ Len(Append(q, e)) = Len(q) + 1
           /\ Append(q, e)[Len(q) + 1] = e
           /\ \A i \in 1..Len(q) : Append(q, e)[i] = q[i]
OBVIOUS

\* The chunk goes to its place and is counted; nothing else changes.
LEMMA PlacedGives ==
    ASSUME NEW h, GroupTyped(h), NEW c \in Chunks, c.index < h.group_length
    PROVE  /\ GroupTyped(Placed(h, c))
           /\ Placed(h, c).size = h.size + 1
           /\ Placed(h, c).group_length = h.group_length
           /\ Placed(h, c).chunks = [h.chunks EXCEPT ![c.index] = c.data]
<1>1. c.index \in 0..(h.group_length - 1) /\ c.data \in Msgs
  BY LengthsAssumption DEF Chunks, GroupTyped
<1>2. Placed(h, c) = [chunks |-> [h.chunks EXCEPT ![c.index] = c.data],
                      size |-> h.size + 1, group_length |-> h.group_length]
  <2>1. \A a, b, n :
            Placed([chunks |-> a, size |-> b, group_length |-> n], c)
              = [chunks |-> [a EXCEPT ![c.index] = c.data],
                 size |-> b + 1, group_length |-> n]
    <3> SUFFICES ASSUME NEW a, NEW b, NEW n
                 PROVE  Placed([chunks |-> a, size |-> b, group_length |-> n], c)
                          = [chunks |-> [a EXCEPT ![c.index] = c.data],
                             size |-> b + 1, group_length |-> n]
      OBVIOUS
    <3> DEFINE one == [chunks |-> a, size |-> b, group_length |-> n]
               two == [chunks |-> a, size |-> b + 1, group_length |-> n]
    <3>1. [one EXCEPT !.size = one.size + 1] = two
      OBVIOUS
    <3>2. [two EXCEPT !.chunks = [two.chunks EXCEPT ![c.index] = c.data]]
            = [chunks |-> [a EXCEPT ![c.index] = c.data],
               size |-> b + 1, group_length |-> n]
      OBVIOUS
    <3>3. Placed(one, c)
            = [two EXCEPT !.chunks = [two.chunks EXCEPT ![c.index] = c.data]]
      BY <3>1, Zenon DEF Placed
    <3>4. QED
      BY <3>2, <3>3
  <2>2. h = [chunks |-> h.chunks, size |-> h.size, group_length |-> h.group_length]
    BY DEF GroupTyped
  <2>3. QED
    BY <2>1, <2>2, Zenon
<1>3. QED
  BY <1>1, <1>2 DEF GroupTyped

\* A new group is empty.
LEMMA GroupOfGives ==
    ASSUME ReceiversTyped, NEW c \in Chunks
    PROVE  /\ GroupTyped(GroupOf(c))
           /\ c.group \in DOMAIN chunk_groups => GroupOf(c) = chunk_groups[c.group]
           /\ c.group \notin DOMAIN chunk_groups =>
                  /\ GroupOf(c).group_length = c.group_length
                  /\ GroupOf(c).size = 0
                  /\ GroupOf(c).chunks = [i \in 0..(c.group_length - 1) |-> NoMsg]
<1>1. CASE c.group \in DOMAIN chunk_groups
  BY <1>1 DEF GroupOf, ReceiversTyped
<1>2. CASE c.group \notin DOMAIN chunk_groups
  <2>1. GroupOf(c) = [chunks |-> [i \in 0..(c.group_length - 1) |-> NoMsg],
                      size |-> 0, group_length |-> c.group_length]
    BY <1>2 DEF GroupOf
  <2>2. c.group_length \in Lengths
    BY DEF Chunks
  <2>3. QED
    BY <1>2, <2>1, <2>2 DEF GroupTyped
<1>3. QED
  BY <1>1, <1>2

\* pop_first takes the smallest key, and only of a map with too many.
LEMMA EvictedGives ==
    ASSUME NEW S \in SUBSET Nat, IsFiniteSet(S)
    PROVE  \/ Cardinality(S) <= MaxGroups /\ Evicted(S) = {}
           \/ /\ Cardinality(S) > MaxGroups
              /\ \E g \in S : Evicted(S) = {g} /\ \A h \in S : g <= h
<1>1. CASE Cardinality(S) > MaxGroups
  <2>1. S # {}
    BY <1>1, FS_EmptySet, BoundsAssumption
  <2>2. \E g \in S : \A h \in S : g <= h
    <3>1. \E g \in S : \A h \in S : ~(<<h, g>> \in OpToRel(<, Nat))
      BY <2>1, WFMin, NatLessThanWellFounded
    <3>2. PICK g \in S : \A h \in S : ~(h < g)
      BY <3>1, Zenon DEF OpToRel
    <3>3. QED
      BY <3>2
  <2>3. QED
    BY <1>1, <2>2 DEF Evicted
<1>2. CASE ~(Cardinality(S) > MaxGroups)
  <2>1. Cardinality(S) \in Nat /\ MaxGroups \in Nat
    BY FS_CardinalityType, BoundsAssumption
  <2>2. QED
    BY <1>2, <2>1 DEF Evicted
<1>3. QED
  BY <1>1, <1>2

-----------------------------------------------------------------------------
\* Types, with any number of senders.

LEMMA InitTyped == Init => TInv
BY BoundsAssumption
DEF Init, TInv, SendersTyped, ReceiversTyped, Counted, Data, Receivers, Chunks

\* Steps of the receivers leave the senders alone, and the other way round.
LEMMA SendersAlone ==
    ASSUME SendersTyped, Counted, UNCHANGED svars PROVE SendersTyped' /\ Counted'
BY DEF SendersTyped, Counted, svars

LEMMA ReceiversAlone ==
    ASSUME ReceiversTyped, UNCHANGED rvars, wire \in Seq(Chunks),
           wire' = wire \/ \E c \in Chunks : wire' = Append(wire, c)
    PROVE  ReceiversTyped'
<1>1. pos' \in 0..Len(wire')
  BY AppendGives DEF ReceiversTyped, rvars
<1>2. QED
  BY <1>1 DEF ReceiversTyped, rvars, GroupTyped

LEMMA SendingTyped ==
    ASSUME TInv, NEW s \in Senders, Sending(s) \/ SendDropped(s)
    PROVE  SendersTyped' /\ ReceiversTyped' /\ Counted'
<1>1. /\ length \in Seq(Lengths) /\ Len(length) \in Nat /\ MaxSends \in Nat
      /\ \A m \in 1..Len(length) : length[m] \in Nat /\ length[m] \in Lengths
  <2>1. length \in Seq(Lengths)
    BY DEF TInv, SendersTyped
  <2>2. Len(length) \in Nat /\ \A m \in 1..Len(length) : length[m] \in Lengths
    BY <2>1
  <2>3. QED
    BY <2>1, <2>2, LengthsAssumption, BoundsAssumption
<1>2. CASE ReadGroup(s)
  <2>1. PICK n \in Lengths : length' = Append(length, n)
    BY <1>2 DEF ReadGroup
  <2>2. /\ length' \in Seq(Lengths) /\ Len(length') = Len(length) + 1
        /\ \A m \in 1..Len(length) : length'[m] = length[m]
        /\ length'[Len(length) + 1] \in Nat
    BY <1>1, <2>1, AppendGives, LengthsAssumption
  <2>3. Len(length) + 1 \in Msgs
    BY <1>1, <1>2 DEF ReadGroup, Msgs
  <2>4. SendersTyped'
    BY <1>1, <1>2, <2>2, <2>3 DEF ReadGroup, TInv, SendersTyped, Counted
  <2>5. Counted'
    <3>1. \A t \in Senders : t # s => /\ spc'[t] = spc[t] /\ group'[t] = group[t]
                                      /\ msg'[t] = msg[t] /\ next'[t] = next[t]
      BY <1>2 DEF ReadGroup, TInv, SendersTyped
    <3>2. /\ spc'[s] = "read" /\ group'[s] = current_group
          /\ msg'[s] = Len(length) + 1 /\ next'[s] = 0
      BY <1>2 DEF ReadGroup, TInv, SendersTyped
    <3>3. current_group' = current_group /\ Len(length) < MaxSends
      BY <1>2 DEF ReadGroup
    <3>4. Len(length') <= MaxSends /\ current_group' <= Len(length')
      BY <1>1, <2>2, <3>3 DEF TInv, SendersTyped, Counted
    <3>5. ASSUME NEW t \in Senders, spc'[t] # "idle"
          PROVE  /\ group'[t] < Len(length') /\ msg'[t] \in 1..Len(length')
                 /\ next'[t] <= length'[msg'[t]]
      <4>1. CASE t = s
        BY <1>1, <2>2, <3>2, <4>1 DEF TInv, SendersTyped, Counted
      <4>2. CASE t # s
        BY <1>1, <2>2, <3>1, <3>5, <4>2 DEF TInv, SendersTyped, Counted
      <4>3. QED
        BY <4>1, <4>2
    <3>6. QED
      BY <3>4, <3>5 DEF Counted
  <2>6. ReceiversTyped'
    BY <1>2, ReceiversAlone DEF ReadGroup, TInv, SendersTyped
  <2>7. QED
    BY <2>4, <2>5, <2>6
<1>3. CASE WriteGroup(s)
  <2>1. SendersTyped' /\ Counted'
    BY <1>1, <1>3 DEF WriteGroup, TInv, SendersTyped, Counted
  <2>2. ReceiversTyped'
    BY <1>3, ReceiversAlone DEF WriteGroup, TInv, SendersTyped
  <2>3. QED
    BY <2>1, <2>2
<1>4. CASE SendChunk(s)
  <2> DEFINE c == [group |-> group[s], index |-> next[s],
                   group_length |-> length[msg[s]], data |-> msg[s]]
  <2>1. c \in Chunks
    BY <1>1, <1>4 DEF SendChunk, TInv, SendersTyped, Counted, Chunks, Msgs
  <2>2. wire' = Append(wire, c) /\ wire \in Seq(Chunks)
    BY <1>4 DEF SendChunk, TInv, SendersTyped
  <2>3. wire' \in Seq(Chunks)
    BY <2>1, <2>2, AppendGives
  <2>4. SendersTyped' /\ Counted'
    BY <1>1, <1>4, <2>3 DEF SendChunk, TInv, SendersTyped, Counted
  <2>5. ReceiversTyped'
    BY <1>4, <2>1, <2>2, ReceiversAlone DEF SendChunk, TInv
  <2>6. QED
    BY <2>4, <2>5
<1>5. CASE SendReturns(s) \/ SendDropped(s)
  <2>1. SendersTyped' /\ Counted'
    BY <1>1, <1>5 DEF SendReturns, SendDropped, TInv, SendersTyped, Counted
  <2>2. ReceiversTyped'
    BY <1>5, ReceiversAlone DEF SendReturns, SendDropped, TInv, SendersTyped
  <2>3. QED
    BY <2>1, <2>2
<1>6. QED
  BY <1>2, <1>3, <1>4, <1>5 DEF Sending

\* What the map is after add_chunk.
LEMMA AddedGives ==
    ASSUME TInv, NEW r \in Receivers, AddChunk(r),
           chunk[r].index < GroupOf(chunk[r]).group_length
    PROVE  LET c == chunk[r]
               h == Placed(GroupOf(c), c)
           IN  /\ c \in Chunks /\ GroupTyped(h)
               /\ DOMAIN chunk_groups' = DOMAIN chunk_groups \cup {c.group}
               /\ chunk_groups'[c.group] = h
               /\ \A g \in DOMAIN chunk_groups : g # c.group =>
                      chunk_groups'[g] = chunk_groups[g]
               /\ rpc'[r] = IF IsComplete(h) THEN "remove" ELSE "clean"
<1>1. chunk[r] \in Chunks
  BY DEF AddChunk, TInv, ReceiversTyped
<1>2. GroupTyped(Placed(GroupOf(chunk[r]), chunk[r]))
  BY <1>1, GroupOfGives, PlacedGives DEF TInv
<1>3. QED
  BY <1>1, <1>2 DEF AddChunk, TInv, ReceiversTyped

LEMMA ReceivingTyped ==
    ASSUME TInv, NEW r \in Receivers, Receiving(r) \/ RecvDropped(r)
    PROVE  SendersTyped' /\ ReceiversTyped' /\ Counted'
<1>1. SendersTyped' /\ Counted'
  BY SendersAlone DEF TInv, Receiving, NextReady, DelegateRecv, DelegateFails,
     AddChunk, RemoveGroup, PushCompleted, CleanUp, RecvDropped
<1>2. wire' = wire
  BY DEF svars, Receiving, NextReady, DelegateRecv, DelegateFails, AddChunk,
     RemoveGroup, PushCompleted, CleanUp, RecvDropped
<1>3. CASE NextReady(r)
  <2>1. completed_chunks # << >> =>
            Head(completed_chunks) \in Data /\ Tail(completed_chunks) \in Seq(Data)
    BY DEF TInv, ReceiversTyped
  <2>2. received' \in Seq(Data) /\ completed_chunks' \in Seq(Data)
    <3>1. received \in Seq(Data) /\ completed_chunks \in Seq(Data)
      BY DEF TInv, ReceiversTyped
    <3>2. CASE completed_chunks # << >>
      <4>1. /\ received' = Append(received, Head(completed_chunks))
            /\ completed_chunks' = Tail(completed_chunks)
        BY <1>3, <3>2 DEF NextReady
      <4>2. QED
        BY <2>1, <3>1, <3>2, <4>1, AppendGives
    <3>3. CASE completed_chunks = << >>
      BY <1>3, <3>1, <3>3 DEF NextReady
    <3>4. QED
      BY <3>2, <3>3
  <2>3. QED
    BY <1>1, <1>2, <1>3, <2>2 DEF NextReady, TInv, ReceiversTyped
<1>4. CASE DelegateRecv(r)
  <2>1. PICK i \in pos + 1 .. Len(wire) :
            chunk' = [chunk EXCEPT ![r] = wire[i]] /\ pos' = i
    BY <1>4 DEF DelegateRecv
  <2>2. wire[i] \in Chunks /\ i \in 0..Len(wire)
    BY DEF TInv, SendersTyped, ReceiversTyped
  <2>3. QED
    BY <1>1, <1>2, <1>4, <2>1, <2>2 DEF DelegateRecv, TInv, ReceiversTyped
<1>5. CASE DelegateFails(r) \/ RecvDropped(r)
  BY <1>1, <1>2, <1>5 DEF DelegateFails, RecvDropped, TInv, ReceiversTyped
<1>6. CASE AddChunk(r)
  <2>1. CASE chunk[r].index < GroupOf(chunk[r]).group_length
    <3>1. /\ chunk[r] \in Chunks
          /\ DOMAIN chunk_groups' = DOMAIN chunk_groups \cup {chunk[r].group}
      BY <1>6, <2>1, AddedGives
    <3>2. DOMAIN chunk_groups' \subseteq 0..MaxSends
      BY <3>1 DEF TInv, ReceiversTyped, Chunks
    <3>3. \A g \in DOMAIN chunk_groups' : GroupTyped(chunk_groups'[g])
      BY <1>6, <2>1, AddedGives DEF TInv, ReceiversTyped
    <3>4. QED
      BY <1>1, <1>2, <1>6, <3>2, <3>3 DEF AddChunk, TInv, ReceiversTyped
  <2>2. CASE ~(chunk[r].index < GroupOf(chunk[r]).group_length)
    BY <1>1, <1>2, <1>6, <2>2 DEF AddChunk, TInv, ReceiversTyped
  <2>3. QED
    BY <2>1, <2>2
<1>7. CASE RemoveGroup(r)
  <2> DEFINE g == chunk[r].group
             x == [i \in 1..chunk_groups[g].group_length |->
                       chunk_groups[g].chunks[i - 1]]
  <2>1. g \in DOMAIN chunk_groups => x \in Data
    <3> SUFFICES ASSUME g \in DOMAIN chunk_groups PROVE x \in Data
      OBVIOUS
    <3>1. /\ chunk_groups[g].group_length \in Nat
          /\ \A i \in 1..chunk_groups[g].group_length :
                 chunk_groups[g].chunks[i - 1] \in Msgs \cup {NoMsg}
      <4>1. GroupTyped(chunk_groups[g])
        BY DEF TInv, ReceiversTyped
      <4>2. chunk_groups[g].group_length \in Nat
        BY <4>1, LengthsAssumption DEF GroupTyped
      <4>3. \A i \in 1..chunk_groups[g].group_length :
                i - 1 \in 0..(chunk_groups[g].group_length - 1)
        BY <4>2
      <4>4. QED
        BY <4>1, <4>2, <4>3 DEF GroupTyped
    <3>2. QED
      BY <3>1 DEF Data
  <2>2. ready' \in [Receivers -> Data]
    BY <1>7, <2>1 DEF RemoveGroup, TInv, ReceiversTyped
  <2>3. /\ DOMAIN chunk_groups' = DOMAIN chunk_groups \ {g}
        /\ \A h \in DOMAIN chunk_groups' : chunk_groups'[h] = chunk_groups[h]
    BY <1>7 DEF RemoveGroup, Restrict
  <2>4. rpc' \in [Receivers -> {"idle", "wait", "add", "remove", "push", "clean",
                                "panicked"}]
        /\ \A t \in Receivers : rpc'[t] = "add" => rpc[t] = "add"
    BY <1>7 DEF RemoveGroup, TInv, ReceiversTyped
  <2>5. QED
    BY <1>1, <1>2, <1>7, <2>2, <2>3, <2>4 DEF RemoveGroup, TInv, ReceiversTyped
<1>8. CASE PushCompleted(r)
  <2>1. completed_chunks' \in Seq(Data)
    BY <1>8, AppendGives DEF PushCompleted, TInv, ReceiversTyped
  <2>2. QED
    BY <1>1, <1>2, <1>8, <2>1 DEF PushCompleted, TInv, ReceiversTyped
<1>9. CASE CleanUp(r)
  <2>1. /\ DOMAIN chunk_groups' \subseteq DOMAIN chunk_groups
        /\ \A h \in DOMAIN chunk_groups' : chunk_groups'[h] = chunk_groups[h]
    BY <1>9 DEF CleanUp, Restrict
  <2>2. QED
    BY <1>1, <1>2, <1>9, <2>1 DEF CleanUp, TInv, ReceiversTyped
<1>10. QED
  BY <1>3, <1>4, <1>5, <1>6, <1>7, <1>8, <1>9 DEF Receiving

LEMMA NextTyped == TInv /\ [Next]_vars => TInv'
<1> SUFFICES ASSUME TInv, [Next]_vars PROVE TInv'
  OBVIOUS
<1>1. CASE UNCHANGED vars
  BY <1>1, SendersAlone, ReceiversAlone DEF TInv, vars, mode, svars, SendersTyped
<1>2. CASE Next
  <2>1. lossy' = lossy /\ clones' = clones
    BY <1>2 DEF Next, mode
  <2>2. Active \subseteq Receivers
    BY BoundsAssumption DEF TInv, Active, Receivers
  <2>3. SendersTyped' /\ ReceiversTyped' /\ Counted'
    BY <1>2, <2>2, SendingTyped, ReceivingTyped DEF Next
  <2>4. drops' \in 0..MaxDrops
    BY <1>2, BoundsAssumption DEF Next, TInv, SendDropped, RecvDropped, Drop
  <2>5. QED
    BY <2>1, <2>3, <2>4 DEF TInv
<1>3. QED
  BY <1>1, <1>2

LEMMA Typed == Spec => []TInv
BY InitTyped, NextTyped, PTL DEF Spec

\* The variables keep their types, however many tasks send and receive.
THEOREM TypeCorrect == Spec => []TypeOK
<1>1. TInv => TypeOK
  <2> SUFFICES ASSUME TInv PROVE TypeOK
    OBVIOUS
  <2>1. current_group \in 0..MaxSends
    BY BoundsAssumption DEF TInv, SendersTyped, Counted
  <2>2. QED
    BY <2>1 DEF TInv, SendersTyped, ReceiversTyped, GroupTyped, TypeOK
<1>2. QED
  BY <1>1, Typed, PTL

-----------------------------------------------------------------------------
\* The size of the map, with any number of senders.

\* The receivers whose clean-up is still to come, or never will.
Inside == {r \in Receivers : rpc[r] \in {"remove", "clean", "panicked"}}

LEMMA FiniteMap ==
    ASSUME TInv
    PROVE  /\ IsFiniteSet(DOMAIN chunk_groups) /\ DOMAIN chunk_groups \subseteq Nat
           /\ Cardinality(DOMAIN chunk_groups) \in Nat
           /\ IsFiniteSet(Inside) /\ Cardinality(Inside) \in Nat
           /\ IsFiniteSet(Receivers) /\ drops \in Nat /\ MaxGroups \in Nat
<1>1. IsFiniteSet(0..MaxSends) /\ IsFiniteSet(Receivers)
  BY FS_Interval, BoundsAssumption DEF Receivers
<1>2. IsFiniteSet(DOMAIN chunk_groups) /\ DOMAIN chunk_groups \subseteq Nat
  <2>1. DOMAIN chunk_groups \in SUBSET (0..MaxSends)
    BY DEF TInv, ReceiversTyped
  <2>2. IsFiniteSet(DOMAIN chunk_groups)
    BY <1>1, <2>1, FS_Subset
  <2>3. QED
    BY <2>1, <2>2
<1>3. IsFiniteSet(Inside)
  BY <1>1, FS_Subset DEF Inside
<1>4. QED
  BY <1>1, <1>2, <1>3, FS_CardinalityType, BoundsAssumption DEF TInv

\* A receiver goes in ...
LEMMA GoesIn ==
    ASSUME TInv, NEW r \in Receivers, NEW v \in {"remove", "clean", "panicked"},
           rpc' = [rpc EXCEPT ![r] = v]
    PROVE  Cardinality(Inside') = IF r \in Inside THEN Cardinality(Inside)
                                                  ELSE Cardinality(Inside) + 1
<1>1. Inside' = Inside \cup {r}
  BY DEF TInv, ReceiversTyped, Inside
<1>2. IsFiniteSet(Inside)
  BY FiniteMap
<1>3. QED
  BY <1>1, <1>2, FS_AddElement

\* ... and comes out.
LEMMA ComesOut ==
    ASSUME TInv, NEW r \in Receivers, NEW v, v \notin {"remove", "clean", "panicked"},
           rpc' = [rpc EXCEPT ![r] = v]
    PROVE  Cardinality(Inside') = IF r \in Inside THEN Cardinality(Inside) - 1
                                                  ELSE Cardinality(Inside)
<1>1. Inside' = Inside \ {r}
  BY DEF TInv, ReceiversTyped, Inside
<1>2. IsFiniteSet(Inside)
  BY FiniteMap
<1>3. QED
  BY <1>1, <1>2, FS_RemoveElement

LEMMA BoundKept ==
    ASSUME TInv, [Next]_vars, GroupsBounded PROVE GroupsBounded'
<1> DEFINE D == DOMAIN chunk_groups
<1>1. Cardinality(D) <= MaxGroups + drops + Cardinality(Inside)
  BY DEF GroupsBounded, Inside
<1>2. SUFFICES Cardinality(D') <= MaxGroups + drops' + Cardinality(Inside')
  BY DEF GroupsBounded, Inside
<1>3. /\ IsFiniteSet(D) /\ D \subseteq Nat /\ Cardinality(D) \in Nat
      /\ Cardinality(Inside) \in Nat /\ drops \in Nat /\ MaxGroups \in Nat
  BY FiniteMap
<1>4. TInv'
  BY NextTyped
<1>5. /\ Cardinality(D') \in Nat /\ Cardinality(Inside') \in Nat /\ drops' \in Nat
  <2>1. drops' \in Nat
    BY <1>4, BoundsAssumption DEF TInv
  <2>2. IsFiniteSet(0..MaxSends) /\ IsFiniteSet(Receivers)
    BY FS_Interval, BoundsAssumption DEF Receivers
  <2>3. D' \subseteq 0..MaxSends
    BY <1>4 DEF TInv, ReceiversTyped
  <2>4. Inside' \subseteq Receivers
    BY DEF Inside
  <2>5. QED
    BY <2>1, <2>2, <2>3, <2>4, FS_Subset, FS_CardinalityType
<1>6. CASE UNCHANGED <<chunk_groups, rpc>> /\ drops' >= drops
  <2>1. D' = D /\ Inside' = Inside
    BY <1>6 DEF Inside
  <2>2. QED
    BY <1>1, <1>3, <1>5, <1>6, <2>1
<1>7. CASE \E s \in Senders : (Sending(s) /\ UNCHANGED drops) \/ SendDropped(s)
  <2>1. UNCHANGED <<chunk_groups, rpc>> /\ drops' >= drops
    BY <1>3, <1>7 DEF Sending, ReadGroup, WriteGroup, SendChunk, SendReturns,
       SendDropped, Drop, rvars
  <2>2. QED
    BY <1>6, <2>1
<1>8. ASSUME NEW r \in Receivers, (Receiving(r) /\ UNCHANGED drops) \/ RecvDropped(r)
      PROVE  Cardinality(D') <= MaxGroups + drops' + Cardinality(Inside')
  <2>1. CASE (NextReady(r) \/ DelegateRecv(r) \/ DelegateFails(r)
                \/ PushCompleted(r)) /\ UNCHANGED drops
    <3>1. D' = D /\ r \notin Inside
      BY <2>1 DEF Inside, NextReady, DelegateRecv, DelegateFails, PushCompleted
    <3>2. rpc' = rpc \/ \E v : rpc' = [rpc EXCEPT ![r] = v]
      BY <2>1 DEF NextReady, DelegateRecv, DelegateFails, PushCompleted
    <3>3. Cardinality(Inside') >= Cardinality(Inside)
      <4>1. CASE rpc' = rpc
        BY <1>3, <4>1 DEF Inside
      <4>2. ASSUME NEW v, rpc' = [rpc EXCEPT ![r] = v]
            PROVE  Cardinality(Inside') >= Cardinality(Inside)
        <5>1. Cardinality(Inside') \in {Cardinality(Inside), Cardinality(Inside) + 1}
          BY <3>1, <4>2, GoesIn, ComesOut
        <5>2. QED
          BY <1>3, <5>1
      <4>3. QED
        BY <3>2, <4>1, <4>2
    <3>4. QED
      BY <1>1, <1>3, <1>5, <2>1, <3>1, <3>3
  <2>2. CASE AddChunk(r) /\ UNCHANGED drops
    <3>1. /\ r \notin Inside
          /\ \E v \in {"remove", "clean", "panicked"} : rpc' = [rpc EXCEPT ![r] = v]
      BY <2>2 DEF Inside, AddChunk
    <3>2. Cardinality(Inside') = Cardinality(Inside) + 1
      BY <3>1, GoesIn
    <3>3. D' = D \/ D' = D \cup {chunk[r].group}
      BY <2>2 DEF AddChunk
    <3>4. Cardinality(D') <= Cardinality(D) + 1
      <4>1. Cardinality(D \cup {chunk[r].group}) \in {Cardinality(D), Cardinality(D) + 1}
        BY <1>3, FS_AddElement
      <4>2. Cardinality(D') \in {Cardinality(D), Cardinality(D) + 1}
        BY <3>3, <4>1
      <4>3. QED
        BY <1>3, <4>2
    <3>5. QED
      BY <1>1, <1>3, <1>5, <2>2, <3>2, <3>4
  <2>3. CASE RemoveGroup(r) /\ UNCHANGED drops
    <3>1. D' = D \ {chunk[r].group}
      BY <2>3 DEF RemoveGroup, Restrict
    <3>2. Cardinality(D') =
              IF chunk[r].group \in D THEN Cardinality(D) - 1 ELSE Cardinality(D)
      BY <1>3, <3>1, FS_RemoveElement
    <3>3. CASE rpc' = [rpc EXCEPT ![r] = "panicked"]
      <4>1. Cardinality(Inside') \in {Cardinality(Inside), Cardinality(Inside) + 1}
        BY <3>3, GoesIn
      <4>2. QED
        BY <1>1, <1>3, <1>5, <2>3, <3>2, <4>1
    <3>4. CASE chunk[r].group \in D /\ rpc' = [rpc EXCEPT ![r] = "push"]
      <4>1. r \in Inside
        BY <2>3 DEF Inside, RemoveGroup
      <4>2. Cardinality(Inside') = Cardinality(Inside) - 1
        <5>1. "push" \notin {"remove", "clean", "panicked"}
          OBVIOUS
        <5>2. QED
          BY <3>4, <4>1, <5>1, ComesOut
      <4>3. QED
        BY <1>1, <1>3, <1>5, <2>3, <3>2, <3>4, <4>2
    <3>5. QED
      BY <2>3, <3>3, <3>4 DEF RemoveGroup
  <2>4. CASE CleanUp(r) /\ UNCHANGED drops
    <3>1. D' = D \ Evicted(D) /\ r \in Inside
      BY <2>4 DEF CleanUp, Restrict, Inside
    <3>2. Cardinality(Inside') = Cardinality(Inside) - 1
      <4>1. rpc' = [rpc EXCEPT ![r] = "idle"]
        BY <2>4 DEF CleanUp
      <4>2. QED
        <5>1. "idle" \notin {"remove", "clean", "panicked"}
          OBVIOUS
        <5>2. QED
          BY <3>1, <4>1, <5>1, ComesOut
    <3>3. CASE Cardinality(D) <= MaxGroups /\ Evicted(D) = {}
      BY <1>3, <1>5, <3>1, <3>3
    <3>4. CASE \E g \in D : Evicted(D) = {g}
      <4>1. Cardinality(D') = Cardinality(D) - 1
        <5>1. PICK g \in D : Evicted(D) = {g}
          BY <3>4
        <5>2. Cardinality(D \ {g}) = Cardinality(D) - 1
          BY <1>3, FS_RemoveElement
        <5>3. QED
          BY <3>1, <5>1, <5>2
      <4>2. QED
        BY <1>1, <1>3, <1>5, <2>4, <3>2, <4>1
    <3>5. QED
      BY <1>3, <3>3, <3>4, EvictedGives
  <2>5. CASE RecvDropped(r)
    <3>1. D' = D /\ drops' = drops + 1 /\ rpc' = [rpc EXCEPT ![r] = "idle"]
      BY <2>5 DEF RecvDropped, Drop
    <3>2. Cardinality(Inside') >= Cardinality(Inside) - 1
      <4>1. Cardinality(Inside') \in {Cardinality(Inside) - 1, Cardinality(Inside)}
        <5>1. "idle" \notin {"remove", "clean", "panicked"}
          OBVIOUS
        <5>2. QED
          BY <3>1, <5>1, ComesOut
      <4>2. QED
        BY <1>3, <4>1
    <3>3. QED
      BY <1>1, <1>3, <1>5, <3>1, <3>2
  <2>6. QED
    BY <1>8, <2>1, <2>2, <2>3, <2>4, <2>5 DEF Receiving
<1>9. Active \subseteq Receivers
  BY BoundsAssumption DEF TInv, Active, Receivers
<1>10. QED
  BY <1>3, <1>6, <1>7, <1>8, <1>9 DEF Next, vars, rvars

\* Partial groups do not pile up, whatever is lost, dropped or panics, and
\* however many tasks send and receive.
THEOREM GroupsBoundedCorrect == Spec => []GroupsBounded
<1>1. Init => GroupsBounded
  <2> SUFFICES ASSUME Init PROVE GroupsBounded
    OBVIOUS
  <2>1. DOMAIN chunk_groups = {} /\ drops = 0 /\ Inside = {}
    BY DEF Init, Inside
  <2>2. QED
    BY <2>1, FS_EmptySet, BoundsAssumption DEF GroupsBounded, Inside
<1>2. QED
  BY <1>1, Typed, BoundKept, PTL DEF Spec

-----------------------------------------------------------------------------
\* One sender: the wire.

OneSender == \A s, t \in Senders : s = t

LEMMA ChunkTyped ==
    ASSUME NEW c \in Chunks
    PROVE  /\ c.group \in Nat /\ c.index \in Nat /\ c.index < c.group_length
           /\ c.data \in Msgs /\ c.data \in Nat /\ c.data # NoMsg
           /\ c.group_length \in Nat /\ c.group_length \in Lengths
           /\ c = [group |-> c.group, index |-> c.index,
                   group_length |-> c.group_length, data |-> c.data]
<1>1. /\ c \in [group : 0..MaxSends, index : Nat, group_length : Lengths, data : Msgs]
      /\ c.index < c.group_length
  BY DEF Chunks
<1>2. /\ c.group \in 0..MaxSends /\ c.index \in Nat /\ c.group_length \in Lengths
      /\ c.data \in Msgs
      /\ c = [group |-> c.group, index |-> c.index,
              group_length |-> c.group_length, data |-> c.data]
  BY <1>1
<1>3. c.data \in Nat /\ c.data # NoMsg
  BY <1>2, BoundsAssumption DEF Msgs, NoMsg
<1>4. c.group \in Nat /\ c.group_length \in Nat
  BY <1>2, LengthsAssumption, BoundsAssumption
<1>5. QED
  BY <1>1, <1>2, <1>3, <1>4, Zenon

\* Arithmetic needs the types of what is compared.
LEMMA WireTyped ==
    ASSUME TInv
    PROVE  /\ Len(wire) \in Nat /\ Len(length) \in Nat /\ pos \in 0..Len(wire)
           /\ current_group \in Nat /\ pos \in Nat
           /\ \A m \in 1..Len(length) : length[m] \in Nat
           /\ \A i \in 1..Len(wire) :
                  /\ wire[i] \in Chunks
                  /\ wire[i].group \in Nat /\ wire[i].index \in Nat
                  /\ wire[i].data \in Nat /\ wire[i].group_length \in Nat
                  /\ wire[i].index < wire[i].group_length
           /\ \A s \in Senders : msg[s] \in Nat /\ group[s] \in Nat /\ next[s] \in Nat
<1>1. length \in Seq(Lengths) /\ wire \in Seq(Chunks)
  BY DEF TInv, SendersTyped
<1>2. Len(length) \in Nat /\ \A m \in 1..Len(length) : length[m] \in Lengths
  BY <1>1
<1>3. Len(wire) \in Nat /\ \A i \in 1..Len(wire) : wire[i] \in Chunks
  BY <1>1
<1>4. \A i \in 1..Len(wire) :
          /\ wire[i] \in Chunks /\ wire[i].group \in Nat /\ wire[i].index \in Nat
          /\ wire[i].data \in Nat /\ wire[i].group_length \in Nat
          /\ wire[i].index < wire[i].group_length
  BY <1>3, ChunkTyped
<1>5. \A s \in Senders : msg[s] \in Nat /\ group[s] \in Nat /\ next[s] \in Nat
  BY BoundsAssumption DEF TInv, SendersTyped, Msgs, NoMsg
<1>6. pos \in 0..Len(wire) /\ pos \in Nat /\ current_group \in Nat
  BY <1>3 DEF TInv, SendersTyped, ReceiversTyped
<1>7. QED
  BY <1>2, <1>3, <1>4, <1>5, <1>6, LengthsAssumption

LEMMA SendingWire ==
    ASSUME OneSender, TInv, WInv, NEW s \in Senders, Sending(s) \/ SendDropped(s)
    PROVE  WInv'
<1>1. \A t \in Senders : t = s
  BY DEF OneSender
<1>2. /\ spc \in [Senders -> {"idle", "read", "send"}]
      /\ msg \in [Senders -> Msgs \cup {NoMsg}]
      /\ group \in [Senders -> 0..MaxSends] /\ next \in [Senders -> Nat]
  BY DEF TInv, SendersTyped
<1>3. CASE ReadGroup(s)
  <2>1. PICK n \in Lengths : length' = Append(length, n)
    BY <1>3 DEF ReadGroup
  <2>2. /\ Len(length') = Len(length) + 1
        /\ \A m \in 1..Len(length) : length'[m] = length[m]
    BY <2>1, AppendGives DEF TInv, SendersTyped
  <2>3. /\ wire' = wire /\ current_group' = current_group
        /\ spc'[s] = "read" /\ group'[s] = current_group
        /\ msg'[s] = Len(length) + 1
    BY <1>2, <1>3 DEF ReadGroup
  <2>4. WireOrdered' /\ WireLengths'
    <3>1. WireOrdered'
      BY <2>3 DEF WInv, WireOrdered
    <3>2. ASSUME NEW i \in 1..Len(wire)
          PROVE  /\ wire[i].data \in 1..Len(length') /\ wire[i].group < current_group
                 /\ wire[i].group_length = length'[wire[i].data]
      BY <2>2, WireTyped DEF WInv, WireLengths
    <3>3. QED
      BY <2>3, <3>1, <3>2 DEF WireLengths
  <2>5. AtTheEnd'
    BY <1>1, <2>2, <2>3, WireTyped DEF WInv, WireLengths, AtTheEnd
  <2>6. QED
    BY <2>4, <2>5 DEF WInv
<1>4. CASE WriteGroup(s)
  <2>1. /\ wire' = wire /\ length' = length /\ current_group' = group[s] + 1
        /\ spc[s] = "read" /\ spc'[s] = "send" /\ group' = group /\ msg' = msg
        /\ current_group = group[s]
    BY <1>2, <1>4 DEF WriteGroup, WInv, AtTheEnd
  <2>2. WireOrdered' /\ WireLengths'
    BY <2>1, WireTyped DEF WInv, WireOrdered, WireLengths
  <2>3. AtTheEnd'
    BY <1>1, <2>1, WireTyped DEF WInv, AtTheEnd
  <2>4. QED
    BY <2>2, <2>3 DEF WInv
<1>5. CASE SendChunk(s)
  <2> DEFINE c == [group |-> group[s], index |-> next[s],
                   group_length |-> length[msg[s]], data |-> msg[s]]
  <2>1. c \in Chunks
    <3>1. msg[s] \in 1..Len(length) /\ next[s] < length[msg[s]]
      BY <1>5 DEF SendChunk, TInv, Counted
    <3>2. length[msg[s]] \in Lengths /\ msg[s] \in Msgs
      BY <3>1, BoundsAssumption DEF TInv, SendersTyped, Counted, Msgs
    <3>3. QED
      BY <1>2, <3>1, <3>2 DEF Chunks
  <2>2. /\ wire' = Append(wire, c) /\ length' = length
        /\ current_group' = current_group
        /\ spc[s] = "send" /\ spc' = spc /\ group' = group /\ msg' = msg
        /\ next'[s] = next[s] + 1 /\ next[s] < length[msg[s]]
    BY <1>2, <1>5 DEF SendChunk
  <2>3. /\ Len(wire') = Len(wire) + 1 /\ wire'[Len(wire) + 1] = c
        /\ \A i \in 1..Len(wire) : wire'[i] = wire[i]
    BY <2>1, <2>2, AppendGives DEF TInv, SendersTyped
  <2>4. /\ msg[s] = Len(length) /\ msg[s] \in 1..Len(length)
        /\ current_group = group[s] + 1
        /\ \A i \in 1..Len(wire) :
               \/ wire[i].group < group[s] /\ wire[i].data < msg[s]
               \/ /\ wire[i].group = group[s] /\ wire[i].data = msg[s]
                  /\ wire[i].index < next[s]
    BY <2>2 DEF WInv, AtTheEnd, TInv, Counted
  <2>5. WireOrdered'
    <3> SUFFICES ASSUME NEW i \in 1..Len(wire'), NEW j \in 1..Len(wire'), i < j
                 PROVE  \/ /\ wire'[i].group < wire'[j].group
                           /\ wire'[i].data < wire'[j].data
                        \/ /\ wire'[i].group = wire'[j].group
                           /\ wire'[i].data = wire'[j].data
                           /\ wire'[i].index < wire'[j].index
      BY DEF WireOrdered
    <3>1. Len(wire) \in Nat
      BY WireTyped
    <3>2. i \in 1..Len(wire) /\ (j \in 1..Len(wire) \/ j = Len(wire) + 1)
      BY <2>3, <3>1
    <3>3. CASE j \in 1..Len(wire)
      BY <2>3, <3>2, <3>3 DEF WInv, WireOrdered
    <3>4. CASE j = Len(wire) + 1
      BY <2>3, <2>4, <3>2, <3>4
    <3>5. QED
      BY <3>2, <3>3, <3>4
  <2>6. WireLengths'
    BY <2>2, <2>3, <2>4, WireTyped DEF WInv, WireLengths
  <2>7. AtTheEnd'
    <3>1. ASSUME NEW i \in 1..Len(wire')
          PROVE  \/ wire'[i].group < group[s] /\ wire'[i].data < msg[s]
                 \/ /\ wire'[i].group = group[s] /\ wire'[i].data = msg[s]
                    /\ wire'[i].index < next[s] + 1
      <4>1. Len(wire) \in Nat /\ next[s] \in Nat
        BY WireTyped
      <4>2. CASE i \in 1..Len(wire)
        BY <2>3, <2>4, <4>1, <4>2, WireTyped
      <4>3. CASE i = Len(wire) + 1
        BY <2>3, <4>1, <4>3
      <4>4. QED
        BY <2>3, <4>1, <4>2, <4>3
    <3>2. QED
      BY <1>1, <2>2, <2>4, <3>1 DEF AtTheEnd
  <2>8. QED
    BY <2>5, <2>6, <2>7 DEF WInv
<1>6. CASE SendReturns(s) \/ SendDropped(s)
  <2>1. /\ wire' = wire /\ length' = length /\ current_group' = current_group
        /\ spc'[s] = "idle"
    BY <1>2, <1>6 DEF SendReturns, SendDropped
  <2>2. QED
    BY <1>1, <2>1 DEF WInv, WireOrdered, WireLengths, AtTheEnd
<1>7. QED
  BY <1>3, <1>4, <1>5, <1>6 DEF Sending

LEMMA ReceivingWire ==
    ASSUME WInv, UNCHANGED svars PROVE WInv'
BY DEF WInv, WireOrdered, WireLengths, AtTheEnd, svars

\* What is read off the order of the wire.
LEMMA WireGives ==
    ASSUME TInv, WInv, NEW i \in 1..Len(wire), NEW j \in 1..Len(wire)
    PROVE  /\ wire[i].group = wire[j].group <=> wire[i].data = wire[j].data
           /\ wire[i].data = wire[j].data =>
                  wire[i].group_length = wire[j].group_length
           /\ wire[i].data = wire[j].data /\ wire[i].index = wire[j].index => i = j
           /\ i <= j => /\ wire[i].group <= wire[j].group
                        /\ wire[i].data <= wire[j].data
           /\ i < j /\ wire[i].data = wire[j].data => wire[i].index < wire[j].index
           /\ wire[i].data \in 1..Len(length)
           /\ wire[i].group_length = length[wire[i].data]
<1>1. /\ wire[i].data \in 1..Len(length)
      /\ wire[i].group_length = length[wire[i].data]
      /\ wire[j].group_length = length[wire[j].data]
  BY DEF WInv, WireLengths
<1>2. /\ wire[i].group \in Nat /\ wire[i].index \in Nat /\ wire[i].data \in Nat
      /\ wire[j].group \in Nat /\ wire[j].index \in Nat /\ wire[j].data \in Nat
  BY WireTyped
<1>3. /\ i < j => \/ wire[i].group < wire[j].group /\ wire[i].data < wire[j].data
                  \/ /\ wire[i].group = wire[j].group /\ wire[i].data = wire[j].data
                     /\ wire[i].index < wire[j].index
      /\ j < i => \/ wire[j].group < wire[i].group /\ wire[j].data < wire[i].data
                  \/ /\ wire[j].group = wire[i].group /\ wire[j].data = wire[i].data
                     /\ wire[j].index < wire[i].index
  BY DEF WInv, WireOrdered
<1>4. i \in Int /\ j \in Int
  OBVIOUS
<1>5. CASE i < j
  BY <1>1, <1>2, <1>3, <1>4, <1>5
<1>6. CASE j < i
  BY <1>1, <1>2, <1>3, <1>4, <1>6
<1>7. CASE i = j
  BY <1>1, <1>2, <1>7
<1>8. QED
  BY <1>4, <1>5, <1>6, <1>7

-----------------------------------------------------------------------------
\* One sender, any number of receivers.

\* What a step keeps: the wire and the lengths only grow, the reader only
\* goes on.
Onwards ==
    /\ Len(wire) <= Len(wire') /\ pos <= pos' /\ Len(length) <= Len(length')
    /\ \A i \in 1..Len(wire) : wire'[i] = wire[i]
    /\ \A m \in 1..Len(length) : length'[m] = length[m]

LEMMA EveryStepOnwards ==
    ASSUME TInv, [Next]_vars PROVE Onwards
<1>1. /\ wire \in Seq(Chunks) /\ length \in Seq(Lengths) /\ pos \in Nat
      /\ Len(wire) \in Nat /\ Len(length) \in Nat
  BY WireTyped DEF TInv, SendersTyped
<1>2. CASE UNCHANGED svars
  <2>1. wire' = wire /\ length' = length
    BY <1>2 DEF svars
  <2>2. pos <= pos'
    <3>1. pos' = pos \/ \E i \in pos + 1 .. Len(wire) : pos' = i
      BY <1>1, <1>2 DEF Next, vars, rvars, Sending, ReadGroup, WriteGroup, SendChunk,
         SendReturns, SendDropped, Receiving, NextReady, DelegateRecv, DelegateFails,
         AddChunk, RemoveGroup, PushCompleted, CleanUp, RecvDropped
    <3>2. QED
      BY <1>1, <3>1
  <2>3. QED
    BY <1>1, <2>1, <2>2 DEF Onwards
<1>3. ASSUME NEW s \in Senders, Sending(s) \/ SendDropped(s) PROVE Onwards
  <2>1. pos' = pos
    BY <1>3 DEF Sending, ReadGroup, WriteGroup, SendChunk, SendReturns, SendDropped,
       rvars
  <2>2. CASE ReadGroup(s)
    <3>1. wire' = wire /\ \E n \in Lengths : length' = Append(length, n)
      BY <2>2 DEF ReadGroup
    <3>2. QED
      BY <1>1, <2>1, <3>1, AppendGives DEF Onwards
  <2>3. CASE WriteGroup(s) \/ SendReturns(s) \/ SendDropped(s)
    <3>1. wire' = wire /\ length' = length
      BY <2>3 DEF WriteGroup, SendReturns, SendDropped
    <3>2. QED
      BY <1>1, <2>1, <3>1 DEF Onwards
  <2>4. CASE SendChunk(s)
    <3>1. length' = length /\ \E c : wire' = Append(wire, c) /\ c \in Chunks
      <4> DEFINE c == [group |-> group[s], index |-> next[s],
                       group_length |-> length[msg[s]], data |-> msg[s]]
      <4>1. msg[s] \in 1..Len(length) /\ next[s] < length[msg[s]]
        BY <2>4 DEF SendChunk, TInv, Counted
      <4>2. length[msg[s]] \in Lengths /\ msg[s] \in Msgs
        BY <4>1, BoundsAssumption DEF TInv, SendersTyped, Counted, Msgs
      <4>3. c \in Chunks
        BY <4>1, <4>2 DEF Chunks, TInv, SendersTyped
      <4>4. QED
        BY <2>4, <4>3 DEF SendChunk
    <3>2. QED
      BY <1>1, <2>1, <3>1, AppendGives DEF Onwards
  <2>5. QED
    BY <1>3, <2>2, <2>3, <2>4 DEF Sending
<1>4. QED
  BY <1>2, <1>3 DEF Next, vars, Receiving, NextReady, DelegateRecv, DelegateFails,
     AddChunk, RemoveGroup, PushCompleted, CleanUp, RecvDropped

LEMMA PassedOn ==
    ASSUME TInv, Onwards, TInv', NEW c, Passed(c) PROVE Passed(c)'
<1>1. PICK i \in 1..pos : wire[i] = c
  BY DEF Passed
<1>2. pos \in 0..Len(wire) /\ Len(wire) \in Nat
  BY WireTyped
<1>3. pos' \in Nat
  BY DEF TInv, SendersTyped, ReceiversTyped
<1>4. i \in 1..pos' /\ wire'[i] = c
  BY <1>1, <1>2, <1>3 DEF Onwards
<1>5. QED
  BY <1>4 DEF Passed

\* What has come out, and how a step changes it.
LEMMA AssembledTyped ==
    ASSUME TInv PROVE Assembled \in Seq(Data) /\ DOMAIN Assembled = 1..Len(Assembled)
<1>1. received \in Seq(Data) /\ completed_chunks \in Seq(Data)
  BY DEF TInv, ReceiversTyped
<1>2. Assembled \in Seq(Data)
  BY <1>1, ConcatProperties DEF Assembled
<1>3. QED
  BY <1>2, LenProperties

LEMMA NextReadyKeeps ==
    ASSUME TInv, TInv', NEW r, NextReady(r) PROVE Assembled' = Assembled
<1>1. received \in Seq(Data) /\ completed_chunks \in Seq(Data)
  BY DEF TInv, ReceiversTyped
<1>2. CASE completed_chunks # << >>
  <2> DEFINE hd == Head(completed_chunks)
             tl == Tail(completed_chunks)
             now == Append(received, hd)
  <2>1. received' = now /\ completed_chunks' = tl
    BY <1>2 DEF NextReady
  <2>2. /\ hd \in Data /\ tl \in Seq(Data) /\ Len(tl) = Len(completed_chunks) - 1
        /\ \A i \in 1..Len(tl) : tl[i] = completed_chunks[i + 1]
        /\ hd = completed_chunks[1] /\ Len(completed_chunks) \in Nat \ {0}
    BY <1>1, <1>2, HeadTailProperties, EmptySeq
  <2>3. /\ now \in Seq(Data) /\ Len(now) = Len(received) + 1
        /\ now[Len(received) + 1] = hd
        /\ \A i \in 1..Len(received) : now[i] = received[i]
    BY <1>1, <2>2, AppendGives
  <2> HIDE DEF hd, tl, now
  <2>4. /\ now \o tl \in Seq(Data) /\ Len(now \o tl) = Len(now) + Len(tl)
        /\ \A i \in 1..(Len(now) + Len(tl)) :
               (now \o tl)[i] = IF i <= Len(now) THEN now[i] ELSE tl[i - Len(now)]
    BY <2>2, <2>3, ConcatProperties
  <2>5. /\ received \o completed_chunks \in Seq(Data)
        /\ Len(received \o completed_chunks) = Len(received) + Len(completed_chunks)
        /\ \A i \in 1..(Len(received) + Len(completed_chunks)) :
               (received \o completed_chunks)[i] =
                   IF i <= Len(received) THEN received[i]
                                         ELSE completed_chunks[i - Len(received)]
    BY <1>1, ConcatProperties
  <2>6. Len(received) \in Nat
    BY <1>1
  <2>7. \A i \in 1..(Len(received) + Len(completed_chunks)) :
            (now \o tl)[i] = (received \o completed_chunks)[i]
    <3> SUFFICES ASSUME NEW i \in 1..(Len(received) + Len(completed_chunks))
                 PROVE  (now \o tl)[i] = (received \o completed_chunks)[i]
      OBVIOUS
    <3>1. CASE i <= Len(received)
      BY <2>2, <2>3, <2>4, <2>5, <2>6, <3>1
    <3>2. CASE i = Len(received) + 1
      BY <2>2, <2>3, <2>4, <2>5, <2>6, <3>2
    <3>3. CASE i > Len(received) + 1
      <4>1. /\ i - Len(now) \in 1..Len(tl) /\ (now \o tl)[i] = tl[i - Len(now)]
            /\ i - Len(now) + 1 = i - Len(received)
        BY <2>2, <2>3, <2>4, <2>6, <3>3
      <4>2. tl[i - Len(now)] = completed_chunks[i - Len(now) + 1]
        BY <2>2, <4>1
      <4>3. (received \o completed_chunks)[i] = completed_chunks[i - Len(received)]
        BY <2>2, <2>5, <2>6, <3>3
      <4>4. QED
        BY <4>1, <4>2, <4>3
    <3>4. i <= Len(received) \/ i = Len(received) + 1 \/ i > Len(received) + 1
      BY <2>6
    <3>5. QED
      BY <3>1, <3>2, <3>3, <3>4
  <2>8. now \o tl = received \o completed_chunks
    <3>1. Len(now \o tl) = Len(received) + Len(completed_chunks)
      BY <2>2, <2>3, <2>4, <2>6
    <3>2. QED
      BY <2>4, <2>5, <2>7, <3>1, SeqEqual
  <2>9. QED
    BY <2>1, <2>8 DEF Assembled
<1>3. CASE completed_chunks = << >>
  BY <1>3 DEF NextReady, Assembled
<1>4. QED
  BY <1>2, <1>3

LEMMA PushAppends ==
    ASSUME TInv, NEW r \in Receivers, PushCompleted(r)
    PROVE  /\ Assembled' = Append(Assembled, ready[r])
           /\ Len(Assembled') = Len(Assembled) + 1 /\ Len(Assembled) \in Nat
           /\ DOMAIN Assembled = 1..Len(Assembled)
           /\ DOMAIN Assembled' = 1..(Len(Assembled) + 1)
           /\ Assembled'[Len(Assembled) + 1] = ready[r]
           /\ \A i \in 1..Len(Assembled) : Assembled'[i] = Assembled[i]
<1>1. received \in Seq(Data) /\ completed_chunks \in Seq(Data) /\ ready[r] \in Data
  BY DEF TInv, ReceiversTyped
<1>2. <<ready[r]>> \in Seq(Data)
  BY <1>1
<1>3. Assembled' = received \o Append(completed_chunks, ready[r])
  BY DEF PushCompleted, Assembled
<1>4. Append(completed_chunks, ready[r]) = completed_chunks \o <<ready[r]>>
  BY <1>1, AppendIsConcat
<1>5. Append(Assembled, ready[r]) = Assembled \o <<ready[r]>>
  BY <1>1, AssembledTyped, AppendIsConcat
<1>6. Assembled' = Append(Assembled, ready[r])
  BY <1>1, <1>2, <1>3, <1>4, <1>5, ConcatAssociative DEF Assembled
<1>7. Assembled \in Seq(Data) /\ DOMAIN Assembled = 1..Len(Assembled)
  BY AssembledTyped
<1>8. QED
  BY <1>1, <1>6, <1>7, AppendGives, LenProperties

LEMMA GoneOn ==
    ASSUME TInv, TInv', Onwards, NEW m \in 1..Len(length), Gone(m),
           \A r \in Receivers : rpc'[r] = "add" => chunk'[r].data # m
    PROVE  Gone(m)'
<1>1. length'[m] = length[m]
  BY DEF Onwards
<1>2. ASSUME NEW k \in 0..(length[m] - 1)
      PROVE  \E i \in 1..pos' : wire'[i].data = m /\ wire'[i].index = k
  <2>1. PICK i \in 1..pos : wire[i].data = m /\ wire[i].index = k
    BY DEF Gone
  <2>2. pos \in 0..Len(wire) /\ Len(wire) \in Nat
    BY WireTyped
  <2>3. pos' \in Nat
    BY DEF TInv, SendersTyped, ReceiversTyped
  <2>4. i \in 1..pos' /\ wire'[i] = wire[i]
    BY <2>2, <2>3 DEF Onwards
  <2>5. QED
    BY <2>1, <2>4
<1>3. QED
  BY <1>1, <1>2 DEF Gone

LEMMA OutOn ==
    ASSUME TInv, TInv', Onwards, NEW x, Out(x),
           \A r \in Receivers : rpc'[r] = "add" => chunk'[r].data # x[1],
           \A g \in DOMAIN chunk_groups' : \A i \in Places(chunk_groups'[g]) :
               chunk_groups'[g].chunks[i] # x[1]
    PROVE  Out(x)'
<1>1. x # << >> /\ x[1] \in 1..Len(length) /\ x = Whole(x[1]) /\ Gone(x[1])
  BY DEF Out
<1>2. Gone(x[1])'
  BY <1>1, GoneOn
<1>3. x = Whole(x[1])'
  BY <1>1 DEF Onwards, Whole
<1>4. x[1] \in 1..Len(length')
  <2>1. Len(length) \in Nat /\ Len(length') \in Nat
    BY DEF TInv, SendersTyped
  <2>2. QED
    BY <1>1, <2>1 DEF Onwards
<1>5. QED
  BY <1>1, <1>2, <1>3, <1>4 DEF Out, Places

\* A chunk that has passed is on the wire, so it has its type.
LEMMA PassedGives ==
    ASSUME TInv, WInv, NEW c, Passed(c)
    PROVE  /\ c \in Chunks /\ c.data \in 1..Len(length) /\ c.index \in Nat
           /\ c.group_length = length[c.data] /\ c.index < c.group_length
           /\ c.group_length \in Nat /\ c.data # NoMsg
           /\ \E i \in 1..pos : i \in 1..Len(wire) /\ wire[i] = c
<1>1. PICK i \in 1..pos : wire[i] = c
  BY DEF Passed
<1>2. i \in 1..Len(wire)
  BY WireTyped
<1>3. c \in Chunks
  BY <1>1, <1>2, WireTyped
<1>4. c.data \in 1..Len(length) /\ c.group_length = length[c.data]
  BY <1>1, <1>2, WireGives
<1>5. QED
  BY <1>1, <1>2, <1>3, <1>4, ChunkTyped

\* Two chunks that have passed and agree on the group or the message agree on
\* both, and on the length; with the index, they are one.
LEMMA PassedAgree ==
    ASSUME TInv, WInv, NEW c, NEW d, Passed(c), Passed(d)
    PROVE  /\ c.group = d.group <=> c.data = d.data
           /\ c.data = d.data => c.group_length = d.group_length
           /\ c.data = d.data /\ c.index = d.index => c = d
<1>1. PICK i \in 1..pos : i \in 1..Len(wire) /\ wire[i] = c
  BY PassedGives
<1>2. PICK j \in 1..pos : j \in 1..Len(wire) /\ wire[j] = d
  BY PassedGives
<1>3. QED
  BY <1>1, <1>2, WireGives

\* What is in a group is of the message of any chunk of that group.
LEMMA SlotGives ==
    ASSUME TInv, WInv, RInv, NEW c, Passed(c), c.group \in DOMAIN chunk_groups
    PROVE  LET h == chunk_groups[c.group]
           IN  /\ GroupTyped(h) /\ h.group_length = c.group_length
               /\ \A i \in Places(h) : h.chunks[i] \in {NoMsg, c.data}
               /\ \A i \in Places(h) : h.chunks[i] = c.data =>
                      Passed([group |-> c.group, index |-> i,
                              group_length |-> c.group_length, data |-> c.data])
<1> DEFINE h == chunk_groups[c.group]
           at_(i) == [group |-> c.group, index |-> i,
                      group_length |-> h.group_length, data |-> h.chunks[i]]
<1>1. GroupTyped(h)
  BY DEF TInv, ReceiversTyped
<1>2. ASSUME NEW i \in Places(h), h.chunks[i] # NoMsg
      PROVE  Passed(at_(i)) /\ h.chunks[i] = c.data /\ h.group_length = c.group_length
  <2>1. Passed(at_(i))
    BY <1>2 DEF RInv, PlacedRight
  <2>2. at_(i).group = c.group
    OBVIOUS
  <2>3. at_(i).data = c.data /\ at_(i).group_length = c.group_length
    BY <2>1, <2>2, PassedAgree
  <2>4. QED
    BY <2>1, <2>3
<1>3. \E i \in Places(h) : h.chunks[i] # NoMsg
  BY DEF RInv, PlacedRight
<1>4. h.group_length = c.group_length
  BY <1>2, <1>3
<1>5. c.data # NoMsg
  BY PassedGives
<1>6. QED
  BY <1>1, <1>2, <1>4, <1>5

\* Steps that bring no chunk to a receiver and none to the map.
LEMMA QuietKeeps ==
    ASSUME TInv, TInv', WInv, Onwards, RInv,
           \A r \in Receivers : rpc'[r] \in {"add", "remove", "push"} =>
               rpc'[r] = rpc[r] /\ chunk'[r] = chunk[r] /\ ready'[r] = ready[r],
           DOMAIN chunk_groups' \subseteq DOMAIN chunk_groups,
           \A g \in DOMAIN chunk_groups' : chunk_groups'[g] = chunk_groups[g],
           Assembled' = Assembled
    PROVE  RInv'
<1>1. HeldOnce'
  <2> SUFFICES ASSUME NEW r \in Receivers
               PROVE  /\ rpc'[r] \in {"add", "remove", "push"} =>
                             \E i \in 1..pos' : wire'[i] = chunk'[r]
                      /\ rpc'[r] = "add" =>
                             /\ \A t \in Receivers :
                                    t # r /\ rpc'[t] = "add" => chunk'[t] # chunk'[r]
                             /\ chunk'[r].group \in DOMAIN chunk_groups' =>
                                    chunk_groups'[chunk'[r].group].chunks[chunk'[r].index]
                                        = NoMsg
    BY DEF HeldOnce, Passed
  <2>1. ASSUME rpc'[r] \in {"add", "remove", "push"}
        PROVE  \E i \in 1..pos' : wire'[i] = chunk'[r]
    <3>1. Passed(chunk[r])
      BY <2>1 DEF RInv, HeldOnce
    <3>2. \E i \in 1..pos' : wire'[i] = chunk[r]
      BY <3>1, PassedOn DEF Passed
    <3>3. QED
      BY <2>1, <3>2
  <2>2. QED
    BY <2>1 DEF RInv, HeldOnce
<1>2. PlacedRight'
  BY PassedOn DEF RInv, PlacedRight, Places
<1>3. TakenOutOnce'
  <2> SUFFICES ASSUME NEW r \in Receivers, rpc'[r] = "remove"
               PROVE  /\ \A m : m = chunk'[r].data => Gone(m)'
                      /\ \A t \in Receivers :
                             t # r /\ rpc'[t] = "remove" => chunk'[t].data # chunk'[r].data
    BY DEF TakenOutOnce, Gone
  <2>1. chunk[r].data \in 1..Len(length) /\ Gone(chunk[r].data)
    BY PassedGives DEF RInv, HeldOnce, TakenOutOnce
  <2>2. \A t \in Receivers : rpc'[t] = "add" => chunk'[t].data # chunk[r].data
    BY <2>1 DEF Gone
  <2>3. ASSUME NEW m, m = chunk'[r].data PROVE Gone(m)'
    BY <2>1, <2>2, <2>3, GoneOn
  <2>4. QED
    BY <2>3 DEF RInv, TakenOutOnce
<1>4. OutOnce'
  <2>1. Results' \subseteq Results /\ Pushing' \subseteq Pushing
    BY DEF Results, Pushing
  <2>2. ASSUME NEW x \in Results' PROVE Out(x)'
    <3>1. Out(x)
      BY <2>1 DEF RInv, OutOnce
    <3>2. \A r \in Receivers : rpc'[r] = "add" => chunk'[r].data # x[1]
      BY <3>1 DEF Out, Gone
    <3>3. \A g \in DOMAIN chunk_groups' : \A i \in Places(chunk_groups'[g]) :
              chunk_groups'[g].chunks[i] # x[1]
      BY <3>1 DEF Out
    <3>4. QED
      BY <3>1, <3>2, <3>3, OutOn
  <2>3. \A r \in Pushing' : ready'[r] = ready[r] /\ chunk'[r] = chunk[r]
    BY DEF Pushing
  <2>4. QED
    BY <2>1, <2>2, <2>3 DEF RInv, OutOnce
<1>5. SizesRight'
  BY DEF RInv, SizesRight, Places
<1>6. QED
  BY <1>1, <1>2, <1>3, <1>4, <1>5 DEF RInv

\* A chunk comes from the delegate, and it is a new one.
LEMMA DelegateRecvKeeps ==
    ASSUME TInv, TInv', WInv, Onwards, RInv, NEW r \in Receivers, DelegateRecv(r)
    PROVE  RInv'
<1>1. PICK n \in pos + 1 .. Len(wire) :
          chunk' = [chunk EXCEPT ![r] = wire[n]] /\ pos' = n
  BY DEF DelegateRecv
<1>2. /\ rpc' = [rpc EXCEPT ![r] = "add"] /\ rpc[r] = "wait"
      /\ chunk_groups' = chunk_groups /\ ready' = ready
      /\ Assembled' = Assembled /\ wire' = wire /\ length' = length
  BY DEF DelegateRecv, Assembled, svars
<1>3. /\ n \in 1..Len(wire) /\ pos \in Nat /\ n \in 1..pos'
      /\ wire[n] \in Chunks
      /\ \A i \in 1..pos : i \in 1..Len(wire) /\ i # n
  BY <1>1, WireTyped
<1>4. /\ rpc'[r] = "add" /\ chunk'[r] = wire[n]
      /\ \A t \in Receivers : t # r => rpc'[t] = rpc[t] /\ chunk'[t] = chunk[t]
  BY <1>1, <1>2 DEF TInv, ReceiversTyped
<1>5. ASSUME NEW c, Passed(c)
      PROVE  c.data # wire[n].data \/ c.index # wire[n].index
  BY <1>3, <1>5, PassedGives, WireGives
<1>6. HeldOnce'
  <2> SUFFICES ASSUME NEW t \in Receivers
               PROVE  /\ rpc'[t] \in {"add", "remove", "push"} =>
                             \E i \in 1..pos' : wire'[i] = chunk'[t]
                      /\ rpc'[t] = "add" =>
                             /\ \A u \in Receivers :
                                    u # t /\ rpc'[u] = "add" => chunk'[u] # chunk'[t]
                             /\ chunk'[t].group \in DOMAIN chunk_groups =>
                                    chunk_groups[chunk'[t].group].chunks[chunk'[t].index]
                                        = NoMsg
    BY <1>2 DEF HeldOnce, Passed
  <2>1. \A u \in Receivers : rpc[u] = "add" => chunk[u] # wire[n]
    BY <1>5 DEF RInv, HeldOnce
  <2>2. CASE t # r
    <3>1. rpc[t] \in {"add", "remove", "push"} => Passed(chunk[t])
      BY DEF RInv, HeldOnce
    <3>2. rpc[t] \in {"add", "remove", "push"} =>
              \E i \in 1..pos' : wire'[i] = chunk[t]
      BY <3>1, PassedOn DEF Passed
    <3>3. QED
      BY <1>4, <2>1, <2>2, <3>2 DEF RInv, HeldOnce
  <2>3. CASE t = r
    <3>1. \E i \in 1..pos' : wire'[i] = chunk'[r]
      BY <1>2, <1>3, <1>4
    <3>2. \A u \in Receivers : u # r /\ rpc'[u] = "add" => chunk'[u] # chunk'[r]
      BY <1>4, <2>1
    <3>3. ASSUME wire[n].group \in DOMAIN chunk_groups
          PROVE  chunk_groups[wire[n].group].chunks[wire[n].index] = NoMsg
      <4> DEFINE h == chunk_groups[wire[n].group]
                 i == wire[n].index
                 c == [group |-> wire[n].group, index |-> i,
                       group_length |-> h.group_length, data |-> h.chunks[i]]
      <4>1. PICK k \in Places(h) : h.chunks[k] # NoMsg
        BY <3>3 DEF RInv, PlacedRight
      <4>2. Passed([group |-> wire[n].group, index |-> k,
                    group_length |-> h.group_length, data |-> h.chunks[k]])
        BY <3>3, <4>1 DEF RInv, PlacedRight
      <4>3. PICK j \in 1..pos :
                wire[j].group = wire[n].group /\ wire[j].group_length = h.group_length
        BY <4>2 DEF Passed
      <4>4. wire[n].group_length = h.group_length
        BY <1>3, <4>3, WireGives
      <4>5. i \in Places(h)
        BY <1>3, <4>4, ChunkTyped DEF Places
      <4>6. SUFFICES ASSUME h.chunks[i] # NoMsg PROVE FALSE
        OBVIOUS
      <4>7. Passed(c)
        BY <3>3, <4>5, <4>6 DEF RInv, PlacedRight
      <4>8. PICK l \in 1..pos : wire[l] = c
        BY <4>7 DEF Passed
      <4>9. wire[l].group = wire[n].group /\ wire[l].index = wire[n].index
        BY <4>8
      <4>10. QED
        BY <1>3, <4>9, WireGives
    <3>4. QED
      BY <1>4, <2>3, <3>1, <3>2, <3>3
  <2>4. QED
    BY <2>2, <2>3
<1>7. PlacedRight'
  BY <1>2, PassedOn DEF RInv, PlacedRight, Places
<1>8. ASSUME NEW m \in 1..Len(length), Gone(m) PROVE Gone(m)'
  <2>1. wire[n].data # m
    <3> SUFFICES ASSUME wire[n].data = m PROVE FALSE
      OBVIOUS
    <3>1. wire[n].index \in 0..(length[m] - 1)
      BY <1>3, ChunkTyped, WireGives, WireTyped
    <3>2. PICK i \in 1..pos : wire[i].data = m /\ wire[i].index = wire[n].index
      BY <1>8, <3>1 DEF Gone
    <3>3. QED
      BY <1>3, <3>2, WireGives
  <2>2. \A t \in Receivers : rpc'[t] = "add" => chunk'[t].data # m
    BY <1>4, <1>8, <2>1 DEF Gone
  <2>3. QED
    BY <1>8, <2>2, GoneOn
<1>9. TakenOutOnce'
  <2> SUFFICES ASSUME NEW t \in Receivers, rpc'[t] = "remove"
               PROVE  /\ \A m : m = chunk'[t].data => Gone(m)'
                      /\ \A u \in Receivers :
                             u # t /\ rpc'[u] = "remove" => chunk'[u].data # chunk'[t].data
    BY DEF TakenOutOnce, Gone
  <2>1. t # r /\ rpc[t] = "remove" /\ chunk'[t] = chunk[t]
    BY <1>4
  <2>2. chunk[t].data \in 1..Len(length) /\ Gone(chunk[t].data)
    BY <2>1, PassedGives DEF RInv, HeldOnce, TakenOutOnce
  <2>3. ASSUME NEW m, m = chunk'[t].data PROVE Gone(m)'
    BY <1>8, <2>1, <2>2, <2>3
  <2>4. QED
    BY <1>4, <2>1, <2>3 DEF RInv, TakenOutOnce
<1>10. OutOnce'
  <2>1. Pushing' = Pushing
    BY <1>2, <1>4 DEF Pushing
  <2>2. Results' = Results
    BY <1>2, <2>1 DEF Results
  <2>3. ASSUME NEW x \in Results' PROVE Out(x)'
    <3>1. Out(x)
      BY <2>2 DEF RInv, OutOnce
    <3>2. x[1] \in 1..Len(length) /\ Gone(x[1])
      BY <3>1 DEF Out
    <3>3. Gone(x[1])'
      BY <1>8, <3>2
    <3>4. \A t \in Receivers : rpc'[t] = "add" => chunk'[t].data # x[1]
      BY <3>3 DEF Gone
    <3>5. QED
      BY <1>2, <3>1, <3>4, OutOn DEF Out
  <2>4. \A t \in Pushing : chunk'[t] = chunk[t]
    BY <1>2, <1>4 DEF Pushing
  <2>5. QED
    BY <1>2, <2>1, <2>3, <2>4 DEF RInv, OutOnce
<1>11. SizesRight'
  BY <1>2, <1>4 DEF RInv, SizesRight, Places
<1>12. QED
  BY <1>6, <1>7, <1>9, <1>10, <1>11 DEF RInv

\* An assembled message is queued.
LEMMA PushKeeps ==
    ASSUME TInv, TInv', WInv, Onwards, RInv, NEW r \in Receivers, PushCompleted(r)
    PROVE  RInv'
<1>1. /\ rpc[r] = "push" /\ rpc'[r] = "clean"
      /\ \A t \in Receivers : t # r => rpc'[t] = rpc[t]
      /\ chunk' = chunk /\ ready' = ready /\ chunk_groups' = chunk_groups
      /\ pos' = pos /\ wire' = wire
  BY DEF PushCompleted, TInv, ReceiversTyped, svars
<1>2. HeldOnce' /\ PlacedRight' /\ SizesRight'
  BY <1>1 DEF RInv, HeldOnce, PlacedRight, SizesRight, Passed, Places
<1>3. TakenOutOnce'
  <2> SUFFICES ASSUME NEW t \in Receivers, rpc'[t] = "remove"
               PROVE  /\ \A m : m = chunk[t].data => Gone(m)'
                      /\ \A u \in Receivers :
                             u # t /\ rpc'[u] = "remove" => chunk[u].data # chunk[t].data
    BY <1>1 DEF TakenOutOnce, Gone
  <2>1. rpc[t] = "remove"
    BY <1>1
  <2>2. chunk[t].data \in 1..Len(length) /\ Gone(chunk[t].data)
    BY <2>1, PassedGives DEF RInv, HeldOnce, TakenOutOnce
  <2>3. \A u \in Receivers : rpc'[u] = "add" => chunk'[u].data # chunk[t].data
    BY <1>1, <2>2 DEF Gone
  <2>4. ASSUME NEW m, m = chunk[t].data PROVE Gone(m)'
    BY <2>2, <2>3, <2>4, GoneOn
  <2>5. QED
    BY <1>1, <2>4 DEF RInv, TakenOutOnce
<1>4. OutOnce'
  <2> DEFINE L == Len(Assembled)
  <2>1. /\ L \in Nat /\ DOMAIN Assembled = 1..L /\ DOMAIN Assembled' = 1..(L + 1)
        /\ Assembled'[L + 1] = ready[r]
        /\ \A i \in 1..L : Assembled'[i] = Assembled[i]
    BY PushAppends
  <2> HIDE DEF L
  <2>2. Pushing' = Pushing \ {r} /\ r \in Pushing
    BY <1>1 DEF Pushing
  <2>3. Results' \subseteq Results
    BY <1>1, <2>1, <2>2 DEF Results
  <2>4. ASSUME NEW x \in Results' PROVE Out(x)'
    <3>1. Out(x)
      BY <2>3 DEF RInv, OutOnce
    <3>2. \A t \in Receivers : rpc'[t] = "add" => chunk'[t].data # x[1]
      BY <1>1, <3>1 DEF Out, Gone
    <3>3. QED
      BY <1>1, <3>1, <3>2, OutOn DEF Out
  <2>5. ASSUME NEW i \in DOMAIN Assembled', NEW j \in DOMAIN Assembled', i # j
        PROVE  Assembled'[i][1] # Assembled'[j][1]
    <3>1. \A k \in 1..L : Assembled[k][1] # ready[r][1]
      BY <2>1, <2>2 DEF RInv, OutOnce
    <3>2. (i \in 1..L \/ i = L + 1) /\ (j \in 1..L \/ j = L + 1)
      BY <2>1
    <3>3. QED
      BY <2>1, <2>5, <3>1, <3>2 DEF RInv, OutOnce
  <2>6. ASSUME NEW t \in Pushing', NEW i \in DOMAIN Assembled'
        PROVE  Assembled'[i][1] # ready[t][1]
    <3>1. t \in Pushing /\ t # r
      BY <2>2
    <3>2. ready[t][1] # ready[r][1]
      BY <2>2, <3>1 DEF RInv, OutOnce
    <3>3. \A k \in 1..L : Assembled[k][1] # ready[t][1]
      BY <2>1, <3>1 DEF RInv, OutOnce
    <3>4. i \in 1..L \/ i = L + 1
      BY <2>1
    <3>5. QED
      BY <2>1, <3>2, <3>3, <3>4
  <2>7. \A t \in Pushing' : /\ ready[t][1] = chunk[t].data
                            /\ \A u \in Pushing' : u # t => ready[u][1] # ready[t][1]
    BY <2>2 DEF RInv, OutOnce
  <2>8. QED
    BY <1>1, <2>4, <2>5, <2>6, <2>7 DEF OutOnce
<1>5. QED
  BY <1>2, <1>3, <1>4 DEF RInv


\* The places of a group that have their chunk.
Filled(h) == {i \in Places(h) : h.chunks[i] # NoMsg}

\* A chunk always finds its place, and the place is free.
LEMMA AddGives ==
    ASSUME TInv, WInv, RInv, NEW r \in Receivers, AddChunk(r)
    PROVE  LET c == chunk[r]
               h == GroupOf(c)
               g == Placed(h, c)
           IN  /\ Passed(c) /\ GroupTyped(h) /\ h.group_length = c.group_length
               /\ c.index \in Places(h) /\ h.chunks[c.index] = NoMsg
               /\ h.size = Cardinality(Filled(h))
               /\ \A i \in Filled(h) :
                      /\ h.chunks[i] = c.data
                      /\ Passed([group |-> c.group, index |-> i,
                                 group_length |-> c.group_length, data |-> c.data])
               /\ GroupTyped(g) /\ Places(g) = Places(h) /\ g.size = h.size + 1
               /\ g.group_length = h.group_length
               /\ g.chunks[c.index] = c.data
               /\ \A i \in Places(h) : i # c.index => g.chunks[i] = h.chunks[i]
               /\ DOMAIN chunk_groups' = DOMAIN chunk_groups \cup {c.group}
               /\ chunk_groups'[c.group] = g
               /\ \A k \in DOMAIN chunk_groups : k # c.group =>
                      chunk_groups'[k] = chunk_groups[k]
               /\ rpc[r] = "add"
               /\ rpc'[r] = IF g.size = g.group_length THEN "remove" ELSE "clean"
               /\ \A t \in Receivers : t # r => rpc'[t] = rpc[t]
               /\ chunk' = chunk /\ ready' = ready /\ Assembled' = Assembled
               /\ pos' = pos /\ wire' = wire /\ length' = length
<1> DEFINE c == chunk[r]
           h == GroupOf(c)
           g == Placed(h, c)
<1>1. rpc[r] = "add" /\ Passed(c)
  BY DEF AddChunk, RInv, HeldOnce
<1>2. /\ c \in Chunks /\ c.index \in Nat /\ c.group_length \in Nat
      /\ c.index < c.group_length /\ c.data # NoMsg
  BY <1>1, PassedGives
<1>3. GroupTyped(h)
  BY <1>2, GroupOfGives DEF TInv
<1>4. /\ h.group_length = c.group_length /\ h.chunks[c.index] = NoMsg
      /\ h.size = Cardinality(Filled(h))
      /\ \A i \in Filled(h) :
             /\ h.chunks[i] = c.data
             /\ Passed([group |-> c.group, index |-> i,
                        group_length |-> c.group_length, data |-> c.data])
  <2>1. CASE c.group \in DOMAIN chunk_groups
    <3>1. h = chunk_groups[c.group]
      BY <2>1, <1>2, GroupOfGives DEF TInv
    <3>2. h.chunks[c.index] = NoMsg
      BY <1>1, <2>1, <3>1 DEF RInv, HeldOnce
    <3>3. h.size = Cardinality(Filled(h))
      BY <2>1, <3>1 DEF RInv, SizesRight, Filled
    <3>4. /\ h.group_length = c.group_length
          /\ \A i \in Places(h) : h.chunks[i] \in {NoMsg, c.data}
          /\ \A i \in Places(h) : h.chunks[i] = c.data =>
                 Passed([group |-> c.group, index |-> i,
                         group_length |-> c.group_length, data |-> c.data])
      BY <1>1, <2>1, <3>1, SlotGives
    <3>5. QED
      BY <3>2, <3>3, <3>4 DEF Filled
  <2>2. CASE c.group \notin DOMAIN chunk_groups
    <3>1. /\ h.group_length = c.group_length /\ h.size = 0
          /\ h.chunks = [i \in 0..(c.group_length - 1) |-> NoMsg]
      BY <1>2, <2>2, GroupOfGives DEF TInv
    <3>2. \A i \in Places(h) : h.chunks[i] = NoMsg
      BY <3>1 DEF Places
    <3>3. Filled(h) = {}
      BY <3>2 DEF Filled
    <3>4. c.index \in 0..(c.group_length - 1)
      BY <1>2
    <3>5. QED
      BY <3>1, <3>3, <3>4, FS_EmptySet
  <2>3. QED
    BY <2>1, <2>2
<1>5. c.index < h.group_length /\ c.index \in Places(h)
  BY <1>2, <1>4 DEF Places
<1>6. /\ GroupTyped(g) /\ g.size = h.size + 1 /\ g.group_length = h.group_length
      /\ g.chunks = [h.chunks EXCEPT ![c.index] = c.data]
  BY <1>2, <1>3, <1>5, PlacedGives
<1>7. /\ Places(g) = Places(h) /\ g.chunks[c.index] = c.data
      /\ \A i \in Places(h) : i # c.index => g.chunks[i] = h.chunks[i]
  BY <1>3, <1>5, <1>6 DEF Places, GroupTyped
<1>8. /\ chunk_groups' = [k \in DOMAIN chunk_groups \cup {c.group} |->
                             IF k = c.group THEN g ELSE chunk_groups[k]]
      /\ rpc' = [rpc EXCEPT ![r] = IF IsComplete(g) THEN "remove" ELSE "clean"]
  BY <1>5 DEF AddChunk
<1>9. /\ chunk' = chunk /\ ready' = ready /\ Assembled' = Assembled
      /\ pos' = pos /\ wire' = wire /\ length' = length
  BY DEF AddChunk, Assembled, svars
<1>10. /\ rpc'[r] = IF g.size = g.group_length THEN "remove" ELSE "clean"
       /\ \A t \in Receivers : t # r => rpc'[t] = rpc[t]
  BY <1>8 DEF IsComplete, TInv, ReceiversTyped
<1>11. /\ DOMAIN chunk_groups' = DOMAIN chunk_groups \cup {c.group}
       /\ chunk_groups'[c.group] = g
       /\ \A k \in DOMAIN chunk_groups : k # c.group => chunk_groups'[k] = chunk_groups[k]
  <2> HIDE DEF g
  <2> QED
    BY <1>8
<1> HIDE DEF g, h
<1>12. QED
  BY <1>1, <1>3, <1>4, <1>5, <1>6, <1>7, <1>9, <1>10, <1>11 DEF g, h

LEMMA PlacesCounted ==
    ASSUME NEW n \in Nat PROVE IsFiniteSet(0..(n - 1)) /\ Cardinality(0..(n - 1)) = n
<1>1. n - 1 \in Int
  OBVIOUS
<1>2. /\ IsFiniteSet(0..(n - 1))
      /\ Cardinality(0..(n - 1)) = IF 0 > n - 1 THEN 0 ELSE n - 1 - 0 + 1
  BY <1>1, FS_Interval
<1>3. QED
  BY <1>2

\* A group that becomes complete has every chunk of its message.
LEMMA CompleteGives ==
    ASSUME TInv, WInv, RInv, NEW r \in Receivers, AddChunk(r)
    PROVE  LET g == Placed(GroupOf(chunk[r]), chunk[r])
           IN  /\ g.size = Cardinality(Filled(g))
               /\ g.size = g.group_length => Filled(g) = Places(g)
<1> DEFINE c == chunk[r]
           h == GroupOf(c)
           g == Placed(h, c)
<1>1. /\ Passed(c) /\ h.group_length = c.group_length
      /\ c.index \in Places(h) /\ h.chunks[c.index] = NoMsg
      /\ h.size = Cardinality(Filled(h))
      /\ Places(g) = Places(h) /\ g.size = h.size + 1
      /\ g.group_length = h.group_length /\ g.chunks[c.index] = c.data
      /\ \A i \in Places(h) : i # c.index => g.chunks[i] = h.chunks[i]
  BY AddGives
<1>2. c.data # NoMsg /\ c.group_length \in Nat
  BY <1>1, PassedGives
<1> HIDE DEF g, h, c
<1>3. /\ IsFiniteSet(Places(h)) /\ Cardinality(Places(h)) = h.group_length
  <2>1. h.group_length \in Nat
    BY <1>1, <1>2
  <2>2. QED
    BY <2>1, PlacesCounted DEF Places
<1>4. Filled(h) \in SUBSET Places(h) /\ Filled(g) \in SUBSET Places(h)
  BY <1>1 DEF Filled
<1>5. IsFiniteSet(Filled(h)) /\ c.index \notin Filled(h)
  BY <1>1, <1>3, <1>4, FS_Subset DEF Filled
<1>6. Filled(g) = Filled(h) \cup {c.index}
  BY <1>1, <1>2 DEF Filled
<1>7. g.size = Cardinality(Filled(g))
  BY <1>1, <1>5, <1>6, FS_AddElement
<1>8. ASSUME g.size = g.group_length PROVE Filled(g) = Places(g)
  <2>1. Cardinality(Places(h)) = Cardinality(Filled(g))
    BY <1>1, <1>3, <1>7, <1>8
  <2>2. QED
    BY <1>1, <1>3, <1>4, <2>1, FS_Subset
<1>9. QED
  BY <1>7, <1>8 DEF g, h, c

\* A chunk goes to its place in the map.
LEMMA AddChunkKeeps ==
    ASSUME TInv, TInv', WInv, Onwards, RInv, NEW r \in Receivers, AddChunk(r)
    PROVE  RInv'
<1> DEFINE c == chunk[r]
           h == GroupOf(c)
           g == Placed(h, c)
           D == DOMAIN chunk_groups
<1>1. /\ Passed(c) /\ GroupTyped(h) /\ h.group_length = c.group_length
      /\ c.index \in Places(h) /\ h.chunks[c.index] = NoMsg
      /\ \A i \in Filled(h) :
             /\ h.chunks[i] = c.data
             /\ Passed([group |-> c.group, index |-> i,
                        group_length |-> c.group_length, data |-> c.data])
      /\ GroupTyped(g) /\ Places(g) = Places(h)
      /\ g.group_length = h.group_length /\ g.chunks[c.index] = c.data
      /\ \A i \in Places(h) : i # c.index => g.chunks[i] = h.chunks[i]
  BY AddGives
<1>2. /\ DOMAIN chunk_groups' = D \cup {c.group} /\ chunk_groups'[c.group] = g
      /\ \A k \in D : k # c.group => chunk_groups'[k] = chunk_groups[k]
  BY AddGives
<1>3. /\ rpc[r] = "add"
      /\ rpc'[r] = IF g.size = g.group_length THEN "remove" ELSE "clean"
      /\ \A t \in Receivers : t # r => rpc'[t] = rpc[t]
      /\ chunk' = chunk /\ ready' = ready /\ Assembled' = Assembled
      /\ pos' = pos /\ wire' = wire /\ length' = length
  BY AddGives
<1>4. /\ g.size = Cardinality(Filled(g))
      /\ g.size = g.group_length => Filled(g) = Places(g)
  BY CompleteGives
<1>5. /\ c \in Chunks /\ c.data \in 1..Len(length) /\ c.group_length = length[c.data]
      /\ c.group_length \in Nat /\ c.data # NoMsg /\ c.index \in Nat
      /\ c = [group |-> c.group, index |-> c.index,
              group_length |-> c.group_length, data |-> c.data]
  BY <1>1, PassedGives, ChunkTyped
<1>6. c.group \in D => h = chunk_groups[c.group]
  BY <1>5, GroupOfGives DEF TInv
<1> HIDE DEF g, h, c, D
\* What the new group holds.
<1>7. ASSUME NEW i \in Places(g), g.chunks[i] # NoMsg
      PROVE  /\ g.chunks[i] = c.data
             /\ Passed([group |-> c.group, index |-> i,
                        group_length |-> c.group_length, data |-> c.data])
  <2>1. CASE i = c.index
    BY <1>1, <1>5, <2>1
  <2>2. CASE i # c.index
    BY <1>1, <1>7, <2>2 DEF Filled
  <2>3. QED
    BY <2>1, <2>2
\* The chunks that other receivers have yet to add go to other places.
<1>8. ASSUME NEW t \in Receivers, t # r, rpc[t] = "add", chunk[t].group = c.group
      PROVE  /\ chunk[t].data = c.data /\ chunk[t].index \in Places(g)
             /\ chunk[t].index # c.index
             /\ g.chunks[chunk[t].index] = NoMsg
  <2>1. Passed(chunk[t]) /\ chunk[t] # c
    BY <1>3, <1>8 DEF RInv, HeldOnce, c
  <2>2. chunk[t].data = c.data /\ chunk[t].group_length = c.group_length
    BY <1>1, <1>8, <2>1, PassedAgree
  <2>3. chunk[t].index \in Places(g)
    BY <1>1, <2>1, <2>2, PassedGives DEF Places
  <2>4. chunk[t].index # c.index
    BY <1>1, <2>1, <2>2, PassedAgree
  <2>5. h.chunks[chunk[t].index] = NoMsg
    <3>1. CASE c.group \in D
      BY <1>6, <1>8, <3>1 DEF RInv, HeldOnce, D
    <3>2. CASE c.group \notin D
      <4>1. h.chunks = [i \in 0..(c.group_length - 1) |-> NoMsg]
        BY <1>5, <3>2, GroupOfGives DEF TInv, h, D
      <4>2. QED
        BY <1>1, <2>3, <4>1 DEF Places
    <3>3. QED
      BY <3>1, <3>2
  <2>6. QED
    BY <1>1, <2>2, <2>3, <2>4, <2>5
<1>9. HeldOnce'
  <2> SUFFICES ASSUME NEW t \in Receivers
               PROVE  /\ rpc'[t] \in {"add", "remove", "push"} =>
                             \E i \in 1..pos : wire[i] = chunk[t]
                      /\ rpc'[t] = "add" =>
                             /\ \A u \in Receivers :
                                    u # t /\ rpc'[u] = "add" => chunk[u] # chunk[t]
                             /\ chunk[t].group \in DOMAIN chunk_groups' =>
                                    chunk_groups'[chunk[t].group].chunks[chunk[t].index]
                                        = NoMsg
    BY <1>3 DEF HeldOnce, Passed
  <2>1. CASE t = r
    BY <1>1, <1>3, <2>1 DEF Passed, c
  <2>2. CASE t # r
    <3>1. rpc'[t] = rpc[t] /\ \A u \in Receivers : rpc'[u] = "add" => rpc[u] = "add"
      BY <1>3, <2>2
    <3>2. rpc[t] \in {"add", "remove", "push"} => \E i \in 1..pos : wire[i] = chunk[t]
      BY DEF RInv, HeldOnce, Passed
    <3>3. ASSUME rpc[t] = "add", chunk[t].group \in DOMAIN chunk_groups'
          PROVE  chunk_groups'[chunk[t].group].chunks[chunk[t].index] = NoMsg
      <4>1. CASE chunk[t].group = c.group
        BY <1>2, <1>8, <2>2, <3>3, <4>1
      <4>2. CASE chunk[t].group # c.group
        BY <1>2, <3>3, <4>2 DEF RInv, HeldOnce, D
      <4>3. QED
        BY <4>1, <4>2
    <3>4. QED
      BY <3>1, <3>2, <3>3 DEF RInv, HeldOnce
  <2>3. QED
    BY <2>1, <2>2
<1>10. PlacedRight'
  <2> SUFFICES ASSUME NEW k \in DOMAIN chunk_groups'
               PROVE  /\ \E i \in Places(chunk_groups'[k]) :
                             chunk_groups'[k].chunks[i] # NoMsg
                      /\ \A i \in Places(chunk_groups'[k]) :
                             chunk_groups'[k].chunks[i] # NoMsg =>
                                 Passed([group |-> k, index |-> i,
                                         group_length |-> chunk_groups'[k].group_length,
                                         data |-> chunk_groups'[k].chunks[i]])
    BY <1>3 DEF PlacedRight, Passed, Places
  <2>1. CASE k = c.group
    <3>1. \E i \in Places(g) : g.chunks[i] # NoMsg
      BY <1>1, <1>5
    <3>2. QED
      BY <1>1, <1>2, <1>7, <2>1, <3>1
  <2>2. CASE k # c.group
    <3>1. k \in D /\ chunk_groups'[k] = chunk_groups[k]
      BY <1>2, <2>2
    <3>2. QED
      BY <3>1 DEF RInv, PlacedRight, D
  <2>3. QED
    BY <2>1, <2>2
<1>11. ASSUME NEW m \in 1..Len(length), Gone(m) PROVE Gone(m)' /\ m # c.data
  <2>1. \A t \in Receivers : rpc'[t] = "add" => chunk'[t].data # m
    BY <1>3, <1>11 DEF Gone
  <2>2. QED
    BY <1>3, <1>11, <2>1, GoneOn DEF Gone, c
<1>12. ASSUME rpc'[r] = "remove" PROVE Gone(c.data)'
  <2>1. Filled(g) = Places(g)
    BY <1>3, <1>4, <1>12
  <2>2. ASSUME NEW k \in 0..(length[c.data] - 1)
        PROVE  \E i \in 1..pos : wire[i].data = c.data /\ wire[i].index = k
    <3>1. k \in Places(g) /\ g.chunks[k] # NoMsg
      BY <1>1, <1>5, <2>1 DEF Places, Filled
    <3>2. Passed([group |-> c.group, index |-> k,
                  group_length |-> c.group_length, data |-> c.data])
      BY <1>7, <3>1
    <3>3. QED
      BY <3>2 DEF Passed
  <2>3. ASSUME NEW t \in Receivers, rpc'[t] = "add", chunk[t].data = c.data
        PROVE  FALSE
    <3>1. t # r /\ rpc[t] = "add"
      BY <1>3, <1>12, <2>3
    <3>2. Passed(chunk[t])
      BY <3>1 DEF RInv, HeldOnce
    <3>3. chunk[t].group = c.group
      BY <1>1, <2>3, <3>2, PassedAgree
    <3>4. chunk[t].index \in Places(g) /\ g.chunks[chunk[t].index] = NoMsg
      BY <1>8, <3>1, <3>3
    <3>5. QED
      BY <2>1, <3>4 DEF Filled
  <2>4. QED
    BY <1>3, <2>2, <2>3 DEF Gone, c
<1>13. TakenOutOnce'
  <2> SUFFICES ASSUME NEW t \in Receivers, rpc'[t] = "remove"
               PROVE  /\ \A m : m = chunk[t].data => Gone(m)'
                      /\ \A u \in Receivers :
                             u # t /\ rpc'[u] = "remove" => chunk[u].data # chunk[t].data
    BY <1>3 DEF TakenOutOnce, Gone
  <2>1. ASSUME NEW u \in Receivers, u # r, rpc'[u] = "remove"
        PROVE  /\ \A m : m = chunk[u].data => Gone(m)'
               /\ chunk[u].data # c.data
    <3>1. rpc[u] = "remove"
      BY <1>3, <2>1
    <3>2. chunk[u].data \in 1..Len(length) /\ Gone(chunk[u].data)
      BY <3>1, PassedGives DEF RInv, HeldOnce, TakenOutOnce
    <3>3. QED
      BY <1>11, <3>2
  <2>2. CASE t = r
    <3>1. chunk[t] = c
      BY <2>2 DEF c
    <3>2. ASSUME NEW m, m = c.data PROVE Gone(m)'
      BY <1>12, <1>3, <2>2, <3>2 DEF c
    <3>3. QED
      BY <2>1, <2>2, <3>1, <3>2
  <2>3. CASE t # r
    <3>1. rpc[t] = "remove" /\ chunk[t].data # c.data
      BY <1>3, <2>1, <2>3
    <3>2. \A u \in Receivers : u # t /\ rpc'[u] = "remove" => chunk[u].data # chunk[t].data
      BY <1>3, <3>1 DEF RInv, TakenOutOnce, c
    <3>3. QED
      BY <2>1, <2>3, <3>2
  <2>4. QED
    BY <2>2, <2>3
<1>14. OutOnce'
  <2>1. Pushing' = Pushing /\ Results' = Results
    BY <1>3 DEF Pushing, Results
  <2>2. ASSUME NEW x \in Results' PROVE Out(x)'
    <3>1. Out(x)
      BY <2>1 DEF RInv, OutOnce
    <3>2. x[1] \in 1..Len(length) /\ Gone(x[1])
      BY <3>1 DEF Out
    <3>3. Gone(x[1])' /\ x[1] # c.data
      BY <1>11, <3>2
    <3>4. \A t \in Receivers : rpc'[t] = "add" => chunk'[t].data # x[1]
      BY <3>3 DEF Gone
    <3>5. x[1] # NoMsg
      <4>1. Len(length) \in Nat
        BY WireTyped
      <4>2. QED
        BY <3>2, <4>1 DEF NoMsg
    <3>6. ASSUME NEW k \in DOMAIN chunk_groups', NEW i \in Places(chunk_groups'[k])
          PROVE  chunk_groups'[k].chunks[i] # x[1]
      <4>1. CASE k = c.group
        BY <1>2, <1>7, <3>3, <3>5, <3>6, <4>1
      <4>2. CASE k # c.group
        <5>1. k \in D /\ chunk_groups'[k] = chunk_groups[k]
          BY <1>2, <4>2
        <5>2. QED
          BY <3>1, <3>6, <5>1 DEF Out, D
      <4>3. QED
        BY <4>1, <4>2
    <3>7. QED
      BY <3>1, <3>4, <3>6, OutOn
  <2>3. QED
    BY <1>3, <2>1, <2>2 DEF RInv, OutOnce
<1>15. SizesRight'
  <2>1. ASSUME NEW k \in DOMAIN chunk_groups'
        PROVE  chunk_groups'[k].size =
                   Cardinality({i \in Places(chunk_groups'[k]) :
                                    chunk_groups'[k].chunks[i] # NoMsg})
    <3>1. CASE k = c.group
      BY <1>2, <1>4, <3>1 DEF Filled
    <3>2. CASE k # c.group
      <4>1. k \in D /\ chunk_groups'[k] = chunk_groups[k]
        BY <1>2, <3>2
      <4>2. QED
        BY <4>1 DEF RInv, SizesRight, D
    <3>3. QED
      BY <3>1, <3>2
  <2>2. ASSUME NEW t \in Receivers, rpc'[t] = "remove",
               chunk[t].group \in DOMAIN chunk_groups'
        PROVE  NoMsg \notin Range(chunk_groups'[chunk[t].group].chunks)
    <3>1. CASE t = r
      <4>1. Filled(g) = Places(g) /\ DOMAIN g.chunks = Places(g)
        BY <1>1, <1>3, <1>4, <2>2, <3>1 DEF GroupTyped, Places
      <4>2. NoMsg \notin Range(g.chunks)
        BY <4>1 DEF Filled, Range
      <4>3. QED
        BY <1>2, <3>1, <4>2 DEF c
    <3>2. CASE t # r
      <4>1. rpc[t] = "remove" /\ Passed(chunk[t]) /\ Gone(chunk[t].data)
        BY <1>3, <2>2, <3>2 DEF RInv, HeldOnce, TakenOutOnce
      <4>2. chunk[t].data # c.data
        BY <1>3, <4>1 DEF Gone, c
      <4>3. chunk[t].group # c.group
        BY <1>1, <4>1, <4>2, PassedAgree
      <4>4. QED
        BY <1>2, <2>2, <4>1, <4>3 DEF RInv, SizesRight, D
    <3>3. QED
      BY <3>1, <3>2
  <2>3. QED
    BY <1>3, <2>1, <2>2 DEF SizesRight, Places
<1>16. QED
  BY <1>9, <1>10, <1>13, <1>14, <1>15 DEF RInv

\* A complete group is taken out, and it is the whole message.
LEMMA RemoveGives ==
    ASSUME TInv, WInv, RInv, NEW r \in Receivers, RemoveGroup(r),
           chunk[r].group \in DOMAIN chunk_groups
    PROVE  /\ rpc' = [rpc EXCEPT ![r] = "push"]
           /\ ready' = [ready EXCEPT ![r] = Whole(chunk[r].data)]
           /\ Whole(chunk[r].data) # << >>
           /\ Whole(chunk[r].data)[1] = chunk[r].data
           /\ \E i \in Places(chunk_groups[chunk[r].group]) :
                  chunk_groups[chunk[r].group].chunks[i] = chunk[r].data
<1> DEFINE c == chunk[r]
           h == chunk_groups[c.group]
           m == c.data
<1>1. rpc[r] = "remove" /\ Passed(c)
  BY DEF RemoveGroup, RInv, HeldOnce
<1>2. NoMsg \notin Range(h.chunks)
  BY <1>1 DEF RInv, SizesRight
<1>3. /\ rpc' = [rpc EXCEPT ![r] = "push"]
      /\ ready' = [ready EXCEPT ![r] = [i \in 1..h.group_length |-> h.chunks[i - 1]]]
  BY <1>2 DEF RemoveGroup
<1>4. /\ GroupTyped(h) /\ h.group_length = c.group_length
      /\ \A i \in Places(h) : h.chunks[i] \in {NoMsg, m}
  BY <1>1, SlotGives
<1>5. /\ c.group_length = length[m] /\ c.group_length \in Nat /\ c.index \in Nat
      /\ c.index < c.group_length
  BY <1>1, PassedGives
<1> HIDE DEF h, m, c
<1>6. ASSUME NEW i \in Places(h) PROVE h.chunks[i] = m
  <2>1. i \in DOMAIN h.chunks
    BY <1>4 DEF GroupTyped, Places
  <2>2. h.chunks[i] # NoMsg
    BY <1>2, <2>1 DEF Range
  <2>3. QED
    BY <1>4, <2>2
<1>7. [i \in 1..h.group_length |-> h.chunks[i - 1]] = Whole(m)
  <2>1. \A i \in 1..h.group_length : i - 1 \in Places(h)
    BY <1>4, <1>5 DEF Places
  <2>2. QED
    BY <1>4, <1>5, <1>6, <2>1 DEF Whole
<1>8. 0 \in Places(h) /\ 1 \in 1..length[m]
  BY <1>4, <1>5 DEF Places
<1>9. Whole(m)[1] = m /\ Whole(m) # << >>
  BY <1>8 DEF Whole
<1>10. QED
  BY <1>3, <1>6, <1>7, <1>8, <1>9 DEF h, m, c

LEMMA RemoveKeeps ==
    ASSUME TInv, TInv', WInv, Onwards, RInv, NEW r \in Receivers, RemoveGroup(r)
    PROVE  RInv'
<1> DEFINE c == chunk[r]
           m == c.data
           D == DOMAIN chunk_groups
<1>1. /\ DOMAIN chunk_groups' = D \ {c.group}
      /\ \A k \in DOMAIN chunk_groups' : chunk_groups'[k] = chunk_groups[k]
      /\ Assembled' = Assembled /\ chunk' = chunk /\ pos' = pos /\ wire' = wire
  BY DEF RemoveGroup, Restrict, Assembled, svars
<1>2. CASE c.group \notin D
  <2>1. rpc' = [rpc EXCEPT ![r] = "panicked"] /\ ready' = ready
    BY <1>2 DEF RemoveGroup
  <2>2. \A t \in Receivers : rpc'[t] \in {"add", "remove", "push"} => rpc'[t] = rpc[t]
    BY <2>1 DEF TInv, ReceiversTyped
  <2>3. QED
    BY <1>1, <2>1, <2>2, QuietKeeps
<1>3. CASE c.group \in D
  <2>1. /\ rpc[r] = "remove" /\ Passed(c) /\ Gone(m)
        /\ \A t \in Receivers : t # r /\ rpc[t] = "remove" => chunk[t].data # m
    BY DEF RemoveGroup, RInv, HeldOnce, TakenOutOnce
  <2>2. /\ rpc' = [rpc EXCEPT ![r] = "push"]
        /\ ready' = [ready EXCEPT ![r] = Whole(m)]
        /\ Whole(m) # << >> /\ Whole(m)[1] = m
        /\ \E i \in Places(chunk_groups[c.group]) : chunk_groups[c.group].chunks[i] = m
    BY <1>3, RemoveGives
  <2>3. /\ rpc'[r] = "push" /\ ready'[r] = Whole(m)
        /\ \A t \in Receivers : t # r => rpc'[t] = rpc[t] /\ ready'[t] = ready[t]
    BY <2>2 DEF TInv, ReceiversTyped
  <2>4. m \in 1..Len(length) /\ Len(length) \in Nat
    BY <2>1, PassedGives, WireTyped
  <2> HIDE DEF c, m, D
  <2>5. ASSUME NEW n \in 1..Len(length), Gone(n) PROVE Gone(n)'
    <3>1. \A t \in Receivers : rpc'[t] = "add" => chunk'[t].data # n
      BY <1>1, <2>3, <2>5 DEF Gone
    <3>2. QED
      BY <2>5, <3>1, GoneOn
  <2>6. HeldOnce'
    <3> SUFFICES ASSUME NEW t \in Receivers
                 PROVE  /\ rpc'[t] \in {"add", "remove", "push"} =>
                               \E i \in 1..pos : wire[i] = chunk[t]
                        /\ rpc'[t] = "add" =>
                               /\ \A u \in Receivers :
                                      u # t /\ rpc'[u] = "add" => chunk[u] # chunk[t]
                               /\ chunk[t].group \in DOMAIN chunk_groups' =>
                                      chunk_groups'[chunk[t].group].chunks[chunk[t].index]
                                          = NoMsg
      BY <1>1 DEF HeldOnce, Passed
    <3>1. \E i \in 1..pos : wire[i] = chunk[r]
      BY <2>1 DEF Passed, c
    <3>2. QED
      BY <1>1, <2>3, <3>1 DEF RInv, HeldOnce, Passed, D
  <2>7. PlacedRight' /\ SizesRight'
    BY <1>1, <2>3 DEF RInv, PlacedRight, SizesRight, Passed, Places, D
  <2>8. TakenOutOnce'
    <3> SUFFICES ASSUME NEW t \in Receivers, rpc'[t] = "remove"
                 PROVE  /\ \A n : n = chunk[t].data => Gone(n)'
                        /\ \A u \in Receivers :
                               u # t /\ rpc'[u] = "remove" => chunk[u].data # chunk[t].data
      BY <1>1 DEF TakenOutOnce, Gone
    <3>1. rpc[t] = "remove" /\ \A u \in Receivers : rpc'[u] = "remove" => rpc[u] = "remove"
      BY <2>3
    <3>2. chunk[t].data \in 1..Len(length) /\ Gone(chunk[t].data)
      BY <3>1, PassedGives DEF RInv, HeldOnce, TakenOutOnce
    <3>3. ASSUME NEW n, n = chunk[t].data PROVE Gone(n)'
      BY <2>5, <3>2, <3>3
    <3>4. QED
      BY <3>1, <3>3 DEF RInv, TakenOutOnce
  \* Of the message that is taken out, nothing is left in the map.
  <2>9. ASSUME NEW k \in DOMAIN chunk_groups', NEW i \in Places(chunk_groups'[k])
        PROVE  chunk_groups'[k].chunks[i] # m
    <3> SUFFICES ASSUME chunk_groups'[k].chunks[i] = m PROVE FALSE
      OBVIOUS
    <3>1. k \in D /\ k # c.group /\ chunk_groups'[k] = chunk_groups[k]
      BY <1>1
    <3>2. m # NoMsg
      BY <2>4 DEF NoMsg
    <3>3. Passed([group |-> k, index |-> i,
                  group_length |-> chunk_groups[k].group_length, data |-> m])
      BY <2>9, <3>1, <3>2 DEF RInv, PlacedRight, D
    <3>4. k = c.group
      BY <2>1, <3>3, PassedAgree DEF m
    <3>5. QED
      BY <3>1, <3>4
  \* And nothing that is out already is that message.
  <2>10. ASSUME NEW x \in Results PROVE x[1] # m
    <3>1. Out(x)
      BY <2>10 DEF RInv, OutOnce
    <3>2. QED
      BY <1>3, <2>2, <3>1 DEF Out, D
  <2>11. OutOnce'
    <3>1. Pushing' = Pushing \cup {r} /\ r \notin Pushing
      <4>1. r \notin Pushing
        BY <2>1 DEF Pushing
      <4>2. QED
        BY <2>3, <4>1 DEF Pushing
    <3>2. \A t \in Pushing : t # r /\ ready'[t] = ready[t]
      BY <2>3, <3>1 DEF Pushing
    <3>3. Results' = Results \cup {Whole(m)}
      BY <1>1, <2>3, <3>1, <3>2 DEF Results
    <3>4. ASSUME NEW x \in Results' PROVE Out(x)'
      <4>1. CASE x \in Results
        <5>1. Out(x)
          BY <4>1 DEF RInv, OutOnce
        <5>2. \A t \in Receivers : rpc'[t] = "add" => chunk'[t].data # x[1]
          BY <1>1, <2>3, <5>1 DEF Out, Gone
        <5>3. \A k \in DOMAIN chunk_groups' : \A i \in Places(chunk_groups'[k]) :
                  chunk_groups'[k].chunks[i] # x[1]
          BY <1>1, <5>1 DEF Out, D
        <5>4. QED
          BY <5>1, <5>2, <5>3, OutOn
      <4>2. CASE x = Whole(m)
        <5>1. x # << >> /\ x[1] = m
          BY <2>2, <4>2
        <5>2. length' = length
          BY DEF RemoveGroup, svars
        <5>3. x = Whole(x[1])'
          BY <4>2, <5>1, <5>2 DEF Whole
        <5>4. Gone(x[1])'
          BY <2>1, <2>4, <2>5, <5>1
        <5>5. QED
          BY <2>4, <2>9, <5>1, <5>2, <5>3, <5>4 DEF Out, Places
      <4>3. QED
        BY <3>3, <3>4, <4>1, <4>2
    <3>5. \A i, j \in DOMAIN Assembled' : i # j => Assembled'[i][1] # Assembled'[j][1]
      BY <1>1 DEF RInv, OutOnce
    <3>6. \A i \in DOMAIN Assembled : Assembled[i] \in Results
      BY DEF Results
    <3>7. \A t \in Pushing : ready[t] \in Results
      BY DEF Results
    <3>8. ready'[r][1] = m /\ \A i \in DOMAIN Assembled : Assembled[i][1] # m
      BY <2>2, <2>3, <2>10, <3>6
    <3>9. ASSUME NEW t \in Pushing'
          PROVE  /\ ready'[t][1] = chunk'[t].data
                 /\ \A i \in DOMAIN Assembled' : Assembled'[i][1] # ready'[t][1]
                 /\ \A u \in Pushing' : u # t => ready'[u][1] # ready'[t][1]
      <4>1. CASE t = r
        <5>1. ready'[t][1] = chunk'[t].data
          BY <1>1, <3>8, <4>1 DEF m, c
        <5>2. \A u \in Pushing' : u # t => ready'[u][1] # ready'[t][1]
          BY <2>10, <3>1, <3>2, <3>7, <3>8, <4>1
        <5>3. QED
          BY <1>1, <3>8, <4>1, <5>1, <5>2
      <4>2. CASE t \in Pushing
        <5>1. ready[t][1] # m /\ ready'[t] = ready[t]
          BY <2>10, <3>2, <3>7, <4>2
        <5>2. QED
          BY <1>1, <3>1, <3>2, <3>8, <4>2, <5>1 DEF RInv, OutOnce
      <4>3. QED
        BY <3>1, <3>9, <4>1, <4>2
    <3>10. QED
      BY <3>4, <3>5, <3>9 DEF OutOnce
  <2>12. QED
    BY <2>6, <2>7, <2>8, <2>11 DEF RInv
<1>4. QED
  BY <1>2, <1>3

LEMMA NextRouted ==
    ASSUME TInv, WInv, RInv, [Next]_vars PROVE RInv'
<1>1. TInv' /\ Onwards
  BY NextTyped, EveryStepOnwards
<1>2. CASE UNCHANGED rvars
  BY <1>1, <1>2, QuietKeeps DEF rvars, Assembled
<1>3. ASSUME NEW s \in Senders, Sending(s) \/ SendDropped(s) PROVE UNCHANGED rvars
  BY <1>3 DEF Sending, ReadGroup, WriteGroup, SendChunk, SendReturns, SendDropped, rvars
<1>4. ASSUME NEW r \in Receivers, Receiving(r) \/ RecvDropped(r) PROVE RInv'
  <2>1. CASE NextReady(r)
    <3>1. Assembled' = Assembled
      BY <1>1, <2>1, NextReadyKeeps
    <3>2. /\ \A t \in Receivers : rpc'[t] \in {"add", "remove", "push"} => rpc'[t] = rpc[t]
          /\ chunk' = chunk /\ ready' = ready /\ chunk_groups' = chunk_groups
      BY <2>1 DEF NextReady, TInv, ReceiversTyped
    <3>3. QED
      BY <1>1, <3>1, <3>2, QuietKeeps
  <2>2. CASE DelegateRecv(r)
    BY <1>1, <2>2, DelegateRecvKeeps
  <2>3. CASE DelegateFails(r) \/ RecvDropped(r)
    <3>1. /\ \A t \in Receivers : rpc'[t] \in {"add", "remove", "push"} => rpc'[t] = rpc[t]
          /\ chunk' = chunk /\ ready' = ready /\ chunk_groups' = chunk_groups
          /\ Assembled' = Assembled
      BY <2>3 DEF DelegateFails, RecvDropped, TInv, ReceiversTyped, Assembled
    <3>2. QED
      BY <1>1, <3>1, QuietKeeps
  <2>4. CASE AddChunk(r)
    BY <1>1, <2>4, AddChunkKeeps
  <2>5. CASE RemoveGroup(r)
    BY <1>1, <2>5, RemoveKeeps
  <2>6. CASE PushCompleted(r)
    BY <1>1, <2>6, PushKeeps
  <2>7. CASE CleanUp(r)
    <3>1. /\ \A t \in Receivers : rpc'[t] \in {"add", "remove", "push"} => rpc'[t] = rpc[t]
          /\ chunk' = chunk /\ ready' = ready /\ Assembled' = Assembled
      BY <2>7 DEF CleanUp, TInv, ReceiversTyped, Assembled
    <3>2. /\ DOMAIN chunk_groups' \subseteq DOMAIN chunk_groups
          /\ \A g \in DOMAIN chunk_groups' : chunk_groups'[g] = chunk_groups[g]
      BY <2>7 DEF CleanUp, Restrict
    <3>3. QED
      BY <1>1, <3>1, <3>2, QuietKeeps
  <2>8. QED
    BY <1>4, <2>1, <2>2, <2>3, <2>4, <2>5, <2>6, <2>7 DEF Receiving
<1>5. Active \subseteq Receivers
  BY BoundsAssumption DEF TInv, Active, Receivers
<1>6. QED
  BY <1>2, <1>3, <1>4, <1>5 DEF Next, vars

LEMMA NextWire ==
    ASSUME OneSender, TInv, WInv, [Next]_vars PROVE WInv'
<1>1. CASE UNCHANGED svars
  BY <1>1, ReceivingWire
<1>2. ASSUME NEW r, Receiving(r) \/ RecvDropped(r) PROVE UNCHANGED svars
  BY <1>2 DEF Receiving, NextReady, DelegateRecv, DelegateFails, AddChunk, RemoveGroup,
     PushCompleted, CleanUp, RecvDropped
<1>3. QED
  BY <1>1, <1>2, SendingWire DEF Next, vars

LEMMA InitRouted == Init => WInv /\ RInv
<1> SUFFICES ASSUME Init PROVE WInv /\ RInv
  OBVIOUS
<1>1. WInv
  BY DEF Init, WInv, WireOrdered, WireLengths, AtTheEnd
<1>2. /\ DOMAIN chunk_groups = {} /\ Pushing = {}
      /\ \A r \in Receivers : rpc[r] = "idle"
  BY DEF Init, Pushing
<1>3. Assembled = << >>
  <2>1. received = << >> /\ completed_chunks = << >>
    BY DEF Init
  <2>2. << >> \in Seq(Data)
    OBVIOUS
  <2>3. QED
    BY <2>1, <2>2, ConcatEmptySeq DEF Assembled
<1>4. DOMAIN Assembled = {} /\ Results = {}
  BY <1>2, <1>3 DEF Results
<1>5. QED
  BY <1>1, <1>2, <1>4
  DEF RInv, HeldOnce, PlacedRight, TakenOutOnce, OutOnce, SizesRight

\* The invariant of one sender and any number of receivers.
LEMMA Routed == ASSUME OneSender PROVE Spec => [](TInv /\ WInv /\ RInv)
<1>1. TInv /\ WInv /\ RInv /\ [Next]_vars => (TInv /\ WInv /\ RInv)'
  BY NextTyped, NextWire, NextRouted
<1>2. QED
  BY <1>1, InitTyped, InitRouted, PTL DEF Spec

-----------------------------------------------------------------------------
\* One sender: the channel, and what comes out.

\* The state of the abstract channel.
Sent == {[nonce |-> m, data |-> Whole(m)] : m \in DOMAIN length}
Delivered == [i \in DOMAIN Assembled |->
                 [nonce |-> Assembled[i][1], data |-> Assembled[i]]]

LEMMA SentTyped ==
    ASSUME TInv
    PROVE  /\ DOMAIN length = 1..Len(length) /\ Sent \subseteq Channel!Messages
           /\ \A m \in 1..Len(length) : m \in Msgs /\ length[m] \in Lengths
<1>1. length \in Seq(Lengths) /\ Len(length) \in Nat /\ Len(length) <= MaxSends
  BY DEF TInv, SendersTyped, Counted
<1>2. DOMAIN length = 1..Len(length) /\ \A m \in 1..Len(length) : length[m] \in Lengths
  BY <1>1
<1>3. \A m \in 1..Len(length) : m \in Msgs
  BY <1>1, BoundsAssumption DEF Msgs
<1>4. \A m \in 1..Len(length) :
          Whole(m) \in {[i \in 1..n |-> k] : n \in Lengths, k \in Msgs}
  BY <1>2, <1>3 DEF Whole
<1>5. QED
  BY <1>2, <1>3, <1>4 DEF Sent, Channel!Messages

\* Over whole messages the Chunker is again an at-most-once lossy channel,
\* whatever is lost, dropped or evicted, with any number of receiving tasks.
\* That is so while one task sends: two may take the same group number.
THEOREM ChunkerImplementsChannel == ASSUME OneSender PROVE Spec => ImplementsChannel
<1>1. Init => Channel!Init
  <2> SUFFICES ASSUME Init PROVE Channel!Init
    OBVIOUS
  <2>1. Assembled = << >>
    <3>1. received = << >> /\ completed_chunks = << >>
      BY DEF Init
    <3>2. << >> \in Seq(Data)
      OBVIOUS
    <3>3. QED
      BY <3>1, <3>2, ConcatEmptySeq DEF Assembled
  <2>2. length = << >>
    BY DEF Init
  <2>3. Sent = {} /\ Delivered = << >>
    BY <2>1, <2>2 DEF Sent, Delivered
  <2>4. QED
    BY <2>3 DEF Channel!Init, Sent, Delivered
<1>2. TInv /\ WInv /\ RInv /\ [Next]_vars => [Channel!Next]_Channel!vars
  <2> SUFFICES ASSUME TInv, WInv, RInv, [Next]_vars
               PROVE  [Channel!Next]_Channel!vars
    OBVIOUS
  <2>1. TInv'
    BY NextTyped
  <2>2. CASE length' = length /\ Assembled' = Assembled
    BY <2>2 DEF Channel!vars, Whole
  \* A message is sent when its number is taken.
  <2>3. ASSUME NEW s \in Senders, ReadGroup(s) PROVE Channel!Next
    <3>1. PICK k \in Lengths : length' = Append(length, k)
      BY <2>3 DEF ReadGroup
    <3>n. PICK n : n = Len(length) + 1
      OBVIOUS
    <3>m. PICK m : m = [nonce |-> n, data |-> [i \in 1..k |-> n]]
      OBVIOUS
    <3>2. /\ Len(length') = n /\ \A i \in 1..Len(length) : length'[i] = length[i]
      BY <3>1, <3>n, AppendGives DEF TInv, SendersTyped
    <3>3. Len(length) \in Nat
      BY WireTyped
    <3>4. DOMAIN length = 1..Len(length) /\ DOMAIN length' = 1..n
      BY <2>1, <3>2, SentTyped DEF TInv, SendersTyped
    <3>5. \A i \in 1..Len(length) : Whole(i)' = Whole(i)
      BY <3>2 DEF Whole
    <3>6. 1..n = 1..Len(length) \cup {n}
      BY <3>3, <3>n
    <3>w. Whole(n)' = [i \in 1..k |-> n]
      <4>1. length'[n] = k
        BY <3>1, <3>n, AppendGives DEF TInv, SendersTyped
      <4>2. QED
        BY <4>1 DEF Whole
    <3>7. Sent' = Sent \cup {m}
      <4>1. Sent' = {[nonce |-> i, data |-> Whole(i)'] : i \in DOMAIN length'}
        BY DEF Sent
      <4>2. {[nonce |-> i, data |-> Whole(i)'] : i \in 1..Len(length)} = Sent
        BY <3>4, <3>5 DEF Sent
      <4>3. QED
        BY <3>4, <3>6, <3>m, <3>w, <4>1, <4>2
    <3>8. \A x \in Sent : x.nonce < m.nonce
      BY <3>3, <3>4, <3>n, <3>m DEF Sent
    <3>9. Assembled' = Assembled
      BY <2>3 DEF ReadGroup, rvars, Assembled
    <3>10. m \in Channel!Messages
      <4>1. n \in Msgs
        BY <2>3, <3>3, <3>n, BoundsAssumption DEF ReadGroup, Msgs
      <4>2. [i \in 1..k |-> n] \in {[i \in 1..l |-> j] : l \in Lengths, j \in Msgs}
        BY <4>1
      <4>3. QED
        BY <3>m, <4>1, <4>2 DEF Channel!Messages
    <3>11. Delivered' = Delivered
      BY <3>9 DEF Delivered
    <3>12. Channel!Send(m)
      BY <3>7, <3>8, <3>11 DEF Channel!Send, Sent, Delivered
    <3>13. QED
      BY <3>10, <3>12 DEF Channel!Next
  \* It is delivered when it is queued.
  <2>4. ASSUME NEW r \in Receivers, PushCompleted(r) PROVE Channel!Next
    <3> DEFINE L == Len(Assembled)
    <3>x. PICK x : x = ready[r]
      OBVIOUS
    <3>m. PICK m : m = [nonce |-> x[1], data |-> x]
      OBVIOUS
    <3>1. /\ L \in Nat /\ DOMAIN Assembled = 1..L /\ DOMAIN Assembled' = 1..(L + 1)
          /\ Assembled'[L + 1] = x
          /\ \A i \in 1..L : Assembled'[i] = Assembled[i]
      BY <2>4, <3>x, PushAppends
    <3>2. r \in Pushing /\ x \in Results
      BY <2>4, <3>x DEF PushCompleted, Pushing, Results
    <3>3. Out(x) /\ \A i \in DOMAIN Assembled : Assembled[i][1] # x[1]
      BY <3>2, <3>x DEF RInv, OutOnce
    <3>4. m \in Sent
      BY <3>3, <3>m, SentTyped DEF Out, Sent
    <3> HIDE DEF L
    <3>5. /\ Delivered \in Seq({Delivered[i] : i \in DOMAIN Assembled} \cup {m})
          /\ Len(Delivered) = L /\ DOMAIN Delivered = 1..L
      BY <3>1 DEF Delivered
    <3>6. /\ Append(Delivered, m) \in Seq({Delivered[i] : i \in DOMAIN Assembled} \cup {m})
          /\ Len(Append(Delivered, m)) = L + 1 /\ Append(Delivered, m)[L + 1] = m
          /\ \A i \in 1..L : Append(Delivered, m)[i] = Delivered[i]
      BY <3>5, AppendGives
    <3>7. \A i \in 1..L : Delivered'[i] = Delivered[i]
      BY <3>1 DEF Delivered
    <3>8. Delivered'[L + 1] = m /\ DOMAIN Delivered' = 1..(L + 1)
      BY <3>1, <3>m DEF Delivered
    <3>9. Delivered' = Append(Delivered, m)
      <4>1. DOMAIN Append(Delivered, m) = 1..(L + 1)
        BY <3>6, LenProperties
      <4>2. \A i \in 1..(L + 1) : Delivered'[i] = Append(Delivered, m)[i]
        <5>1. \A i \in 1..(L + 1) : i \in 1..L \/ i = L + 1
          BY <3>1
        <5>2. QED
          BY <3>6, <3>7, <3>8, <5>1
      <4>3. /\ Delivered' = [i \in 1..(L + 1) |-> Delivered'[i]]
            /\ Append(Delivered, m) = [i \in 1..(L + 1) |-> Append(Delivered, m)[i]]
        BY <3>6, <3>8, <4>1 DEF Delivered
      <4>4. QED
        BY <4>2, <4>3
    <3>10. \A i \in DOMAIN Delivered : Delivered[i].nonce # m.nonce
      BY <3>3, <3>m DEF Delivered
    <3>11. Sent' = Sent
      BY <2>4 DEF PushCompleted, svars, Sent, Whole
    <3>12. Channel!Deliver(m)
      BY <3>4, <3>9, <3>10, <3>11 DEF Channel!Deliver, Sent, Delivered
    <3>13. m \in Channel!Messages
      BY <3>4, SentTyped
    <3>14. QED
      BY <3>12, <3>13 DEF Channel!Next
  <2>5. ASSUME NEW s \in Senders, Sending(s) \/ SendDropped(s), ~ReadGroup(s)
        PROVE  length' = length /\ Assembled' = Assembled
    BY <2>5 DEF Sending, WriteGroup, SendChunk, SendReturns, SendDropped, rvars, Assembled
  <2>6. ASSUME NEW r \in Receivers, Receiving(r) \/ RecvDropped(r), ~PushCompleted(r)
        PROVE  length' = length /\ Assembled' = Assembled
    <3>1. CASE NextReady(r)
      BY <2>1, <3>1, NextReadyKeeps DEF NextReady, svars
    <3>2. CASE ~NextReady(r)
      BY <2>6, <3>2 DEF Receiving, DelegateRecv, DelegateFails, AddChunk, RemoveGroup,
         CleanUp, RecvDropped, svars, Assembled
    <3>3. QED
      BY <3>1, <3>2
  <2>7. CASE UNCHANGED vars
    BY <2>2, <2>7 DEF vars, svars, rvars, Assembled
  <2>8. Active \subseteq Receivers
    BY BoundsAssumption DEF TInv, Active, Receivers
  <2>9. QED
    BY <2>2, <2>3, <2>4, <2>5, <2>6, <2>7, <2>8 DEF Next
<1>3. QED
  BY <1>1, <1>2, Routed, PTL DEF Spec, ImplementsChannel, Channel!Spec

\* With one sender, what recv() returns was sent: no message is put together
\* from chunks of two, and none has a chunk missing.
THEOREM IntactCorrect == ASSUME OneSender PROVE Spec => []Intact
<1>1. TInv /\ RInv => Intact
  <2> SUFFICES ASSUME TInv, RInv, NEW i \in DOMAIN Assembled
               PROVE  \E m \in DOMAIN length : Assembled[i] = Whole(m)
    BY DEF Intact
  <2>1. Out(Assembled[i])
    BY DEF RInv, OutOnce, Results
  <2>2. QED
    BY <2>1, SentTyped DEF Out
<1>2. QED
  BY <1>1, Routed, PTL

-----------------------------------------------------------------------------
\* One sender, one receiver: the order.

\* A message whose chunks have all passed is no later than the last chunk.
LEMMA GoneBefore ==
    ASSUME TInv, WInv, NEW m \in 1..Len(length), Gone(m), length[m] > 0
    PROVE  pos > 0 /\ m <= wire[pos].data
<1>1. length[m] \in Nat /\ pos \in Nat /\ Len(wire) \in Nat /\ pos <= Len(wire)
  BY WireTyped
<1>2. 0 \in 0..(length[m] - 1)
  BY <1>1
<1>3. PICK i \in 1..pos : wire[i].data = m
  BY <1>2 DEF Gone
<1>4. pos > 0 /\ i \in 1..Len(wire) /\ pos \in 1..Len(wire) /\ i <= pos
  BY <1>1
<1>5. QED
  BY <1>3, <1>4, WireGives

LEMMA OutLength ==
    ASSUME TInv, NEW x, Out(x)
    PROVE  x[1] \in 1..Len(length) /\ Gone(x[1]) /\ length[x[1]] > 0
<1>1. x # << >> /\ x[1] \in 1..Len(length) /\ x = Whole(x[1]) /\ Gone(x[1])
  BY DEF Out
<1>2. length[x[1]] \in Nat
  BY <1>1, WireTyped
<1>3. ASSUME length[x[1]] = 0 PROVE FALSE
  <2>1. x = [i \in 1..0 |-> x[1]]
    BY <1>1, <1>3 DEF Whole
  <2>2. QED
    BY <1>1, <2>1
<1>4. QED
  BY <1>1, <1>2, <1>3

LEMMA NextOrdered ==
    ASSUME TInv, WInv, RInv, OInv, [Next]_vars PROVE OInv'
<1>1. TInv' /\ Onwards
  BY NextTyped, EveryStepOnwards
<1>2. clones' = clones
  BY DEF Next, vars, mode
<1>3. SUFFICES ASSUME clones = 1 PROVE LastRead' /\ InOrder'
  BY <1>2 DEF OInv, InOrder
<1>4. 1 \in Receivers /\ Active = {1}
  BY <1>3, BoundsAssumption DEF Receivers, Active
<1>5. /\ pos \in Nat /\ Len(wire) \in Nat /\ pos <= Len(wire)
  BY WireTyped
<1>6. pos > 0 => wire'[pos] = wire[pos]
  BY <1>1, <1>5 DEF Onwards
<1>7. LastRead /\ InOrder
  BY <1>3 DEF OInv
<1>8. CASE UNCHANGED rvars
  <2>1. rpc' = rpc /\ chunk' = chunk /\ pos' = pos /\ Assembled' = Assembled
    BY <1>8 DEF rvars, Assembled
  <2>2. QED
    BY <1>2, <1>6, <1>7, <2>1 DEF LastRead, InOrder
<1>9. CASE NextReady(1)
  <2>1. Assembled' = Assembled
    BY <1>1, <1>9, NextReadyKeeps
  <2>2. rpc'[1] \in {"idle", "wait"}
    BY <1>4, <1>9 DEF NextReady, TInv, ReceiversTyped
  <2>3. QED
    BY <1>2, <1>7, <2>1, <2>2 DEF LastRead, InOrder
<1>10. CASE DelegateRecv(1)
  <2>1. PICK n \in pos + 1 .. Len(wire) : chunk'[1] = wire[n] /\ pos' = n
    BY <1>4, <1>10 DEF DelegateRecv, TInv, ReceiversTyped
  <2>2. wire' = wire /\ Assembled' = Assembled
    BY <1>10 DEF DelegateRecv, svars, Assembled
  <2>3. pos' > 0
    BY <1>5, <2>1
  <2>4. QED
    BY <1>2, <1>7, <2>1, <2>2, <2>3 DEF LastRead, InOrder
<1>11. CASE AddChunk(1) \/ RemoveGroup(1)
  <2>1. /\ rpc[1] \in {"add", "remove"} /\ chunk' = chunk /\ pos' = pos
        /\ wire' = wire /\ Assembled' = Assembled
    BY <1>11 DEF AddChunk, RemoveGroup, svars, Assembled
  <2>2. QED
    BY <1>2, <1>7, <2>1 DEF LastRead, InOrder
<1>12. CASE PushCompleted(1)
  <2> DEFINE L == Len(Assembled)
  <2>1. rpc[1] = "push" /\ rpc'[1] = "clean"
    BY <1>4, <1>12 DEF PushCompleted, TInv, ReceiversTyped
  <2>2. /\ L \in Nat /\ DOMAIN Assembled = 1..L /\ DOMAIN Assembled' = 1..(L + 1)
        /\ Assembled'[L + 1] = ready[1]
        /\ \A i \in 1..L : Assembled'[i] = Assembled[i]
    BY <1>4, <1>12, PushAppends
  <2> HIDE DEF L
  <2>3. 1 \in Pushing /\ ready[1] \in Results
    BY <1>4, <2>1 DEF Pushing, Results
  <2>4. /\ Out(ready[1]) /\ ready[1][1] = chunk[1].data
        /\ \A i \in 1..L : Assembled[i][1] # ready[1][1]
    BY <2>2, <2>3 DEF RInv, OutOnce
  <2>5. chunk[1] = wire[pos]
    BY <1>7, <2>1 DEF LastRead
  <2>6. Len(length) \in Nat /\ ready[1][1] \in Nat
    BY <2>4, WireTyped, OutLength
  <2>7. ASSUME NEW i \in 1..L PROVE Assembled[i][1] \in Nat /\ Assembled[i][1] < ready[1][1]
    <3>1. Out(Assembled[i])
      BY <2>2 DEF RInv, OutOnce, Results
    <3>2. Assembled[i][1] \in Nat /\ Assembled[i][1] <= wire[pos].data
      BY <2>6, <3>1, GoneBefore, OutLength
    <3>3. QED
      BY <2>4, <2>5, <2>6, <3>2
  <2>8. ASSUME NEW i \in DOMAIN Assembled', NEW j \in DOMAIN Assembled', i < j
        PROVE  Assembled'[i][1] < Assembled'[j][1]
    <3>1. i \in 1..L /\ (j \in 1..L \/ j = L + 1)
      BY <2>2, <2>8
    <3>2. CASE j \in 1..L
      BY <1>3, <1>7, <2>2, <2>8, <3>1, <3>2 DEF InOrder
    <3>3. CASE j = L + 1
      BY <2>2, <2>7, <3>1, <3>3
    <3>4. QED
      BY <3>1, <3>2, <3>3
  <2>9. QED
    BY <2>1, <2>8 DEF LastRead, InOrder
<1>13. CASE DelegateFails(1) \/ CleanUp(1) \/ RecvDropped(1)
  <2>1. rpc'[1] = "idle" /\ Assembled' = Assembled
    BY <1>4, <1>13
       DEF DelegateFails, CleanUp, RecvDropped, TInv, ReceiversTyped, Assembled
  <2>2. QED
    BY <1>2, <1>7, <2>1 DEF LastRead, InOrder
<1>14. ASSUME NEW s \in Senders, Sending(s) \/ SendDropped(s) PROVE UNCHANGED rvars
  BY <1>14 DEF Sending, ReadGroup, WriteGroup, SendChunk, SendReturns, SendDropped, rvars
<1>15. QED
  BY <1>4, <1>8, <1>9, <1>10, <1>11, <1>12, <1>13, <1>14 DEF Next, Receiving, vars

\* If one task sends and one receives, messages come out in the order they
\* were sent, whatever the delegate loses and whichever calls are dropped.
THEOREM InOrderCorrect == ASSUME OneSender PROVE Spec => []InOrder
<1>1. Init => OInv
  <2> SUFFICES ASSUME Init PROVE OInv
    OBVIOUS
  <2>1. Assembled = << >>
    <3>1. received = << >> /\ completed_chunks = << >> /\ << >> \in Seq(Data)
      BY DEF Init
    <3>2. QED
      BY <3>1, ConcatEmptySeq DEF Assembled
  <2>2. clones = 1 => rpc[1] = "idle"
    BY BoundsAssumption DEF Init, Receivers
  <2>3. QED
    BY <2>1, <2>2 DEF OInv, LastRead, InOrder
<1>2. TInv /\ WInv /\ RInv /\ OInv /\ [Next]_vars => OInv'
  BY NextOrdered
<1>3. OInv => InOrder
  BY DEF OInv
<1>4. QED
  BY <1>1, <1>2, <1>3, Routed, PTL DEF Spec

-----------------------------------------------------------------------------
\* One sender, and room: what is lost.

\* What keeps a message alive in a step.
LEMMA AliveOn ==
    ASSUME TInv, Onwards, NEW m \in 1..Len(length), Alive(m),
           \A i \in DOMAIN Assembled : Assembled[i][1] = m =>
               \E j \in DOMAIN Assembled' : Assembled'[j][1] = m,
           \A r \in Receivers : rpc[r] \in {"remove", "push"} /\ chunk[r].data = m =>
               \/ rpc'[r] \in {"remove", "push"} /\ chunk'[r].data = m
               \/ \E j \in DOMAIN Assembled' : Assembled'[j][1] = m,
           \A k \in 0..(length[m] - 1) : InMap(m, k) => InMap(m, k)',
           \A k \in 0..(length[m] - 1) : Coming(m, k) => Coming(m, k)'
    PROVE  Alive(m)'
<1>1. length'[m] = length[m]
  BY DEF Onwards
<1>2. CASE \E i \in DOMAIN Assembled : Assembled[i][1] = m
  BY <1>2 DEF Alive
<1>3. CASE \E r \in Receivers : rpc[r] \in {"remove", "push"} /\ chunk[r].data = m
  BY <1>3 DEF Alive
<1>4. CASE /\ \A k \in 0..(length[m] - 1) : InMap(m, k) \/ Coming(m, k)
           /\ \E k \in 0..(length[m] - 1) : Coming(m, k)
  BY <1>1, <1>4 DEF Alive
<1>5. QED
  BY <1>2, <1>3, <1>4 DEF Alive

\* A message stays alive when a sender goes on; only the one whose call is
\* dropped may die.
LEMMA SendersAlive ==
    ASSUME TInv, TInv', Onwards, ~lossy, NEW m \in 1..Len(length), Alive(m),
           NEW s \in Senders, Sending(s) \/ (SendDropped(s) /\ msg[s] # m)
    PROVE  Alive(m)'
<1>1. UNCHANGED rvars
  BY DEF Sending, ReadGroup, WriteGroup, SendChunk, SendReturns, SendDropped, rvars
<1>2. /\ Assembled' = Assembled /\ rpc' = rpc /\ chunk' = chunk /\ pos' = pos
      /\ chunk_groups' = chunk_groups
  BY <1>1 DEF rvars, Assembled
<1>3. /\ spc \in [Senders -> {"idle", "read", "send"}]
      /\ msg \in [Senders -> Msgs \cup {NoMsg}] /\ next \in [Senders -> Nat]
      /\ wire \in Seq(Chunks)
  BY DEF TInv, SendersTyped
<1>4. \A t \in Senders : t # s => spc'[t] = spc[t] /\ msg'[t] = msg[t] /\ next'[t] = next[t]
  BY <1>3 DEF Sending, ReadGroup, WriteGroup, SendChunk, SendReturns, SendDropped
<1>5. /\ pos \in Nat /\ Len(wire) \in Nat /\ pos <= Len(wire) /\ Len(wire') \in Nat
  BY WireTyped DEF TInv, SendersTyped
<1>6. ASSUME NEW k \in 0..(length[m] - 1), Coming(m, k) PROVE Coming(m, k)'
  <2>1. CASE \E i \in (pos + 1)..Len(wire) : wire[i].data = m /\ wire[i].index = k
    <3>1. PICK i \in (pos + 1)..Len(wire) : wire[i].data = m /\ wire[i].index = k
      BY <2>1
    <3>2. i \in (pos' + 1)..Len(wire') /\ wire'[i] = wire[i]
      BY <1>2, <1>5 DEF Onwards
    <3>3. QED
      BY <3>1, <3>2 DEF Coming
  <2>2. CASE \E t \in Receivers : rpc[t] = "add" /\ chunk[t].data = m /\ chunk[t].index = k
    BY <1>2, <2>2 DEF Coming
  <2>3. ASSUME NEW t \in Senders, t # s, spc[t] # "idle", msg[t] = m, next[t] <= k
        PROVE  Coming(m, k)'
    BY <1>4, <2>3 DEF Coming
  <2>4. ASSUME spc[s] # "idle", msg[s] = m, next[s] <= k PROVE Coming(m, k)'
    <3>1. CASE WriteGroup(s)
      <4>1. spc'[s] = "send" /\ msg'[s] = msg[s] /\ next'[s] = next[s]
        BY <1>3, <3>1 DEF WriteGroup
      <4>2. QED
        BY <2>4, <4>1 DEF Coming
    <3>2. CASE SendChunk(s)
      <4> DEFINE c == [group |-> group[s], index |-> next[s],
                       group_length |-> length[msg[s]], data |-> msg[s]]
      <4>1. /\ wire' = Append(wire, c) /\ spc' = spc /\ msg' = msg
            /\ next'[s] = next[s] + 1 /\ next[s] \in Nat /\ spc[s] = "send"
        BY <1>3, <3>2 DEF SendChunk
      <4>2. CASE next[s] = k
        <5>1. Len(wire') = Len(wire) + 1 /\ wire'[Len(wire) + 1] = c
          BY <1>3, <4>1
        <5>2. Len(wire) + 1 \in (pos' + 1)..Len(wire')
          BY <1>2, <1>5, <5>1
        <5>3. wire'[Len(wire) + 1].data = m /\ wire'[Len(wire) + 1].index = k
          BY <2>4, <4>2, <5>1
        <5>4. QED
          BY <5>2, <5>3 DEF Coming
      <4>3. CASE next[s] # k
        <5>1. next'[s] <= k
          BY <2>4, <4>1, <4>3
        <5>2. QED
          BY <2>4, <4>1, <5>1 DEF Coming
      <4>4. QED
        BY <4>2, <4>3
    <3>3. CASE SendReturns(s)
      <4>1. next[s] = length[m] /\ next[s] \in Nat
        BY <1>3, <2>4, <3>3 DEF SendReturns
      <4>2. QED
        BY <2>4, <4>1
    <3>4. QED
      BY <2>4, <3>1, <3>2, <3>3 DEF Sending, ReadGroup
  <2>5. QED
    BY <1>6, <2>1, <2>2, <2>3, <2>4 DEF Coming
<1>7. \A k \in 0..(length[m] - 1) : InMap(m, k) => InMap(m, k)'
  BY <1>2 DEF InMap, Places
<1>8. QED
  BY <1>2, <1>6, <1>7, AliveOn

\* A new message is alive, unless it has no chunk.
LEMMA NewAlive ==
    ASSUME TInv, TInv', NEW s \in Senders, ReadGroup(s),
           NEW m, m = Len(length) + 1, length'[m] > 0
    PROVE  Alive(m)'
<1>1. spc'[s] = "read" /\ msg'[s] = m /\ next'[s] = 0
  BY DEF ReadGroup, TInv, SendersTyped
<1>2. ASSUME NEW k \in 0..(length'[m] - 1) PROVE Coming(m, k)'
  <2>1. next'[s] <= k
    BY <1>1
  <2>2. QED
    BY <1>1, <2>1 DEF Coming
<1>3. 0 \in 0..(length'[m] - 1)
  <2>1. length' \in Seq(Lengths) /\ Len(length') = m /\ m \in 1..Len(length')
    <3>1. PICK n \in Lengths : length' = Append(length, n)
      BY DEF ReadGroup
    <3>2. length \in Seq(Lengths) /\ Len(length) \in Nat
      BY DEF TInv, SendersTyped
    <3>3. QED
      BY <3>1, <3>2, AppendGives
  <2>2. length'[m] \in Nat
    <3>1. \A i \in 1..Len(length') : length'[i] \in Lengths
      BY <2>1
    <3>2. QED
      BY <2>1, <3>1, LengthsAssumption
  <2>3. QED
    BY <2>2
<1>4. QED
  BY <1>2, <1>3 DEF Alive

\* The same for a receiver, where it takes nothing from the wire and brings
\* nothing to the map.
LEMMA QuietAlive ==
    ASSUME TInv, Onwards, NEW m \in 1..Len(length), Alive(m), UNCHANGED svars,
           Assembled' = Assembled, pos' = pos, chunk' = chunk,
           \A t \in Receivers :
               rpc[t] \in {"add", "remove", "push"} /\ chunk[t].data = m => rpc'[t] = rpc[t],
           \A k \in 0..(length[m] - 1) : InMap(m, k) => InMap(m, k)'
    PROVE  Alive(m)'
<1>1. spc' = spc /\ msg' = msg /\ next' = next /\ wire' = wire
  BY DEF svars
<1>2. \A k \in 0..(length[m] - 1) : Coming(m, k) => Coming(m, k)'
  BY <1>1 DEF Coming
<1>3. QED
  BY <1>2, AliveOn

\* A chunk that is added is in the map, or completes its group.
LEMMA AddAlive ==
    ASSUME TInv, TInv', WInv, Onwards, RInv, NEW m \in 1..Len(length), Alive(m),
           NEW r \in Receivers, AddChunk(r)
    PROVE  Alive(m)'
<1> DEFINE c == chunk[r]
           h == GroupOf(c)
           g == Placed(h, c)
           D == DOMAIN chunk_groups
<1>1. /\ Passed(c) /\ c.index \in Places(h) /\ h.chunks[c.index] = NoMsg
      /\ h.group_length = c.group_length
      /\ \A i \in Filled(h) : h.chunks[i] = c.data
      /\ Places(g) = Places(h) /\ g.chunks[c.index] = c.data
      /\ g.group_length = h.group_length /\ GroupTyped(g)
      /\ \A i \in Places(h) : i # c.index => g.chunks[i] = h.chunks[i]
  BY AddGives
<1>2. /\ DOMAIN chunk_groups' = D \cup {c.group} /\ chunk_groups'[c.group] = g
      /\ \A k \in D : k # c.group => chunk_groups'[k] = chunk_groups[k]
  BY AddGives
<1>3. /\ rpc[r] = "add"
      /\ rpc'[r] = IF g.size = g.group_length THEN "remove" ELSE "clean"
      /\ \A t \in Receivers : t # r => rpc'[t] = rpc[t]
      /\ chunk' = chunk /\ Assembled' = Assembled
      /\ pos' = pos /\ wire' = wire /\ length' = length
  BY AddGives
<1>4. g.size = Cardinality(Filled(g))
  BY CompleteGives
<1>5. /\ c \in Chunks /\ c.data # NoMsg /\ c.group_length = length[c.data]
      /\ c.group_length \in Nat
  BY <1>1, PassedGives
<1>6. c.group \in D => h = chunk_groups[c.group]
  BY <1>5, GroupOfGives DEF TInv
<1>7. spc' = spc /\ msg' = msg /\ next' = next
  BY DEF AddChunk, svars
<1>8. m # NoMsg
  BY WireTyped DEF NoMsg
<1> HIDE DEF g, h, c, D
<1>9. ASSUME NEW k \in 0..(length[m] - 1), InMap(m, k) PROVE InMap(m, k)'
  <2>1. PICK q \in D : k \in Places(chunk_groups[q]) /\ chunk_groups[q].chunks[k] = m
    BY <1>9 DEF InMap, D
  <2>2. /\ q \in DOMAIN chunk_groups' /\ k \in Places(chunk_groups'[q])
        /\ chunk_groups'[q].chunks[k] = m
    BY <1>1, <1>2, <1>6, <1>8, <2>1
  <2>3. QED
    BY <2>2 DEF InMap, Places
<1>10. InMap(c.data, c.index)'
  <2>1. /\ c.group \in DOMAIN chunk_groups' /\ c.index \in Places(chunk_groups'[c.group])
        /\ chunk_groups'[c.group].chunks[c.index] = c.data
    BY <1>1, <1>2
  <2>2. ASSUME NEW d, d = c PROVE InMap(d.data, d.index)'
    BY <2>1, <2>2 DEF InMap, Places
  <2>3. QED
    BY <1>3, <2>2 DEF c
<1>11. ASSUME NEW k, Coming(m, k), ~(c.data = m /\ c.index = k) PROVE Coming(m, k)'
  BY <1>3, <1>7, <1>11 DEF Coming, c
<1>12. CASE c.data # m
  <2>1. \A k \in 0..(length[m] - 1) : Coming(m, k) => Coming(m, k)'
    BY <1>11, <1>12
  <2>2. \A t \in Receivers : rpc[t] \in {"remove", "push"} => rpc'[t] = rpc[t]
    BY <1>3
  <2>3. QED
    BY <1>3, <1>9, <2>1, <2>2, AliveOn
<1>13. CASE c.data = m
  <2>1. CASE \E i \in DOMAIN Assembled : Assembled[i][1] = m
    BY <1>3, <2>1 DEF Alive
  <2>2. CASE \E t \in Receivers : rpc[t] \in {"remove", "push"} /\ chunk[t].data = m
    <3>1. PICK t \in Receivers : rpc[t] \in {"remove", "push"} /\ chunk[t].data = m
      BY <2>2
    <3>2. rpc'[t] = rpc[t]
      BY <1>3, <3>1
    <3>3. QED
      BY <1>3, <3>1, <3>2 DEF Alive
  <2>3. CASE \A k \in 0..(length[m] - 1) : InMap(m, k) \/ Coming(m, k)
    <3>1. ASSUME NEW k \in 0..(length[m] - 1) PROVE InMap(m, k)' \/ Coming(m, k)'
      <4>1. CASE k = c.index
        <5>1. ASSUME NEW d, d = c.data, NEW i, i = c.index, InMap(c.data, c.index)'
              PROVE  InMap(d, i)'
          BY <1>3, <5>1 DEF c, InMap, Places
        <5>2. QED
          BY <1>10, <1>13, <4>1, <5>1
      <4>2. CASE k # c.index
        BY <1>9, <1>11, <2>3, <4>2
      <4>3. QED
        BY <4>1, <4>2
    <3>2. CASE \E k \in 0..(length[m] - 1) : Coming(m, k)'
      BY <1>3, <3>1, <3>2 DEF Alive
    <3>3. CASE \A k \in 0..(length[m] - 1) : InMap(m, k)'
      <4>1. ASSUME NEW k \in Places(g) PROVE g.chunks[k] # NoMsg
        <5>1. k \in 0..(length[m] - 1)
          BY <1>1, <1>5, <1>13 DEF Places
        <5>2. PICK q \in DOMAIN chunk_groups' :
                  /\ k \in Places(chunk_groups'[q]) /\ chunk_groups'[q].chunks[k] = m
          BY <3>3, <5>1 DEF InMap, Places
        <5>3. q = c.group
          <6> SUFFICES ASSUME q # c.group PROVE FALSE
            OBVIOUS
          <6>1. q \in D /\ chunk_groups'[q] = chunk_groups[q]
            BY <1>2
          <6>2. Passed([group |-> q, index |-> k,
                        group_length |-> chunk_groups[q].group_length, data |-> m])
            BY <1>8, <5>2, <6>1 DEF RInv, PlacedRight, D
          <6>3. QED
            BY <1>1, <1>13, <6>2, PassedAgree
        <5>4. QED
          BY <1>2, <1>8, <5>2, <5>3
      <4>2. Filled(g) = Places(g)
        BY <4>1 DEF Filled
      <4>3. g.size = g.group_length
        <5>1. g.group_length \in Nat
          BY <1>1, <1>5
        <5>2. Cardinality(0..(g.group_length - 1)) = g.group_length
          BY <5>1, PlacesCounted
        <5>3. QED
          BY <1>4, <4>2, <5>2 DEF Places
      <4>4. rpc'[r] = "remove" /\ chunk'[r].data = m
        BY <1>3, <1>13, <4>3 DEF c
      <4>5. QED
        BY <4>4 DEF Alive
    <3>4. QED
      BY <3>1, <3>2, <3>3
  <2>4. QED
    BY <2>1, <2>2, <2>3 DEF Alive
<1>14. QED
  BY <1>12, <1>13

\* A message stays alive when a receiver goes on, unless its call is dropped,
\* the group to take out is gone, or the clean-up takes a chunk away.
LEMMA ReceiversAlive ==
    ASSUME TInv, TInv', WInv, Onwards, RInv, ~lossy,
           NEW m \in 1..Len(length), Alive(m), NEW r \in Receivers,
           Receiving(r) \/ (RecvDropped(r) /\ chunk[r].data # m),
           RemoveGroup(r) => chunk[r].group \in DOMAIN chunk_groups,
           CleanUp(r) => \A k \in 0..(length[m] - 1) : InMap(m, k) => InMap(m, k)'
    PROVE  Alive(m)'
<1>1. rpc \in [Receivers -> {"idle", "wait", "add", "remove", "push", "clean", "panicked"}]
  BY DEF TInv, ReceiversTyped
<1>2. CASE NextReady(r)
  <2>1. Assembled' = Assembled
    BY <1>2, NextReadyKeeps
  <2>2. /\ chunk_groups' = chunk_groups /\ pos' = pos /\ chunk' = chunk
        /\ UNCHANGED svars
        /\ \A t \in Receivers : rpc[t] \in {"add", "remove", "push"} => rpc'[t] = rpc[t]
    BY <1>1, <1>2 DEF NextReady
  <2>3. \A k \in 0..(length[m] - 1) : InMap(m, k) => InMap(m, k)'
    BY <2>2 DEF InMap, Places
  <2>4. QED
    BY <2>1, <2>2, <2>3, QuietAlive
<1>3. CASE DelegateFails(r) \/ (RecvDropped(r) /\ chunk[r].data # m)
  <2>1. /\ chunk_groups' = chunk_groups /\ pos' = pos /\ chunk' = chunk
        /\ Assembled' = Assembled /\ UNCHANGED svars
        /\ \A t \in Receivers :
               rpc[t] \in {"add", "remove", "push"} /\ chunk[t].data = m => rpc'[t] = rpc[t]
    BY <1>1, <1>3 DEF DelegateFails, RecvDropped, Assembled
  <2>2. \A k \in 0..(length[m] - 1) : InMap(m, k) => InMap(m, k)'
    BY <2>1 DEF InMap, Places
  <2>3. QED
    BY <2>1, <2>2, QuietAlive
<1>4. CASE CleanUp(r)
  <2>1. /\ pos' = pos /\ chunk' = chunk /\ Assembled' = Assembled /\ UNCHANGED svars
        /\ \A t \in Receivers : rpc[t] \in {"add", "remove", "push"} => rpc'[t] = rpc[t]
    BY <1>1, <1>4 DEF CleanUp, Assembled
  <2>2. QED
    BY <1>4, <2>1, QuietAlive
<1>5. CASE DelegateRecv(r)
  <2>1. /\ pos' = pos + 1 /\ chunk' = [chunk EXCEPT ![r] = wire[pos + 1]]
        /\ rpc' = [rpc EXCEPT ![r] = "add"] /\ rpc[r] = "wait"
        /\ chunk_groups' = chunk_groups /\ Assembled' = Assembled /\ UNCHANGED svars
    BY <1>5 DEF DelegateRecv, Assembled
  <2>2. /\ rpc'[r] = "add" /\ chunk'[r] = wire[pos + 1]
        /\ \A t \in Receivers : t # r => rpc'[t] = rpc[t] /\ chunk'[t] = chunk[t]
    BY <1>1, <2>1 DEF TInv, ReceiversTyped
  <2>3. ASSUME NEW k \in 0..(length[m] - 1), Coming(m, k) PROVE Coming(m, k)'
    <3>1. CASE \E s \in Senders : spc[s] # "idle" /\ msg[s] = m /\ next[s] <= k
      BY <2>1, <3>1 DEF Coming, svars
    <3>2. CASE \E t \in Receivers : rpc[t] = "add" /\ chunk[t].data = m /\ chunk[t].index = k
      BY <2>1, <2>2, <3>2 DEF Coming
    <3>3. ASSUME NEW i \in (pos + 1)..Len(wire), wire[i].data = m, wire[i].index = k
          PROVE  Coming(m, k)'
      <4>1. CASE i = pos + 1
        BY <2>2, <3>3, <4>1 DEF Coming
      <4>2. CASE i # pos + 1
        <5>1. pos \in Nat /\ Len(wire) \in Nat /\ wire' = wire
          BY <2>1, WireTyped DEF svars
        <5>2. i \in (pos' + 1)..Len(wire')
          BY <2>1, <4>2, <5>1
        <5>3. QED
          BY <3>3, <5>1, <5>2 DEF Coming
      <4>3. QED
        BY <4>1, <4>2
    <3>4. QED
      BY <2>3, <3>1, <3>2, <3>3 DEF Coming
  <2>4. \A k \in 0..(length[m] - 1) : InMap(m, k) => InMap(m, k)'
    BY <2>1 DEF InMap, Places
  <2>5. \A t \in Receivers : rpc[t] \in {"remove", "push"} =>
            rpc'[t] = rpc[t] /\ chunk'[t] = chunk[t]
    BY <2>1, <2>2
  <2>6. QED
    BY <2>1, <2>3, <2>4, <2>5, AliveOn
<1>6. CASE AddChunk(r)
  BY <1>6, AddAlive
<1>7. CASE RemoveGroup(r)
  <2>1. /\ rpc[r] = "remove" /\ Passed(chunk[r]) /\ UNCHANGED svars
        /\ pos' = pos /\ chunk' = chunk /\ Assembled' = Assembled
        /\ DOMAIN chunk_groups' = DOMAIN chunk_groups \ {chunk[r].group}
        /\ \A q \in DOMAIN chunk_groups' : chunk_groups'[q] = chunk_groups[q]
    BY <1>7 DEF RemoveGroup, Restrict, Assembled, RInv, HeldOnce
  <2>2. \A t \in Receivers : t # r => rpc'[t] = rpc[t]
    BY <1>1, <1>7 DEF RemoveGroup
  <2>3. spc' = spc /\ msg' = msg /\ next' = next /\ wire' = wire
    BY <2>1 DEF svars
  <2>4. \A k \in 0..(length[m] - 1) : Coming(m, k) => Coming(m, k)'
    BY <2>1, <2>2, <2>3 DEF Coming
  <2>5. CASE chunk[r].group \in DOMAIN chunk_groups
    <3>1. rpc'[r] = "push"
      BY <1>1, <1>7, <2>5, RemoveGives
    <3>2. CASE chunk[r].data = m
      BY <2>1, <3>1, <3>2 DEF Alive
    <3>3. CASE chunk[r].data # m
      <4>1. ASSUME NEW k \in 0..(length[m] - 1), InMap(m, k) PROVE InMap(m, k)'
        <5>1. PICK q \in DOMAIN chunk_groups :
                  k \in Places(chunk_groups[q]) /\ chunk_groups[q].chunks[k] = m
          BY <4>1 DEF InMap
        <5>2. m # NoMsg
          BY WireTyped DEF NoMsg
        <5>3. q # chunk[r].group
          BY <2>1, <2>5, <3>3, <5>1, <5>2, SlotGives
        <5>4. QED
          BY <2>1, <5>1, <5>3 DEF InMap, Places
      <4>2. \A t \in Receivers :
                rpc[t] \in {"remove", "push"} /\ chunk[t].data = m => rpc'[t] = rpc[t]
        BY <2>2, <3>3
      <4>3. QED
        BY <2>1, <2>4, <4>1, <4>2, AliveOn
    <3>4. QED
      BY <3>2, <3>3
  <2>6. QED
    BY <1>7, <2>5
<1>8. CASE PushCompleted(r)
  <2> DEFINE L == Len(Assembled)
  <2>1. /\ L \in Nat /\ DOMAIN Assembled = 1..L /\ DOMAIN Assembled' = 1..(L + 1)
        /\ Assembled'[L + 1] = ready[r]
        /\ \A i \in 1..L : Assembled'[i] = Assembled[i]
    BY <1>8, PushAppends
  <2> HIDE DEF L
  <2>2. \A i \in 1..L : i \in 1..(L + 1)
    BY <2>1
  <2>3. /\ rpc[r] = "push" /\ UNCHANGED svars /\ pos' = pos /\ chunk' = chunk
        /\ chunk_groups' = chunk_groups
        /\ \A t \in Receivers : t # r => rpc'[t] = rpc[t]
    BY <1>1, <1>8 DEF PushCompleted
  <2>4. ready[r][1] = chunk[r].data
    BY <2>3 DEF RInv, OutOnce, Pushing
  <2>5. L + 1 \in DOMAIN Assembled' /\ Assembled'[L + 1][1] = chunk[r].data
    BY <2>1, <2>4
  <2>6. \A k \in 0..(length[m] - 1) : InMap(m, k) => InMap(m, k)'
    BY <2>3 DEF InMap, Places
  <2>7. spc' = spc /\ msg' = msg /\ next' = next /\ wire' = wire
    BY <2>3 DEF svars
  <2>8. \A k \in 0..(length[m] - 1) : Coming(m, k) => Coming(m, k)'
    BY <2>3, <2>7 DEF Coming
  <2>9. \A i \in DOMAIN Assembled : Assembled[i][1] = m =>
            \E j \in DOMAIN Assembled' : Assembled'[j][1] = m
    BY <2>1, <2>2
  <2>10. \A t \in Receivers : rpc[t] \in {"remove", "push"} /\ chunk[t].data = m =>
             \/ rpc'[t] \in {"remove", "push"} /\ chunk'[t].data = m
             \/ \E j \in DOMAIN Assembled' : Assembled'[j][1] = m
    BY <2>3, <2>5
  <2>11. QED
    BY <2>6, <2>8, <2>9, <2>10, AliveOn
<1>9. QED
  BY <1>2, <1>3, <1>4, <1>5, <1>6, <1>7, <1>8 DEF Receiving

\* A function has no more values than arguments.
LEMMA ValuesCounted ==
    ASSUME NEW S, IsFiniteSet(S), NEW T, NEW f \in [S -> T]
    PROVE  IsFiniteSet(Range(f)) /\ Cardinality(Range(f)) <= Cardinality(S)
<1>1. f \in Surjection(S, Range(f))
  BY DEF Surjection, Range
<1>2. QED
  BY <1>1, FS_Surjection

\* A group in the map has a chunk that has passed, and no other group has
\* any of that message.
LEMMA GroupHolds ==
    ASSUME TInv, WInv, RInv, NEW g \in DOMAIN chunk_groups
    PROVE  \E c \in Chunks :
               /\ Passed(c) /\ c.group = g
               /\ c.data \in 1..Len(length) /\ length[c.data] > 0
               /\ \E i \in Places(chunk_groups[g]) : chunk_groups[g].chunks[i] = c.data
               /\ \A q \in DOMAIN chunk_groups : \A i \in Places(chunk_groups[q]) :
                      chunk_groups[q].chunks[i] = c.data => q = g
               /\ \A i \in Places(chunk_groups[g]) :
                      chunk_groups[g].chunks[i] \in {NoMsg, c.data}
<1>1. PICK i \in Places(chunk_groups[g]) : chunk_groups[g].chunks[i] # NoMsg
  BY DEF RInv, PlacedRight
<1>2. PICK c : c = [group |-> g, index |-> i,
                    group_length |-> chunk_groups[g].group_length,
                    data |-> chunk_groups[g].chunks[i]]
  OBVIOUS
<1>3. Passed(c)
  BY <1>1, <1>2 DEF RInv, PlacedRight
<1>4. /\ c \in Chunks /\ c.data \in 1..Len(length) /\ c.index \in Nat /\ c.data # NoMsg
      /\ c.group_length \in Nat /\ c.index < c.group_length
      /\ c.group_length = length[c.data]
  BY <1>3, PassedGives
<1>5. length[c.data] > 0
  BY <1>4
<1>6. ASSUME NEW q \in DOMAIN chunk_groups, NEW j \in Places(chunk_groups[q]),
             chunk_groups[q].chunks[j] = c.data
      PROVE  q = g
  <2>1. Passed([group |-> q, index |-> j,
                group_length |-> chunk_groups[q].group_length, data |-> c.data])
    BY <1>4, <1>6 DEF RInv, PlacedRight
  <2>2. c.group = g
    BY <1>2
  <2>3. QED
    BY <1>3, <2>1, <2>2, PassedAgree
<1>7. \A j \in Places(chunk_groups[g]) : chunk_groups[g].chunks[j] \in {NoMsg, c.data}
  BY <1>2, <1>3, SlotGives
<1>8. c.group = g /\ c.data = chunk_groups[g].chunks[i]
  BY <1>2
<1>9. QED
  BY <1>1, <1>3, <1>4, <1>5, <1>6, <1>7, <1>8

\* A message of which a chunk has passed and another is still to be read is
\* the message of the last chunk read.
LEMMA ComingIsLast ==
    ASSUME TInv, WInv, NEW c, Passed(c), NEW k, Coming(c.data, k),
           \A t \in Receivers : rpc[t] = "add" => chunk[t].data # c.data
    PROVE  pos > 0 /\ c.group = wire[pos].group
<1>1. PICK i \in 1..pos : i \in 1..Len(wire) /\ wire[i] = c
  BY PassedGives
<1>2. /\ pos \in Nat /\ Len(wire) \in Nat /\ pos <= Len(wire)
  BY WireTyped
<1>3. pos > 0 /\ pos \in 1..Len(wire) /\ i <= pos
  BY <1>1, <1>2
<1>4. wire[i].data <= wire[pos].data /\ wire[i].data \in Nat /\ wire[pos].data \in Nat
  BY <1>1, <1>3, WireGives, WireTyped
<1>5. wire[pos].data <= c.data
  <2>1. CASE \E j \in (pos + 1)..Len(wire) : wire[j].data = c.data
    <3>1. PICK j \in (pos + 1)..Len(wire) : wire[j].data = c.data
      BY <2>1
    <3>2. j \in 1..Len(wire) /\ pos <= j
      BY <1>2
    <3>3. QED
      BY <1>3, <3>1, <3>2, WireGives
  <2>2. CASE \E s \in Senders : spc[s] # "idle" /\ msg[s] = c.data
    <3>1. PICK s \in Senders : spc[s] # "idle" /\ msg[s] = c.data
      BY <2>2
    <3>2. \/ wire[pos].data < msg[s]
          \/ wire[pos].data = msg[s]
      BY <1>3, <3>1 DEF WInv, AtTheEnd
    <3>3. msg[s] \in Nat
      BY WireTyped
    <3>4. QED
      BY <1>4, <3>1, <3>2, <3>3
  <2>3. QED
    BY <2>1, <2>2 DEF Coming
<1>6. wire[i].data = wire[pos].data
  BY <1>1, <1>4, <1>5
<1>7. QED
  BY <1>1, <1>3, <1>6, WireGives

\* While a receiver cleans up, a group in the map is of a message that is
\* lost, of one that another receiver is working on, or the last one read.
LEMMA GroupFate ==
    ASSUME TInv, WInv, RInv, NEW g \in DOMAIN chunk_groups
    PROVE  \/ \E m \in Dead :
                  \E i \in Places(chunk_groups[g]) : chunk_groups[g].chunks[i] = m
           \/ \E t \in Receivers : rpc[t] \in {"add", "remove"} /\ chunk[t].group = g
           \/ pos > 0 /\ g = wire[pos].group
<1>1. PICK c \in Chunks :
          /\ Passed(c) /\ c.group = g
          /\ c.data \in 1..Len(length) /\ length[c.data] > 0
          /\ \E i \in Places(chunk_groups[g]) : chunk_groups[g].chunks[i] = c.data
  BY GroupHolds
<1> DEFINE m == c.data
<1>2. CASE ~Alive(m)
  BY <1>1, <1>2 DEF Dead
<1>3. CASE Alive(m)
  <2>1. ~ \E i \in DOMAIN Assembled : Assembled[i][1] = m
    <3>1. \A i \in DOMAIN Assembled : Out(Assembled[i])
      BY DEF RInv, OutOnce, Results
    <3>2. QED
      BY <1>1, <3>1 DEF Out
  <2>2. ASSUME NEW t \in Receivers, rpc[t] \in {"add", "remove", "push"}, chunk[t].data = m
        PROVE  rpc[t] \in {"add", "remove"} /\ chunk[t].group = g
    <3>1. Passed(chunk[t])
      BY <2>2 DEF RInv, HeldOnce
    <3>2. chunk[t].group = g
      BY <1>1, <2>2, <3>1, PassedAgree
    <3>3. ASSUME rpc[t] = "push" PROVE FALSE
      <4>1. Out(ready[t]) /\ ready[t][1] = m
        BY <2>2, <3>3 DEF RInv, OutOnce, Results, Pushing
      <4>2. QED
        BY <1>1, <4>1 DEF Out
    <3>4. QED
      BY <2>2, <3>2, <3>3
  <2>3. CASE \E t \in Receivers : rpc[t] \in {"add", "remove", "push"} /\ chunk[t].data = m
    BY <2>2, <2>3
  <2>4. CASE /\ ~ \E t \in Receivers :
                     rpc[t] \in {"add", "remove", "push"} /\ chunk[t].data = m
             /\ \E k : Coming(m, k)
    BY <1>1, <2>4, ComingIsLast
  <2>5. QED
    BY <1>3, <2>1, <2>3, <2>4 DEF Alive
<1>4. QED
  BY <1>2, <1>3

LEMMA FiniteDead ==
    ASSUME TInv PROVE IsFiniteSet(Dead) /\ Cardinality(Dead) \in Nat
<1>1. Len(length) \in Nat
  BY WireTyped
<1>2. IsFiniteSet(1..Len(length))
  BY <1>1, FS_Interval
<1>3. Dead \subseteq 1..Len(length)
  BY DEF Dead
<1>4. QED
  BY <1>2, <1>3, FS_Subset, FS_CardinalityType

\* So the map has room for them, and nothing is evicted.
LEMMA FewGroups ==
    ASSUME TInv, WInv, RInv, OnlyActive, NEW r \in Active, rpc[r] = "clean",
           Cardinality(Dead) <= drops, clones + drops <= MaxGroups
    PROVE  Cardinality(DOMAIN chunk_groups) <= MaxGroups
<1> DEFINE D == DOMAIN chunk_groups
           Holds(g, m) == \E i \in Places(chunk_groups[g]) : chunk_groups[g].chunks[i] = m
           f == [m \in Dead |-> CHOOSE g \in D : Holds(g, m)]
           h == [t \in Active \ {r} |-> chunk[t].group]
           A == Range(f) \cup Range(h)
<1>1. /\ clones \in Nat /\ drops \in Nat /\ MaxGroups \in Nat /\ IsFiniteSet(D)
      /\ clones >= 1
  BY FiniteMap, BoundsAssumption DEF TInv, Receivers
<1>2. IsFiniteSet(Active \ {r}) /\ Cardinality(Active \ {r}) = clones - 1
  <2>1. IsFiniteSet(1..clones) /\ Cardinality(1..clones) = clones
    <3>1. /\ IsFiniteSet(1..clones)
          /\ Cardinality(1..clones) = IF 1 > clones THEN 0 ELSE clones - 1 + 1
      BY <1>1, FS_Interval
    <3>2. QED
      BY <1>1, <3>1
  <2>2. QED
    BY <2>1, FS_RemoveElement DEF Active
<1>3. IsFiniteSet(Range(f)) /\ Cardinality(Range(f)) <= Cardinality(Dead)
  <2>1. f \in [Dead -> {f[m] : m \in Dead}]
    OBVIOUS
  <2> HIDE DEF f
  <2>2. QED
    BY <2>1, FiniteDead, ValuesCounted
<1>4. IsFiniteSet(Range(h)) /\ Cardinality(Range(h)) <= clones - 1
  <2>1. h \in [Active \ {r} -> {h[t] : t \in Active \ {r}}]
    OBVIOUS
  <2> HIDE DEF h
  <2>2. QED
    BY <1>2, <2>1, ValuesCounted
<1>5. ASSUME NEW g \in D PROVE g \in A \/ (pos > 0 /\ g = wire[pos].group)
  <2>1. CASE \E m \in Dead : Holds(g, m)
    <3>1. PICK m \in Dead : Holds(g, m)
      BY <2>1
    <3>2. \A q \in D : Holds(q, m) => q = g
      <4>1. PICK c \in Chunks :
                /\ \A q \in D : \A i \in Places(chunk_groups[q]) :
                       chunk_groups[q].chunks[i] = c.data => q = g
                /\ \A i \in Places(chunk_groups[g]) :
                       chunk_groups[g].chunks[i] \in {NoMsg, c.data}
        BY GroupHolds
      <4>2. m # NoMsg
        BY WireTyped DEF Dead, NoMsg
      <4>3. c.data = m
        BY <3>1, <4>1, <4>2
      <4>4. QED
        BY <4>1, <4>3
    <3>3. f[m] = g
      BY <3>1, <3>2
    <3>4. QED
      BY <3>3 DEF Range
  <2>2. CASE \E t \in Receivers : rpc[t] \in {"add", "remove"} /\ chunk[t].group = g
    <3>1. PICK t \in Receivers : rpc[t] \in {"add", "remove"} /\ chunk[t].group = g
      BY <2>2
    <3>2. t # r /\ t \in Active
      <4>1. ~(t > clones)
        BY <3>1 DEF OnlyActive
      <4>2. t \in Nat /\ t >= 1
        BY DEF Receivers
      <4>3. QED
        BY <1>1, <3>1, <4>1, <4>2 DEF Active
    <3>3. QED
      BY <3>1, <3>2 DEF Range
  <2>3. QED
    BY <2>1, <2>2, GroupFate
<1> HIDE DEF f, h
<1>6. IsFiniteSet(A) /\ Cardinality(A) <= drops + clones - 1 /\ Cardinality(A) \in Nat
  <2>1. /\ IsFiniteSet(A)
        /\ Cardinality(A) = Cardinality(Range(f)) + Cardinality(Range(h))
                              - Cardinality(Range(f) \cap Range(h))
    BY <1>3, <1>4, FS_Union
  <2>2. IsFiniteSet(Range(f) \cap Range(h))
    BY <1>3, FS_Subset
  <2>3. /\ Cardinality(Range(f)) \in Nat /\ Cardinality(Range(h)) \in Nat
        /\ Cardinality(Range(f) \cap Range(h)) \in Nat /\ Cardinality(Dead) \in Nat
        /\ Cardinality(A) \in Nat
    BY <1>3, <1>4, <2>1, <2>2, FiniteDead, FS_CardinalityType
  <2> HIDE DEF A
  <2>4. QED
    BY <1>1, <1>3, <1>4, <2>1, <2>3
<1> HIDE DEF A, D
<1>7. PICK w : \A g \in D : g \in A \cup {w}
  <2>1. CASE pos > 0
    BY <1>5, <2>1
  <2>2. CASE ~(pos > 0)
    BY <1>5, <2>2
  <2>3. QED
    BY <2>1, <2>2
<1>8. IsFiniteSet(A \cup {w}) /\ Cardinality(A \cup {w}) \in {Cardinality(A), Cardinality(A) + 1}
  BY <1>6, FS_AddElement
<1>9. Cardinality(D) <= Cardinality(A \cup {w}) /\ Cardinality(D) \in Nat
  BY <1>1, <1>7, <1>8, FS_Subset, FS_CardinalityType
<1>10. Cardinality(D) <= MaxGroups
  BY <1>1, <1>6, <1>8, <1>9
<1>11. QED
  BY <1>10 DEF D

\* With one receiver, a group below another one is of a message that is lost.
LEMMA OldIsLost ==
    ASSUME TInv, WInv, RInv, OnlyActive, clones = 1, rpc[1] = "clean",
           NEW g \in DOMAIN chunk_groups, NEW q \in DOMAIN chunk_groups, g < q,
           NEW m, m # NoMsg,
           \E i \in Places(chunk_groups[g]) : chunk_groups[g].chunks[i] = m
    PROVE  ~Alive(m)
<1>1. PICK c \in Chunks :
          /\ Passed(c) /\ c.group = g
          /\ \A i \in Places(chunk_groups[g]) : chunk_groups[g].chunks[i] \in {NoMsg, c.data}
  BY GroupHolds
<1>2. m = c.data
  BY <1>1
<1>3. ASSUME NEW t \in Receivers PROVE rpc[t] \notin {"add", "remove", "push"}
  <2>1. t = 1 \/ t > clones
    BY DEF Receivers
  <2>2. QED
    BY <2>1 DEF OnlyActive
<1>4. ASSUME NEW i \in DOMAIN Assembled PROVE Assembled[i][1] # m
  <2>1. Out(Assembled[i])
    BY DEF RInv, OutOnce, Results
  <2>2. QED
    BY <2>1 DEF Out
<1>5. ASSUME NEW k, Coming(m, k) PROVE FALSE
  <2>1. pos > 0 /\ g = wire[pos].group
    BY <1>1, <1>2, <1>3, <1>5, ComingIsLast
  <2>2. PICK d \in Chunks : Passed(d) /\ d.group = q
    BY GroupHolds
  <2>3. PICK j \in 1..pos : j \in 1..Len(wire) /\ wire[j] = d
    BY <2>2, PassedGives
  <2>4. pos \in 1..Len(wire) /\ j <= pos
    BY <2>1, <2>3, WireTyped
  <2>5. wire[j].group <= wire[pos].group
    BY <2>3, <2>4, WireGives
  <2>6. wire[j].group = q /\ g \in Nat /\ q \in Nat
    BY <2>2, <2>3, FiniteMap
  <2>7. QED
    BY <2>1, <2>5, <2>6
<1>6. QED
  BY <1>3, <1>4, <1>5 DEF Alive

\* While there is room, clean-up takes away no group that is still wanted.
LEMMA CleanUpSpares ==
    ASSUME TInv, WInv, RInv, DInv, Room, NEW r \in Active, CleanUp(r)
    PROVE  /\ \A t \in Receivers : rpc[t] = "remove" => chunk[t].group \in DOMAIN chunk_groups'
           /\ ~lossy => \A m \in 1..Len(length) : Alive(m) =>
                            \A k : InMap(m, k) => InMap(m, k)'
<1> DEFINE D == DOMAIN chunk_groups
<1>1. /\ DOMAIN chunk_groups' = D \ Evicted(D) /\ rpc[r] = "clean"
      /\ \A q \in DOMAIN chunk_groups' : chunk_groups'[q] = chunk_groups[q]
  BY DEF CleanUp, Restrict
<1>2. IsFiniteSet(D) /\ D \in SUBSET Nat /\ MaxGroups \in Nat /\ MaxGroups >= 1
  BY FiniteMap, BoundsAssumption
<1>3. CASE Evicted(D) = {}
  <2>1. DOMAIN chunk_groups' = D
    BY <1>1, <1>3
  <2>2. ASSUME NEW m, NEW k, InMap(m, k) PROVE InMap(m, k)'
    BY <1>1, <2>1, <2>2 DEF InMap, Places
  <2>3. QED
    BY <2>1, <2>2 DEF DInv, NotEvicted
<1>4. CASE clones = 1 /\ Evicted(D) # {}
  <2>1. r = 1 /\ rpc[1] = "clean" /\ OnlyActive
    BY <1>1, <1>4 DEF Active, DInv
  <2>2. ASSUME NEW t \in Receivers PROVE rpc[t] # "remove"
    <3>1. t = 1 \/ t > clones
      BY <1>4 DEF Receivers
    <3>2. QED
      BY <2>1, <3>1 DEF OnlyActive
  <2>3. PICK g \in D : Evicted(D) = {g} /\ Cardinality(D) > MaxGroups /\ \A q \in D : g <= q
    BY <1>2, <1>4, EvictedGives
  <2>4. \E q \in D : g < q
    <3>1. D # {g}
      <4>1. Cardinality({g}) = 1
        BY FS_Singleton
      <4>2. QED
        BY <1>2, <2>3, <4>1
    <3>2. QED
      BY <1>2, <2>3, <3>1
  <2>5. ASSUME NEW m \in 1..Len(length), Alive(m), NEW k, InMap(m, k) PROVE InMap(m, k)'
    <3>1. PICK q \in D : k \in Places(chunk_groups[q]) /\ chunk_groups[q].chunks[k] = m
      BY <2>5 DEF InMap
    <3>2. m # NoMsg
      BY WireTyped DEF NoMsg
    <3>3. q # g
      BY <1>4, <2>1, <2>4, <2>5, <3>1, <3>2, OldIsLost
    <3>4. q \in DOMAIN chunk_groups' /\ chunk_groups'[q] = chunk_groups[q]
      BY <1>1, <2>3, <3>1, <3>3
    <3>5. QED
      BY <3>1, <3>4 DEF InMap, Places
  <2>6. QED
    BY <2>2, <2>5
<1>5. CASE ~lossy /\ clones + drops <= MaxGroups
  <2>1. Cardinality(Dead) <= drops /\ OnlyActive
    BY <1>5 DEF DInv, LossesCounted
  <2>2. Cardinality(D) <= MaxGroups
    BY <1>1, <1>5, <2>1, FewGroups
  <2>3. Evicted(D) = {}
    <3>1. ~(Cardinality(D) > MaxGroups)
      <4>1. Cardinality(D) \in Nat
        BY <1>2, FS_CardinalityType
      <4>2. QED
        BY <1>2, <2>2, <4>1
    <3>2. QED
      BY <3>1 DEF Evicted
  <2>4. QED
    BY <1>3, <2>3
<1>6. QED
  BY <1>3, <1>4, <1>5 DEF Room

\* Messages are lost one at a time, by dropped calls.
LEMMA DeadOn ==
    ASSUME TInv, WInv, RInv, DInv, Room, ~lossy, [Next]_vars
    PROVE  \/ drops' = drops /\ Dead' \subseteq Dead
           \/ drops' = drops + 1 /\ \E x : Dead' \subseteq Dead \cup {x}
<1>1. TInv' /\ Onwards
  BY NextTyped, EveryStepOnwards
<1>2. Len(length) \in Nat /\ Len(length') \in Nat
  BY <1>1, WireTyped DEF TInv, SendersTyped
<1>3. ASSUME NEW x, length' = length,
             \A m \in 1..Len(length) : Alive(m) /\ m # x => Alive(m)'
      PROVE  Dead' \subseteq Dead \cup {x}
  BY <1>3 DEF Dead
<1>4. ASSUME length' = length, \A m \in 1..Len(length) : Alive(m) => Alive(m)'
      PROVE  Dead' \subseteq Dead
  BY <1>4 DEF Dead
<1>5. ASSUME NEW s \in Senders, Sending(s), drops' = drops PROVE Dead' \subseteq Dead
  <2>1. \A m \in 1..Len(length) : Alive(m) => Alive(m)'
    BY <1>1, <1>5, SendersAlive
  <2>2. CASE length' = length
    BY <1>4, <2>1, <2>2
  <2>3. CASE ReadGroup(s)
    <3>1. PICK n \in Lengths : length' = Append(length, n)
      BY <2>3 DEF ReadGroup
    <3>2. /\ Len(length') = Len(length) + 1
          /\ \A i \in 1..Len(length) : length'[i] = length[i]
      BY <3>1, AppendGives DEF TInv, SendersTyped
    <3>3. ASSUME NEW m \in 1..Len(length'), length'[m] > 0, ~Alive(m)'
          PROVE  m \in Dead
      <4>1. m # Len(length) + 1
        BY <1>1, <2>3, <3>3, NewAlive
      <4>2. m \in 1..Len(length)
        BY <1>2, <3>2, <4>1
      <4>3. QED
        BY <2>1, <3>2, <3>3, <4>2 DEF Dead
    <3>4. QED
      BY <3>3 DEF Dead
  <2>4. QED
    BY <1>5, <2>2, <2>3 DEF Sending, WriteGroup, SendChunk, SendReturns
<1>6. ASSUME NEW s \in Senders, SendDropped(s)
      PROVE  drops' = drops + 1 /\ \E x : Dead' \subseteq Dead \cup {x}
  <2>1. drops' = drops + 1 /\ length' = length
    BY <1>6 DEF SendDropped, Drop
  <2>2. PICK x : x = msg[s]
    OBVIOUS
  <2>3. \A m \in 1..Len(length) : Alive(m) /\ m # x => Alive(m)'
    BY <1>1, <1>6, <2>2, SendersAlive
  <2>4. QED
    BY <1>3, <2>1, <2>3
<1>7. Active \subseteq Receivers
  BY BoundsAssumption DEF TInv, Active, Receivers
<1>8. ASSUME NEW r \in Active, Receiving(r), drops' = drops PROVE Dead' \subseteq Dead
  <2>1. length' = length
    BY <1>8 DEF Receiving, NextReady, DelegateRecv, DelegateFails, AddChunk, RemoveGroup,
       PushCompleted, CleanUp, svars
  <2>2. RemoveGroup(r) => chunk[r].group \in DOMAIN chunk_groups
    BY <1>7 DEF RemoveGroup, DInv, NotEvicted
  <2>3. ASSUME NEW m \in 1..Len(length), Alive(m) PROVE Alive(m)'
    <3>1. CleanUp(r) => \A k \in 0..(length[m] - 1) : InMap(m, k) => InMap(m, k)'
      BY <2>3, CleanUpSpares
    <3>2. QED
      BY <1>1, <1>7, <1>8, <2>2, <2>3, <3>1, ReceiversAlive
  <2>4. QED
    BY <1>4, <2>1, <2>3
<1>9. ASSUME NEW r \in Active, RecvDropped(r)
      PROVE  drops' = drops + 1 /\ \E x : Dead' \subseteq Dead \cup {x}
  <2>1. drops' = drops + 1 /\ length' = length
    BY <1>9 DEF RecvDropped, Drop, svars
  <2>2. PICK x : x = chunk[r].data
    OBVIOUS
  <2>3. /\ RemoveGroup(r) => chunk[r].group \in DOMAIN chunk_groups
        /\ \A m, k : InMap(m, k) => InMap(m, k)'
    <3>1. chunk_groups' = chunk_groups
      BY <1>9 DEF RecvDropped
    <3>2. QED
      BY <1>7, <3>1 DEF RemoveGroup, DInv, NotEvicted, InMap, Places
  <2>4. \A m \in 1..Len(length) : Alive(m) /\ m # x => Alive(m)'
    BY <1>1, <1>7, <1>9, <2>2, <2>3, ReceiversAlive
  <2>5. QED
    BY <1>3, <2>1, <2>4
<1>10. CASE UNCHANGED vars
  <2>1. drops' = drops /\ length' = length
    BY <1>10 DEF vars, svars
  <2>2. \A m : Alive(m)' = Alive(m)
    BY <1>10 DEF vars, svars, rvars, Alive, InMap, Coming, Assembled, Places
  <2>3. QED
    BY <1>4, <2>1, <2>2
<1>11. QED
  BY <1>5, <1>6, <1>8, <1>9, <1>10 DEF Next

LEMMA NextLosses ==
    ASSUME TInv, WInv, RInv, DInv, [Next]_vars PROVE DInv'
<1>1. TInv' /\ Onwards
  BY NextTyped, EveryStepOnwards
<1>2. lossy' = lossy /\ clones' = clones
  BY DEF Next, vars, mode
<1>3. /\ clones \in Nat /\ drops \in Nat /\ drops' \in Nat /\ MaxGroups \in Nat
      /\ Active \subseteq Receivers
  BY <1>1, BoundsAssumption DEF TInv, Receivers, Active
<1>4. drops' \in {drops, drops + 1}
  BY DEF Next, vars, SendDropped, RecvDropped, Drop
<1>5. Room' => Room
  <2>1. clones + drops' <= MaxGroups => clones + drops <= MaxGroups
    <3>1. drops' >= drops
      BY <1>3, <1>4
    <3>2. clones \in Nat /\ drops \in Nat /\ drops' \in Nat /\ MaxGroups \in Nat
      BY <1>3
    <3>3. \A a, b, c, d \in Nat : b >= c /\ a + b <= d => a + c <= d
      OBVIOUS
    <3>4. QED
      BY <3>1, <3>2, <3>3
  <2>2. QED
    BY <1>2, <2>1 DEF Room
<1>6. rpc \in [Receivers -> {"idle", "wait", "add", "remove", "push", "clean", "panicked"}]
  BY DEF TInv, ReceiversTyped
<1>7. ASSUME NEW s \in Senders, Sending(s) \/ SendDropped(s) PROVE UNCHANGED rvars
  BY <1>7 DEF Sending, ReadGroup, WriteGroup, SendChunk, SendReturns, SendDropped, rvars
<1>8. OnlyActive'
  <2>1. CASE UNCHANGED rvars
    BY <1>2, <2>1 DEF rvars, DInv, OnlyActive
  <2>2. ASSUME NEW r \in Active, Receiving(r) \/ RecvDropped(r) PROVE OnlyActive'
    <3>1. \A t \in Receivers : t # r => rpc'[t] = rpc[t]
      BY <1>6, <2>2 DEF Receiving, NextReady, DelegateRecv, DelegateFails, AddChunk,
         RemoveGroup, PushCompleted, CleanUp, RecvDropped
    <3>2. ~(r > clones)
      BY <1>3 DEF Active
    <3>3. QED
      BY <1>2, <3>1, <3>2 DEF DInv, OnlyActive
  <2>3. QED
    BY <1>7, <2>1, <2>2 DEF Next, vars
<1>9. ASSUME Room
      PROVE  /\ \A t \in Receivers : rpc'[t] # "panicked"
             /\ \A t \in Receivers : rpc'[t] = "remove" =>
                    chunk'[t].group \in DOMAIN chunk_groups'
  <2>1. /\ \A t \in Receivers : rpc[t] # "panicked"
        /\ \A t \in Receivers : rpc[t] = "remove" => chunk[t].group \in DOMAIN chunk_groups
    BY <1>9 DEF DInv, NoPanic, NotEvicted
  <2>2. CASE UNCHANGED rvars
    BY <2>1, <2>2 DEF rvars
  <2>3. ASSUME NEW r \in Active, Receiving(r) \/ RecvDropped(r)
        PROVE  /\ \A t \in Receivers : rpc'[t] # "panicked"
               /\ \A t \in Receivers : rpc'[t] = "remove" =>
                      chunk'[t].group \in DOMAIN chunk_groups'
    <3>1. CASE NextReady(r) \/ DelegateFails(r) \/ PushCompleted(r) \/ RecvDropped(r)
      <4>1. chunk_groups' = chunk_groups /\ chunk' = chunk
        BY <3>1 DEF NextReady, DelegateFails, PushCompleted, RecvDropped
      <4>2. \A t \in Receivers : rpc'[t] = rpc[t] \/ rpc'[t] \in {"wait", "idle", "clean"}
        BY <1>6, <3>1 DEF NextReady, DelegateFails, PushCompleted, RecvDropped
      <4>3. QED
        BY <2>1, <4>1, <4>2
    <3>2. CASE DelegateRecv(r)
      <4>1. /\ chunk_groups' = chunk_groups /\ rpc'[r] = "add"
            /\ \A t \in Receivers : t # r => rpc'[t] = rpc[t] /\ chunk'[t] = chunk[t]
        BY <1>3, <1>6, <3>2 DEF DelegateRecv, TInv, ReceiversTyped
      <4>2. QED
        BY <2>1, <4>1
    <3>3. CASE AddChunk(r)
      <4>1. /\ DOMAIN chunk_groups' = DOMAIN chunk_groups \cup {chunk[r].group}
            /\ rpc'[r] \in {"remove", "clean"} /\ chunk' = chunk
            /\ \A t \in Receivers : t # r => rpc'[t] = rpc[t]
        BY <1>3, <3>3, AddGives
      <4>2. QED
        BY <2>1, <4>1
    <3>4. CASE RemoveGroup(r)
      <4>1. /\ DOMAIN chunk_groups' = DOMAIN chunk_groups \ {chunk[r].group}
            /\ chunk' = chunk /\ rpc[r] = "remove"
        BY <3>4 DEF RemoveGroup, Restrict
      <4>2. rpc' = [rpc EXCEPT ![r] = "push"]
        BY <1>3, <2>1, <3>4, <4>1, RemoveGives
      <4>3. ASSUME NEW t \in Receivers, t # r, rpc[t] = "remove"
            PROVE  chunk[t].group # chunk[r].group
        <5>1. Passed(chunk[t]) /\ Passed(chunk[r]) /\ chunk[t].data # chunk[r].data
          BY <1>3, <4>1, <4>3 DEF RInv, HeldOnce, TakenOutOnce
        <5>2. QED
          BY <5>1, PassedAgree
      <4>4. QED
        BY <1>6, <2>1, <4>1, <4>2, <4>3
    <3>5. CASE CleanUp(r)
      <4>1. /\ chunk' = chunk
            /\ \A t \in Receivers : rpc'[t] = rpc[t] \/ rpc'[t] = "idle"
        BY <1>6, <3>5 DEF CleanUp
      <4>2. \A t \in Receivers : rpc[t] = "remove" => chunk[t].group \in DOMAIN chunk_groups'
        BY <1>9, <3>5, CleanUpSpares
      <4>3. QED
        BY <2>1, <4>1, <4>2
    <3>6. QED
      BY <2>3, <3>1, <3>2, <3>3, <3>4, <3>5 DEF Receiving
  <2>4. QED
    BY <1>7, <2>2, <2>3 DEF Next, vars
<1>10. NoPanic' /\ NotEvicted'
  BY <1>5, <1>9 DEF NoPanic, NotEvicted
<1>11. LossesCounted'
  <2> SUFFICES ASSUME ~lossy, Room PROVE Cardinality(Dead') <= drops'
    BY <1>2, <1>5 DEF LossesCounted
  <2>1. Cardinality(Dead) <= drops
    BY DEF DInv, LossesCounted
  <2>2. IsFiniteSet(Dead) /\ Cardinality(Dead) \in Nat
    BY FiniteDead
  <2>3. CASE drops' = drops /\ Dead' \subseteq Dead
    <3>1. Cardinality(Dead') <= Cardinality(Dead) /\ Cardinality(Dead') \in Nat
      BY <2>2, <2>3, FS_Subset, FS_CardinalityType
    <3>2. QED
      BY <1>3, <2>1, <2>2, <2>3, <3>1
  <2>4. ASSUME drops' = drops + 1, NEW x, Dead' \subseteq Dead \cup {x}
        PROVE  Cardinality(Dead') <= drops'
    <3>1. /\ IsFiniteSet(Dead \cup {x})
          /\ Cardinality(Dead \cup {x}) \in {Cardinality(Dead), Cardinality(Dead) + 1}
      BY <2>2, FS_AddElement
    <3>2. Cardinality(Dead') <= Cardinality(Dead \cup {x}) /\ Cardinality(Dead') \in Nat
      BY <2>4, <3>1, FS_Subset, FS_CardinalityType
    <3>3. QED
      BY <1>3, <2>1, <2>2, <2>4, <3>1, <3>2
  <2>5. QED
    BY <2>3, <2>4, DeadOn
<1>12. QED
  BY <1>8, <1>10, <1>11 DEF DInv

LEMMA Losses ==
    ASSUME OneSender PROVE Spec => [](TInv /\ WInv /\ RInv /\ DInv)
<1>1. Init => DInv
  <2> SUFFICES ASSUME Init PROVE DInv
    OBVIOUS
  <2>1. \A r \in Receivers : rpc[r] = "idle"
    BY DEF Init
  <2>2. length = << >> /\ drops = 0
    BY DEF Init
  <2>3. Dead = {}
    BY <2>2 DEF Dead
  <2>4. Cardinality(Dead) <= drops
    BY <2>2, <2>3, FS_EmptySet
  <2>5. QED
    BY <2>1, <2>4 DEF DInv, OnlyActive, NoPanic, NotEvicted, LossesCounted
<1>2. TInv /\ WInv /\ RInv /\ DInv /\ [Next]_vars => DInv'
  BY NextLosses
<1>3. QED
  BY <1>1, <1>2, Routed, PTL DEF Spec

\* With one sender no index and no unwrap of a receiver fails while there is
\* room in the map, or only one task receives.
THEOREM NoPanicCorrect == ASSUME OneSender PROVE Spec => []NoPanic
<1>1. DInv => NoPanic
  BY DEF DInv
<1>2. QED
  BY <1>1, Losses, PTL

\* With one sender, a delegate that loses nothing and room in the map, every
\* message comes out but for one for each call that was dropped.
THEOREM LossesBoundedCorrect == ASSUME OneSender PROVE Spec => []LossesBounded
<1>1. TInv /\ RInv /\ DInv => LossesBounded
  <2> SUFFICES ASSUME TInv, RInv, DInv, ~lossy, Room, pos = Len(wire),
                      \A r \in Receivers : rpc[r] \in {"idle", "wait"}
               PROVE  Cardinality(Missing) <= drops
    BY DEF LossesBounded
  <2>1. Cardinality(Dead) <= drops
    BY DEF DInv, LossesCounted
  <2>2. ASSUME NEW m \in Missing PROVE m \in Dead
    <3>1. /\ m \in 1..Len(length) /\ length[m] > 0
          /\ \A s \in Senders : msg[s] = m => spc[s] = "idle"
          /\ \A i \in DOMAIN Assembled : Assembled[i] # Whole(m)
      BY SentTyped DEF Missing
    <3>2. ASSUME NEW i \in DOMAIN Assembled PROVE Assembled[i][1] # m
      <4>1. Out(Assembled[i])
        BY DEF RInv, OutOnce, Results
      <4>2. QED
        BY <3>1, <4>1 DEF Out
    <3>3. ASSUME NEW k PROVE ~Coming(m, k)
      <4>1. (pos + 1)..Len(wire) = {}
        BY WireTyped
      <4>2. QED
        BY <3>1, <4>1 DEF Coming
    <3>4. ~Alive(m)
      BY <3>2, <3>3 DEF Alive
    <3>5. QED
      BY <3>1, <3>4 DEF Dead
  <2>3. Cardinality(Missing) <= Cardinality(Dead) /\ Cardinality(Missing) \in Nat
    BY <2>2, FiniteDead, FS_Subset, FS_CardinalityType
  <2>4. drops \in Nat
    BY BoundsAssumption DEF TInv
  <2>5. QED
    BY <2>1, <2>3, <2>4, FiniteDead
<1>2. QED
  BY <1>1, Losses, PTL
=============================================================================
