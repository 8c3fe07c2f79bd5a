------------------------------- MODULE Chunker -------------------------------
(***************************************************************************)
(* Chunker of transform.rs: send() cuts a message into chunks of one group *)
(* and recv() puts groups together again.  Handles are clones of one       *)
(* another, so several tasks may send and several may receive at once; the *)
(* steps are what each lock protects.                                      *)
(*                                                                         *)
(* The delegate is a session under its transport: the ordered LossyChannel *)
(* that LossyTransport implements.  Here it is the sequence of chunks      *)
(* written and the place the reader has got to; what the reader skips is   *)
(* lost.  A message is a number, and what matters of it is the number of   *)
(* its chunks.                                                             *)
(***************************************************************************)
EXTENDS Naturals, Sequences, FiniteSets, Functions

CONSTANTS Senders,             \* tasks, each with a clone of the Chunker
          MaxReceivers,        \* bound on the tasks that receive
          Lengths,             \* chunks a message may have (0: empty data)
          MaxSends,            \* bound on the messages sent
          MaxGroups,           \* groups kept, 10 in add_chunk
          MaxDrops             \* bound on the futures dropped unfinished

ASSUME LengthsAssumption == Lengths \subseteq Nat
ASSUME BoundsAssumption ==
    MaxSends \in Nat /\ MaxDrops \in Nat /\ {MaxGroups, MaxReceivers} \subseteq Nat \ {0}

VARIABLES lossy,            \* the delegate may lose chunks, or none is lost
          clones,           \* how many tasks receive
          current_group,    \* the shared counter
          holder,           \* senders that hold its lock: at most one
          spc, msg, group,  \* each sender: place, message, group it read
          next,             \* and the index of its next chunk
          length,           \* number of chunks of each message so far
          wire, pos,        \* the delegate: chunks written, and those passed
          chunk_groups,     \* BTreeMap from group to ChunkGroup
          completed_chunks, \* VecDeque of assembled messages
          rpc, chunk,       \* each receiver: place, and the chunk it has
          ready,            \* the assembled message it is about to queue
          received,         \* history: what recv() returned, in order
          drops             \* history: send() and recv() futures dropped

svars == <<current_group, holder, spc, msg, group, next, length, wire>>
rvars == <<pos, chunk_groups, completed_chunks, rpc, chunk, ready, received>>
mode == <<lossy, clones>>
vars == <<mode, svars, rvars, drops>>

Receivers == 1..MaxReceivers
Active == 1..clones

Msgs == 1..MaxSends
NoMsg == 0
NoChunk == [group |-> 0, index |-> 0, group_length |-> 0, data |-> NoMsg]

\* A sent message, as recv() should return it: each of its chunks.
Whole(m) == [i \in 1..length[m] |-> m]

TypeOK ==
    /\ lossy \in BOOLEAN /\ clones \in Receivers
    /\ current_group \in 0..MaxSends /\ holder \subseteq Senders
    /\ spc \in [Senders -> {"idle", "read", "send"}]
    /\ \A s \in Senders : /\ msg[s] \in Msgs \cup {NoMsg}
                          /\ group[s] \in 0..MaxSends
                          /\ next[s] \in Nat
    /\ length \in Seq(Lengths) /\ pos \in 0..Len(wire)
    /\ DOMAIN chunk_groups \subseteq 0..MaxSends
    /\ \A g \in DOMAIN chunk_groups :
           DOMAIN chunk_groups[g].chunks = 0..(chunk_groups[g].group_length - 1)
    /\ rpc \in [Receivers -> {"idle", "wait", "add", "remove", "push", "clean",
                              "panicked"}]
    /\ drops \in 0..MaxDrops

Init ==
    /\ lossy \in BOOLEAN /\ clones \in Receivers
    /\ current_group = 0 /\ holder = {}
    /\ spc = [s \in Senders |-> "idle"] /\ msg = [s \in Senders |-> NoMsg]
    /\ group = [s \in Senders |-> 0] /\ next = [s \in Senders |-> 0]
    /\ length = << >> /\ wire = << >> /\ pos = 0
    /\ chunk_groups = << >> /\ completed_chunks = << >>
    /\ rpc = [r \in Receivers |-> "idle"]
    /\ chunk = [r \in Receivers |-> NoChunk]
    /\ ready = [r \in Receivers |-> << >>]
    /\ received = << >> /\ drops = 0

-----------------------------------------------------------------------------
\* Mutated forms of the definitions below, for the mutation runs.
AlmostComplete(g) == g.size + 1 >= g.group_length
CountedTwice(s) ==
    /\ spc[s] = "read" /\ holder = {}
    /\ holder' = {s} /\ current_group' = group[s] + 2
    /\ spc' = [spc EXCEPT ![s] = "send"]
    /\ UNCHANGED <<msg, group, next, length, wire>> /\ UNCHANGED rvars
CounterNotMoved(s) ==
    /\ spc[s] = "read" /\ holder = {}
    /\ holder' = {s} /\ current_group' = group[s]
    /\ spc' = [spc EXCEPT ![s] = "send"]
    /\ UNCHANGED <<msg, group, next, length, wire>> /\ UNCHANGED rvars
DelegateReorders(r) ==
    /\ rpc[r] = "wait"
    /\ \E i \in DOMAIN wire \ {pos} :
           chunk' = [chunk EXCEPT ![r] = wire[i]] /\ pos' = i
    /\ rpc' = [rpc EXCEPT ![r] = "add"]
    /\ UNCHANGED <<chunk_groups, completed_chunks, ready, received>>
    /\ UNCHANGED svars
EvictLate(S) == IF Cardinality(S) > MaxGroups + 1
                THEN {CHOOSE g \in S : \A h \in S : g <= h} ELSE {}
EvictNewest(S) == IF Cardinality(S) >= MaxGroups
                  THEN {CHOOSE g \in S : \A h \in S : g >= h} ELSE {}

-----------------------------------------------------------------------------
\* send() reads the counter under the lock and lets the lock go ...
ReadGroup(s) ==
    /\ spc[s] = "idle" /\ holder = {} /\ Len(length) < MaxSends
    /\ \E n \in Lengths : length' = Append(length, n)
    /\ msg' = [msg EXCEPT ![s] = Len(length) + 1]
    /\ group' = [group EXCEPT ![s] = current_group]
    /\ next' = [next EXCEPT ![s] = 0]
    /\ spc' = [spc EXCEPT ![s] = "read"]
    /\ UNCHANGED <<current_group, holder, wire>> /\ UNCHANGED rvars

\* ... takes it again to write the number after the one it read, and this
\* time keeps it until send() returns.
WriteGroup(s) ==
    /\ spc[s] = "read" /\ holder = {}
    /\ holder' = {s} /\ current_group' = group[s] + 1
    /\ spc' = [spc EXCEPT ![s] = "send"]
    /\ UNCHANGED <<msg, group, next, length, wire>> /\ UNCHANGED rvars

\* One chunk goes to the delegate.
SendChunk(s) ==
    /\ spc[s] = "send" /\ next[s] < length[msg[s]]
    /\ wire' = Append(wire, [group |-> group[s], index |-> next[s],
                             group_length |-> length[msg[s]], data |-> msg[s]])
    /\ next' = [next EXCEPT ![s] = @ + 1]
    /\ UNCHANGED <<current_group, holder, spc, msg, group, length>>
    /\ UNCHANGED rvars

\* send() returns: all chunks are out (at once when the data was empty), or,
\* on a lossy delegate, one failed and the rest is never sent.
SendReturns(s) ==
    /\ spc[s] = "send"
    /\ lossy \/ next[s] = length[msg[s]]
    /\ holder' = holder \ {s}
    /\ spc' = [spc EXCEPT ![s] = "idle"]
    /\ UNCHANGED <<current_group, msg, group, next, length, wire>>
    /\ UNCHANGED rvars

-----------------------------------------------------------------------------
\* recv(): next_ready_chunk() gives an assembled message ...
NextReady(r) ==
    /\ rpc[r] = "idle"
    /\ IF completed_chunks # << >>
       THEN /\ received' = Append(received, Head(completed_chunks))
            /\ completed_chunks' = Tail(completed_chunks)
            /\ UNCHANGED rpc
       ELSE /\ rpc' = [rpc EXCEPT ![r] = "wait"]
            /\ UNCHANGED <<received, completed_chunks>>
    /\ UNCHANGED <<pos, chunk_groups, chunk, ready>> /\ UNCHANGED svars

\* ... or recv() waits for a chunk of the delegate.  The peer is taken to be a
\* Chunker too: what it sent is a chunk, and deserialize(..).unwrap() holds.
DelegateRecv(r) ==
    /\ rpc[r] = "wait"
    /\ \E i \in pos + 1 .. Len(wire) :
           /\ lossy \/ i = pos + 1
           /\ chunk' = [chunk EXCEPT ![r] = wire[i]]
           /\ pos' = i
    /\ rpc' = [rpc EXCEPT ![r] = "add"]
    /\ UNCHANGED <<chunk_groups, completed_chunks, ready, received>>
    /\ UNCHANGED svars

\* The delegate fails (its session is gone), and so does recv().
DelegateFails(r) ==
    /\ rpc[r] = "wait"
    /\ rpc' = [rpc EXCEPT ![r] = "idle"]
    /\ UNCHANGED <<pos, chunk_groups, completed_chunks, chunk, ready, received>>
    /\ UNCHANGED svars

\* ChunkGroup::is_complete, which counts chunks without telling them apart.
IsComplete(g) == g.size = g.group_length

\* The group of the chunk, made on its first chunk with that chunk's length.
GroupOf(c) ==
    IF c.group \in DOMAIN chunk_groups THEN chunk_groups[c.group]
    ELSE [chunks |-> [i \in 0..(c.group_length - 1) |-> NoMsg],
          size |-> 0, group_length |-> c.group_length]

\* ChunkGroup::add_chunk.
Placed(g, c) == [g EXCEPT !.size = @ + 1, !.chunks[c.index] = c.data]

\* add_chunk: under the lock the chunk goes into its place.  A place the
\* group does not have is a panic (Vec::remove).
AddChunk(r) ==
    /\ rpc[r] = "add"
    /\ LET c == chunk[r]
           g == Placed(GroupOf(c), c)
       IN  IF c.index < GroupOf(c).group_length
           THEN /\ chunk_groups' = [h \in DOMAIN chunk_groups \cup {c.group} |->
                                       IF h = c.group THEN g ELSE chunk_groups[h]]
                /\ rpc' = [rpc EXCEPT ![r] = IF IsComplete(g) THEN "remove" ELSE "clean"]
           ELSE /\ rpc' = [rpc EXCEPT ![r] = "panicked"]
                /\ UNCHANGED chunk_groups
    /\ UNCHANGED <<pos, completed_chunks, chunk, ready, received>>
    /\ UNCHANGED svars

\* A complete group is taken out and collected, under another lock of the
\* map: it may have gone, or have a hole, and then this panics (unwrap).
RemoveGroup(r) ==
    /\ rpc[r] = "remove"
    /\ LET g == chunk[r].group
       IN  IF /\ g \in DOMAIN chunk_groups
              /\ NoMsg \notin Range(chunk_groups[g].chunks)
           THEN /\ ready' = [ready EXCEPT ![r] =
                       [i \in 1..chunk_groups[g].group_length |->
                            chunk_groups[g].chunks[i - 1]]]
                /\ rpc' = [rpc EXCEPT ![r] = "push"]
           ELSE rpc' = [rpc EXCEPT ![r] = "panicked"] /\ UNCHANGED ready
    /\ chunk_groups' = Restrict(chunk_groups, DOMAIN chunk_groups \ {chunk[r].group})
    /\ UNCHANGED <<pos, completed_chunks, chunk, received>>
    /\ UNCHANGED svars

\* The assembled message is queued.
PushCompleted(r) ==
    /\ rpc[r] = "push"
    /\ completed_chunks' = Append(completed_chunks, ready[r])
    /\ rpc' = [rpc EXCEPT ![r] = "clean"]
    /\ UNCHANGED <<pos, chunk_groups, chunk, ready, received>>
    /\ UNCHANGED svars

\* if len() > 10 { pop_first() }
Evicted(S) == IF Cardinality(S) > MaxGroups
              THEN {CHOOSE g \in S : \A h \in S : g <= h} ELSE {}

CleanUp(r) ==
    /\ rpc[r] = "clean"
    /\ chunk_groups' = Restrict(chunk_groups,
                           DOMAIN chunk_groups \ Evicted(DOMAIN chunk_groups))
    /\ rpc' = [rpc EXCEPT ![r] = "idle"]
    /\ UNCHANGED <<pos, completed_chunks, chunk, ready, received>>
    /\ UNCHANGED svars

-----------------------------------------------------------------------------
\* A future is dropped while it waits for a lock or for the delegate.  What it
\* did stays done, what it held in its locals is gone.
Drop == drops < MaxDrops /\ drops' = drops + 1

SendDropped(s) ==
    /\ spc[s] # "idle" /\ Drop
    /\ holder' = holder \ {s}
    /\ spc' = [spc EXCEPT ![s] = "idle"]
    /\ UNCHANGED <<current_group, msg, group, next, length, wire>>
    /\ UNCHANGED rvars

RecvDropped(r) ==
    /\ rpc[r] \notin {"idle", "panicked"} /\ Drop
    /\ rpc' = [rpc EXCEPT ![r] = "idle"]
    /\ UNCHANGED <<pos, chunk_groups, completed_chunks, chunk, ready, received>>
    /\ UNCHANGED svars

Sending(s) == ReadGroup(s) \/ WriteGroup(s) \/ SendChunk(s) \/ SendReturns(s)
Receiving(r) == \/ NextReady(r) \/ DelegateRecv(r) \/ DelegateFails(r)
                \/ AddChunk(r)
                \/ RemoveGroup(r) \/ PushCompleted(r) \/ CleanUp(r)

Next ==
    /\ \/ \E s \in Senders : (Sending(s) /\ UNCHANGED drops) \/ SendDropped(s)
       \/ \E r \in Active : (Receiving(r) /\ UNCHANGED drops) \/ RecvDropped(r)
    /\ UNCHANGED mode

Spec == Init /\ [][Next]_vars

-----------------------------------------------------------------------------
Assembled == received \o completed_chunks

\* What recv() returns was sent: no message is put together from chunks of
\* two, none has a chunk missing.
Intact == \A i \in DOMAIN Assembled : \E m \in DOMAIN length : Assembled[i] = Whole(m)

\* The abstract channel, with the messages numbered as they are sent.
Channel == INSTANCE LossyChannel WITH
    Data <- {[i \in 1..n |-> m] : n \in Lengths, m \in Msgs},
    Stamps <- Msgs,
    Ordered <- FALSE,
    sent <- {[nonce |-> m, data |-> Whole(m)] : m \in DOMAIN length},
    delivered <- [i \in DOMAIN Assembled |->
                     [nonce |-> Assembled[i][1], data |-> Assembled[i]]]

\* Over whole messages the Chunker is again the lossy at-most-once channel it
\* has for chunks: whatever chunks are lost and whichever calls are dropped,
\* a message comes out whole and once, or not at all.
ImplementsChannel == Channel!Spec

\* If one task receives, messages come out in the order they were sent.
InOrder ==
    clones = 1 => \A i, j \in DOMAIN Assembled :
                      i < j => Assembled[i][1] < Assembled[j][1]

\* The map has room for a group of each receiver and one of each dropped
\* call, which may leave a complete group behind, and no loss leaves others;
\* or only one task receives, and what it evicts is older than what it
\* assembles.
Room == clones = 1 \/ (~lossy /\ clones + drops <= MaxGroups)

\* No index and no unwrap of a receiver fails while there is room.
NoPanic == Room => \A r \in Receivers : rpc[r] # "panicked"

\* What remove(&group_id).unwrap() asserts: a group that is_complete() has said
\* to be complete is still in the map when its receiver has the lock again,
\* for the clean-up takes old groups ("Clean up old chunk groups").
CompleteGroupKept ==
    \A r \in Receivers : rpc[r] = "remove" => chunk[r].group \in DOMAIN chunk_groups

\* Partial groups do not pile up: the map holds at most MaxGroups, one for
\* each receiver inside add_chunk, and one for each call that was dropped or
\* panicked there before its clean-up.
GroupsBounded ==
    Cardinality(DOMAIN chunk_groups)
        <= MaxGroups + drops
           + Cardinality({r \in Receivers :
                             rpc[r] \in {"remove", "clean", "panicked"}})

Missing ==
    {m \in DOMAIN length :
        /\ length[m] > 0 /\ \A s \in Senders : msg[s] = m => spc[s] = "idle"
        /\ \A i \in DOMAIN Assembled : Assembled[i] # Whole(m)}

\* When the delegate loses nothing and there is room, every message comes
\* out, but for one for each call that was dropped.
LossesBounded ==
    /\ ~lossy /\ Room /\ pos = Len(wire)
    /\ \A r \in Receivers : rpc[r] \in {"idle", "wait"}
    => Cardinality(Missing) <= drops
=============================================================================
