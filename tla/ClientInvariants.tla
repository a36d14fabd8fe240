-------------------------- MODULE ClientInvariants --------------------------
(***************************************************************************)
(* The inductive invariant of Client, in named parts: where each packet of *)
(* the connection is, which bytes the packets hold, and what was parsed.   *)
(***************************************************************************)
EXTENDS Client

\* How many packets handlers have taken off the queue.
Popped == Len(packets) - Len(queue)

\* The queue holds the last packets, in order.
QueueInOrder ==
    /\ Len(queue) <= Len(packets)
    /\ \A i \in DOMAIN queue : queue[i] = Popped + i - 1

\* A packet taken off the queue is with one handler, is kept once, or was handled.
HeldOnce ==
    \A h \in Handlers : held[h] # None =>
        /\ held[h] \in expected .. Popped - 1 /\ held[h] \notin kept
        /\ \A g \in Handlers : held[g] = held[h] => g = h

KeptLater == expected <= Popped /\ kept \subseteq expected + 1 .. Popped - 1

NoneMissing ==
    ~ mbError => \A m \in expected .. Popped - 1 : m \in kept \/ \E h \in Handlers : held[h] = m

\* While nothing was dropped, packet n begins where the one before it ends.
At(n) == IF n < Len(packets) THEN packets[n + 1][1] ELSE received + 1

PacketsAdjoin ==
    ~ gap => /\ At(0) = 1 /\ \A n \in 0 .. Len(packets) : At(n) \in 1 .. received + 1
             /\ \A n \in 0 .. Len(packets) - 1 :
                   /\ At(n) < At(n + 1)
                   /\ packets[n + 1] = Bytes(At(n), At(n + 1) - At(n))

\* The commands given are the first of the stream, and mBuffer holds what follows them,
\* up to the packet expected unless there was an error.
ParsedUpToPacket(d, end) ==
    /\ given = [i \in 1 .. d - 1 |-> Command(i)] /\ \A i \in 1 .. d - 1 : Lens[i] >= 0
    /\ StartOf[d] <= end /\ mBuffer = Bytes(StartOf[d], end - StartOf[d])
    /\ ~ mbError => end = At(expected)

ParsedInOrder ==
    ~ gap => \E d \in 1 .. Len(Lens) + 1, end \in 0 .. received + 1 : ParsedUpToPacket(d, end)

BufferPartial == ~ mbError => mBuffer \in Partial

PoolSum == idle + Cardinality(kept) + lost = PoolSize

ClientInv ==
    /\ TypeOK /\ QueueInOrder /\ HeldOnce /\ KeptLater /\ NoneMissing
    /\ PacketsAdjoin /\ ParsedInOrder /\ BufferPartial /\ PoolSum
=============================================================================
