---------------------------- MODULE MCPacketForward ----------------------------
(* Instances of PacketForward for TLC: which packets arrive.                *)
EXTENDS PacketForward, TLC

Alike == Permutations(Contexts) \cup Permutations(Threads)

\* Away from the root with a vector of table bits, towards it, and ENTL.
Multicast(bits) == [entl |-> FALSE, fw |-> TRUE, rootward |-> FALSE, parent |-> 0, fw_vector |-> bits]
ToRoot(port) == [entl |-> FALSE, fw |-> TRUE, rootward |-> TRUE, parent |-> port + 1, fw_vector |-> {}]
Event == [entl |-> TRUE, fw |-> FALSE, rootward |-> FALSE, parent |-> 0, fw_vector |-> {}]

\* Ports 6 and 7 share the contexts and the counters of an island and, as in
\* the build, one sender for their events.  Ports 2 and 3 are counted in one
\* word; port 3 has no sender here, what is queued for it stays on its ring.
\* One packet is also for the host; the event of port 7 is also forwarded
\* and keeps its buffer.
LastIn == {6, 7}
LastOut == {2}
LastArrivals == [p \in LastIn |->
  IF p = 6 THEN <<ToRoot(2), Multicast({0, 3}), Event>>
  ELSE <<[ToRoot(3) EXCEPT !.entl = TRUE]>>]

\* Port 0 alone, with packets for ports 2 and 3, for itself and for nobody.
OnePort == {0}
OnePortArrivals == [p \in OnePort |-> <<Multicast({1, 3, 4}), Event, ToRoot(2), Multicast({0})>>]
FirstThree == {1, 2, 3}

RingZero == [q \in OutPorts |-> 0]
SenderOne == [p \in InPorts |-> 1]

\* The packets of port 0 pass through the reorder ring of its island the way
\* ReorderRing says: alone, oldest first, and all of them.
Ring0 == INSTANCE ReorderRing
         WITH Packets <- Len(Arrivals[0]), arrived <- arrived[0],
              head <- head[ReorderRingOf(0)], word <- word[ReorderRingOf(0)],
              pc <- RingPc(0), seq <- RingSeq(0)
RingServes == Ring0!FairSpec
=============================================================================
