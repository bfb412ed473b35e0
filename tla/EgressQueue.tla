------------------------------ MODULE EgressQueue ------------------------------
(***************************************************************************)
(* Where the packets of a port are handled: the operators of egress_queue.c*)
(* and get_ring_num of cls_reorder.c.  A port is an island, a reorder ring *)
(* for what comes in, an egress ring for what goes out, an NBI, and a      *)
(* sequencer of the NBI's traffic manager.                                 *)
(***************************************************************************)
EXTENDS Integers

Port == 0 .. 7

\* The island that receives from a port and runs its sender.
Island(port) == IF port = 7 THEN 38 ELSE 32 + port

\* The reorder ring of that island that the packets of the port go through.
get_ring_num(port) == IF port = 7 THEN 1 ELSE 0

ReorderRingOf(port) == <<Island(port), get_ring_num(port)>>

\* The egress ring that packets leaving on the port are queued on; 0 and 1
\* stand for PACKET_RING_NUM_0 and PACKET_RING_NUM_1.
get_island_ring(port) == <<Island(port), IF port = 7 THEN 1 ELSE 0>>

get_nbi(port) == IF port < 4 THEN 0 ELSE 1

\* Sequencer 0 is for ENTL packets.
get_sequencer(port) == port + 1

\* The word get_sequence_num counts in: the array and the index.
SequenceWord(port) == <<IF port < 7 THEN 0 ELSE 1, port \div 2>>
=============================================================================
