# A TLA+ model of the Earth Computing link protocol (ENTL) on Netronome NFP

The repository is a snapshot of the NFP SDK with the programs Earth Computing
wrote for it. Their own logic lives below
`src/nfp-sdk-sim-6.0.1/examples/nfsim/` (`N/` from here on): a library,
`N/entl_libs/`, and programs that run it on microengines and on the host side
of the simulator. The library implements ENTL, a link on which exactly one
event is outstanding at any time. Event numbers are exchanged like a token,
messages (AIT) and atomic operations on registers (ALO) ride on the events.

## 1. Inventory

| Part | State | Operations | What is hard | What makes it correct |
|---|---|---|---|---|
| ENTL state machine `N/entl_libs/entl_state_machine.[ch]` | current state, last number received, last sent and next, greeting value, greeting count, error count and flags | `entl_state_init`, `entl_received`, `entl_next_send`, `entl_state_error` | two machines, no common clock; the greeting; packets lost, repeated, late; 16 bit numbers; full queues; a silent end after an error | one token; no sequence error without a fault; AIT exactly once; the token keeps moving without loss |
| Atomic link operations `N/entl_libs/atomic_link_op.[ch]` | 32 registers, result buffer, return value and flag, pending operation, flags | `alo_regs_init`, `alo_initiate`, `alo_exec`, `alo_complete`, `alo_update` | the four calls of one operation happen at two ends with three packets between them; refusal at either end; wrapping arithmetic | both ends' registers change as by one step, or neither does |
| One microengine loop and its host peer `N/entl_packet_test/entl_packet_sender.c`, `entl_packet_test_run.c` | the machine, one reused CTM packet, the packet handed over by the receiver | wait for a packet, `entl_received`, `entl_next_send`, rewrite and send | the reply goes out in the packet that came in; the host calls `entl_next_send` only after a result other than NOP | every event answered once, every CTM packet sent or freed |
| Receiver microengine and reflection `N/entl_packet_test/entl_packet_receiver.c`, `N/entl_libs/entl_reflect.*` | transfer registers of the sender, a signal | write the registers of another microengine, then its signal | several receiver threads, one set of registers, no handshake back | no descriptor overwritten before it is read |
| Loop with receiver threads `N/entl_packet_forward_test/entl_packet_forward_test.c`, the same program in `N/entl_packet_test/entl_packet_test.c`; at the other end the host program `entl_packet_test_run.c` | the machine under `state_lock`, two signals, `keep_pkt_num`, the CTM buffers; at the host the last return value | seven contexts receive, context 0 sends on a signal and an alarm; the host reads what is there, then sends at most once | coalesced signals, the alarm, `keep_pkt_num` shared without the lock, buffers reused before they have left | no wake-up lost; a buffer has one owner; no sequence error from a signal too many; the wait ends |
| Forwarding receivers `N/entl_packet_forward_test/entl_packet_receiver.c` | per context: the packet at hand, the ports still to serve | receive, reflect an ENTL packet to a sender, look up, lock, number, clone, queue, unlock | 88 contexts of 11 microengines on one island; packets for several ports; a packet queued and then cloned | order of a port kept; each packet queued once for each port of its entry; each buffer intact while used |
| Forwarding senders `N/entl_packet_forward_test/entl_packet_sender.c` | context 0: the ENTL machine and the registers receivers write; the others: the packet at hand | context 0 answers ENTL packets; the others take a packet, rewrite it, hand it to the NBI | threads overtake each other; registers written by others at any time | answers on the link a packet came from; buffers freed once; packets leave in the order of their numbers |
| Egress queues `N/entl_libs/egress_queue.*` | two rings and two arrays of counters per island | `get_packet_data`, `put_packet_data`, `get_sequence_num`, the tables of islands, rings, NBIs and sequencers | a number taken in two instructions; tables that have to agree with one another and with the build | numbers unique per sequencer, without gaps; a ring's packets have a sender |
| Reorder lock `N/entl_libs/cls_reorder.*` | two rings of 64 words per island | `reorder_ring_init`, `reorder_lock`, `reorder_unlock`, `get_ring_num` | contexts of several microengines lock in any order; numbers wrap at 64 | one inside, oldest first; every waiter is signalled |
| Forwarding table `N/entl_libs/fw_table_access.*` | entries in memory | `read_entry`, `update_entry` | an entry read before the lock | none of its own |
| CLS ring `N/entl_libs/my_cls_ring.*` | a hardware ring | vendor intrinsics copied, the ordered lock among them | none of its own | what its comments promise is the lock of `ReorderRing` |
| `N/entl_libs/entl_state_machine_2.*` | as the first machine | as the first machine | unfinished: it does not compile (a declaration without a semicolon and with an undeclared type in the header, unbalanced parentheses in the code) | none |
| `src/ecnl_device/` | netlink families, net devices | kernel driver | it does not compile and has no Makefile; the driver interface it calls is outside the repository | none stated |
| `src/demo/` | a log file | rewinds it into a socket | none | none |
| Everything else | | | vendored SDK, drivers, examples, `node_modules` | |

The library has no threads and no I/O of its own. Its callers decide when it is
called, hand it packets and put the packets it composes on the wire, keep the
queues of outgoing messages and act on the flags it returns:
`PROC_AIT` keep the message just received, `SIG_AIT` deliver the one kept,
`DROP_AIT` take the head off the outgoing queue, `SEND` send something.

## 2. Modules

| Module | Models | State and actions |
|---|---|---|
| `EntlStateMachine` | both switches of the library for one end `s` | `mcn[s]` is `entl_state_machine_t`, `act[s]` the last return value, `chan[s]` the wire towards `s`. `ReceivedHello` ... `ReceivedRBL`: one operator per case of `entl_received`; `SendHello` ... `SendNothing`: per case of `entl_next_send` |
| `EntlLink` | two ends, the wire, the callers | `Offer` (the caller queues a transfer), `Receive` (one packet through `entl_received`, by a host also while the result of the last one is not answered yet: `Reads`), `Send` (one call of `entl_next_send`), `Lose` |
| `EntlFaultyLink` | the same under faults | `EarlyCall` (a signal too many: `entl_next_send` with nothing received), `Repeat`, `Restart`, `EntlStateError`; the histories `drawn` (the greeting numbers each end has had) and `overread` |
| `AitTransfer` | what ENTL promises about messages: taken off a queue, then delivered once, before the next one of either end is taken | `queued`, `dropped`, `done`, `got`; `Put`, `TakeMessage`, `TakeCommand`, `Deliver` |
| `EntlRegularLink` | the assumptions under which a link never fails, the inductive invariants `IInv` (machines and wire) and `AgreementInv` (queues and messages), the refinement of `AitTransfer` | no state of its own |
| `EntlThreadedLink` | a microengine with receiver contexts (end A) and the host program (end B), around the same library operators | `rx[r]`, `line` the contexts and the packets they hold, `sig` and `alarm` the signals of context 0, `keep` `keep_pkt_num`, `tx` context 0, `content`, `pool`, `egress` the CTM buffers, `wire`, `heard` the host's last result; one action per stretch between two memory accesses or waits |
| `AtomicLinkOp` | the functions of `atomic_link_op.c` on a record of registers | no variables |
| `AtomicRegisters` | what an ALO promises: a command changes the registers it names at both ends in one step | `regs`, `todo`; `Issue`, `Do` |
| `AloLink` | `EntlLink` with the registers of each end and what travels with each packet; the inductive invariant `AloInv` | `alo`, `cmd`, `load`; each step is a step of `EntlLink` |
| `EgressQueue` | the tables of `egress_queue.c` and `get_ring_num` | operators only |
| `ReorderRing` | one reorder ring and the contexts that use it | `head`, `word[w]` the signal stored in a word, `pc[c]`, `seq[c]`; `Receive`, `reorder_lock`, `reorder_unlock` |
| `PacketForward` | the forwarding plane: every receiver context, every sender, the queues between them | `rx[i][c]` a receiver context, `count` the counters, `ring` the egress rings, `tx[q][t]` a sender's thread, `reflected[q]` and `entl[q]` its context 0, `tm`, `due`, `left` the traffic manager; one action per stretch of code between two points where another context may run. Two histories, `overrun` (ports that had more packets under way than words) and `met` (islands where contexts of two ports were in one count at a time), say where order may be lost. Its last sections have the inductive invariants `OrderInv` and `EventInv` |
| `EntlStateMachineProofs` | lemmas about the operators of the library | |
| `EntlLinkProofs`, `EntlRegularLinkProofs`, `EntlFaultyLinkProofs`, `AloLinkProofs`, `EntlThreadedLinkProofs`, `ReorderRingProofs`, `PacketForwardProofs` | theorems | |
| `MC*` | values of the constants for TLC | |

### How the code corresponds

* `mcn` keeps the fields the code tests. `error_count` is kept as "not zero",
  the only question asked of it (`entl_state_machine.c:627`); `error_flag`,
  `p_error_flag`, `error_state` and `credit` are written and never read.
* `act` keeps the flags a caller acts on. `ENTL_ACTION_ERROR` is -1, a word
  with all flags set; a caller has to test for it before it tests a flag, the
  model's caller does.
* The state IDLE is left out, since every program sets HELLO right after
  `entl_state_init`; so are packets of type NOP, since no program sends one.
* The address word of a packet is a record: its type, its event number and,
  for an AITS, whether its opcode is an ALO one. The field `id` is no field of
  the packet: it says which message the payload carries, so that delivery can be
  compared with the sender's queue.
* The random number `entl_set_random` draws is one of `Redraw[s]`; on the
  microengine it is the constant `0xbeef`, on the host any 16 bit number.
* `wake[s]` is true from a result that asks for an answer to the call of
  `entl_next_send`, or to the next result, if the host reads on: `read_packet` goes through all
  packets that wait and returns the last result only (`entl_packet_test_run.c:237`, `:257`),
  so an event accepted and then a packet for which the result is NOP are not answered.
  `Polling` are the ends whose loop calls `entl_next_send` after every packet
  (`entl_packet_sender.c:366-380`), the others do it when the result was not
  NOP (`entl_packet_test_run.c:410-418`). `Starters` are those that call it
  before any packet came, like context 0 of the forward test on its first signal
  (`entl_packet_forward_test.c:384`).
* A caller that gets SEND_ALO or an AIT back does not change its queue; it does
  on DROP_AIT. The queue length is what it passes as `ait_queue`.
* In `EntlThreadedLink` the contexts do not preempt each other, so an action runs
  to the next memory access or wait. The library is called between
  `MUTEXLV_lock` and `MUTEXLV_unlock` and swaps nowhere inside (`Deliver`, `Call`).
  `keep_pkt_num` is shared by all contexts; where the compiler puts it is not
  said (`fw_table_access.h:30` leaves the region of such variables open), so each
  access of it is a step of its own: `Deliver` writes it, `ChooseKept` and `Pick` read it
  twice, `Clear` clears it.
* `wait_with_timeout` sets an alarm (`Ring`) and calls `wait_sig_mask` with both
  signals. That writes both as wake-up events and swaps with `ctx_arb[--]`
  (`src/c_packetprocessing-master/microc/lib/nfp/_c/me.c:53`); the ANY bit is not
  set (`nfp_me.h:290`), so `WaitWithTimeout` asks for both.
* `Rewrite` writes the answer over whatever the buffer holds; `Depart` sends what it
  holds when its turn comes. The own buffer of context 0 is sent without being
  freed (`pkt_nbi_send_dont_free`), so both may meet.
* The host (`entl_packet_test_run.c:229-274`) calls `entl_received` for every packet
  that is there and keeps the last result only (`heard`); the simulator stands
  still while it reads, so it sends when nothing more is there (`HostSend`).
* In `AloLink` the flags word is reduced to the change bit and the register
  number beside it. An opcode is a name with a condition or bit number. The
  word a bit operation sends is any word: `alo_initiate` leaves `*s_value` as
  the caller had it. `WireDt` is what becomes of the register number between
  `SET_ECLP_ALO` and `ALO_DT`.
* Sequence numbers of the reorder ring are kept whole and masked where they are
  used, by `Word`; head and numbers of the code are the same modulo the ring.
* `reorder_lock` is one instruction of the cluster scratch memory, which compares
  and, if the numbers differ, stores the signal; so is `reorder_unlock`, which
  moves the head, takes the word there and signals. Both are one action.
* A forwarding table entry is an attribute of the packet (`Packet`): bit 0 of the
  vector is the host, bit `i` port `i - 1`. The receiver computes `Targets` when it
  looks at the packet and then serves them one by one from the lowest.
* `get_sequence_num` is `ReadCount` and `WriteCount`: the microengine swaps
  contexts at each of its two memory operations.
* `reflect_write_sig_remote` writes the registers of the sender and sets its
  signal (`Examine`), over what was there and whatever context 0 is doing: no receiver asks. The
  sender reads `data` and `d_addr` when it wakes (`Wake`, `ReadEvent`) and the buffer after
  `entl_received` (`PickBuffer`). Whether `entl_next_send` has something to send is open in
  `Answer`. `overtaken` is a history: the registers were written between the signal and the second read.
  A block of registers is written in one piece here. A context that runs while a block
  is being written, and reads half of each event, is not modelled: what the hardware does then
  is not in the repository.
* A clone remembers whether its original still was in its buffer (`intact`).
* The traffic manager (external) has a sequencer for each value of
  `get_sequencer`, at each NBI, and lets the number that is due go.
* The wire is a FIFO per direction. Neither ENTL nor its callers reorder packets
  of one link, which is one cable.

## 3. Runs

| Run | Question | Result |
|---|---|---|
| `library` | two ends, three transfers from each of kinds AIT, ALO and both, `alo_initiate` refusing or not, any loss | `TypeOK`, `OneHolder`, `NoSequenceError`, `AitExactlyOnce`, `NoFutureEvent`, the refinement `TransfersImplemented` and the two inductive invariants `IInv` and `AgreementInv` hold |
| `live` | no loss, fair callers, a microengine that answers every packet and a host that reads on and refuses messages now and then while its receive queue is full | `RefusalIsAnswered`, `SilencedByReadingOn` hold, and past the greeting `EveryAitDelivered`, `TokenKeepsMoving` |
| `faults` | calls nothing was received for, packets repeated, link errors, restarts of either end, no loss, draws that may tie or cross | `OneLiveHolder` holds up to the first restart and the first tie or crossing, `AitAtMostOnce` through restarts; so do the inductive `HolderInv` and `DeliveryInv` |
| `atomic` | every opcode from both ends, any initial registers, any loss, the register number carried as the code carries it | `OperationsAreAtomic` (the refinement of `AtomicRegisters`), `PendingOnlyInFlight`, `AloTypeOK` and the inductive `AloInv` hold |
| `threads` | three receiver contexts, context 0, three buffers and its own, the host; loss, and contexts that overtake each other | `AnswerPrompted`, `BufferOwnedOnce`, `NoSequenceError` with its two exceptions, `LeaksEndWithGreeting`, `TypeOK` hold |
| `ring` | four contexts, four words, six packets | `OldestAlone`, `SignalsMatchWaiters`, the inductive `IInv`, `EveryPacketPasses` hold |
| `forward` | ports 6 and 7 receive on one island with three contexts and two words per ring, their events go to one sender, port 2 sends with two threads; multicast, rootward, an event of port 6 and one of port 7 that is forwarded too | `LeaveInOrder`, `NumbersUnique`, `MutexedRegion`, `BufferFreedOnce`, each with the exception it states, `TypeOK` and the inductive `OrderInv` and `EventInv` hold |
| `drain` | port 0 alone, with packets for two ports, for itself and for the host only | `EveryPacketLeaves` and `RingServes`, the refinement of `ReorderRing`, hold |
| `cancel`, `register`, `clone`, `retry` | what a comment or a test of the code says | violated, see below |

Bounds. `Modulus` is 6 where no packet can be repeated, 16 where some are and 4
in `atomic`, where events wrap within one operation: at most three numbers are
around on a regular link (the last one received, the last one sent, the next)
so 6 has every coincidence but the ones a full turn of
the counter makes, and the runs go around several times since nothing bounds the
number of events. For all other moduli there are the theorems. `CountMax` is 2: `entl_state_hello` out of WAIT is reached with
three HELLOs instead of eleven. Three transfers per end make every pair of kinds
follow each other (a refused ALO downgraded to an AIT, an ALO behind an AIT,
transfers of both ends meeting). `QueueMax` is one more than `QueueLimit`, as
callers that never fill their queue, and both are 1 where the full queue is the
question. `FaultMax` bounds the faults of a behaviour to 3, `ChanMax` the
packets beyond which no fault adds another to 3; the theorems about faults need neither bound. `Width` 2 tells ADD,
SUBS, SUBD, AND, OR and the increments apart and wraps; `RegCount` is 1 in
`atomic`, for which every register number names the same register, and 2 in
`register`, where the numbers differ. State spaces are finite without a state
constraint: a packet is only added by `Send`, of which each needs a packet
received, or by a fault.

`threads` has three receiver contexts for seven. Each of them signals once before it
receives, so `CountMax` is 3 for 10: as in the code, fewer HELLOs
than the count reach an end in WAIT through those signals alone. Three contexts
suffice for two packets on the way while a third context signals, and for a
context that overtakes two. With four buffers the run was checked once (1.48 million states).
Contexts and buffers are interchangeable, the run uses that as a symmetry; its
only temporal property is an action property. `retry` needs one context and a
lost packet. Without loss, overtaking and ALO, that an event A
accepted is answered under fairness was checked once with two contexts (807 thousand states).

Forwarding. `forward` has what the build has: more contexts than words (3 for 2, where the
build has 11 microengines of 8 contexts and 64 words on an island), two ports on one island, one sender
for the events of both (`EntlSender`; `Makefile:38` and `:118` give both receivers island 33),
and events that come at any time. So rings are overrun, contexts of two ports meet in
a count, and the registers of context 0 are written over at each of its stages; the properties except
what the code then does wrong, as narrowly as it is true, and `overrun`, `met` and `overtaken` say
when that is. Port 3 has no sender in this run: what port 7 sends there shares a count with the packets of port 6
and stays on its egress ring. Three contexts and three packets of port 6 let a packet overtake two others, wait
while another waits, and wrap the ring; two threads overtake each other. The ports forwarded
to, 2 and 3, are of one pair, counted in one word; what two words do behind one NBI is below.
`drain` and `clone` have one port. In `drain` there are as many words as contexts, every packet takes part in
ordering, the ports forwarded to are of one pair and senders take the rings the tables name: each
of the four is needed for packets to leave at all, as the differences below show. The host's bit is set there
only in a packet for the host alone, a clone adds nothing to the order. Runs are finite because the packets that arrive are
listed (`Arrivals`). Contexts and threads are interchangeable, `forward` uses that as a
symmetry; the runs with liveness do not.

Fairness. `ring` and `drain` assume that a context that has a packet goes on
(`reorder_lock`, `reorder_unlock`; `ReceiverStep`), that threads take and send
packets, and that the traffic manager lets a due packet go. Microengine contexts
are scheduled round robin and give up the processor at every memory operation,
and their loops are unconditional. Nothing is assumed of arrivals and nothing of
context 0. Weak fairness is enough for `Get` though threads share a ring: a
thread that is not served is overtaken by one that takes the packet.

`live` assumes that each caller's loop goes on: `Offer`,
`Receive` and `Send` are weakly fair at each end. The loops of both
programs run unconditionally (`entl_packet_sender.c:357`,
`entl_packet_forward_test.c:342`); nothing they wait for can be taken away, so
weak fairness is enough. Without `Lose` the wire delivers. With it
nothing would: the library has no retransmission in RECEIVE, RA, RAL, RB and RBL.
Of an end in `Rejecting`, a `Receive` that accepts a message is strongly fair:
the application takes messages out of the full queue, so that an end that is offered
one again and again has room for it some time.

`A` is the microengine of `live`, which answers every packet, `B` the host, which may read on before it
answers. That can silence the link although nothing is lost, but only in the greeting: a repeated
greeting or event 0 behind the packet it was to answer turns the last result into NOP.
`SilencedByReadingOn` says that there is no other way, `TokenKeepsMoving` that the greeting ends or
the link falls silent in it and that past it (`Greeted`: event 1 is sent) the token comes to each end
again and again, `EveryAitDelivered` that past it every message is delivered. Past the greeting one packet is on the
wire at most, besides copies of event 0, so there is no batch to read.

`retry` assumes that every context of the microengine is scheduled, that the alarm rings, that the
NBI sends and that the host goes on. All of it holds in the counterexample, where
only a packet was lost.

Deadlock is not checked: a link that lost its token, offered everything or was
refused an ALO does stop.

In the forwarding plane receivers stop when no more packets arrive, so deadlock is
not checked there either; `EveryPacketPasses` and `EveryPacketLeaves` say what must
not stop.

Where the code and what is said of it differ, each with its run:

* `cancel`: an end refuses an AITS when the length passed as `ait_queue`
  reaches the limit (`entl_state_machine.c:303`). That is the queue of its own
  outgoing messages, so what it sends next is an AITS of its own, and the end
  in RA takes anything but AITR or ENTL as an error. The comment at line
  388 ("AIT cancelled due to queue full") describes only the plain event.
* `register`: `SET_ECLP_ALO` writes the destination's register number at bit
  37 (`entl_state_machine.h:125`), `ALO_DT` reads five bits at bit 36
  (`atomic_link_op.h:36`). An operation on register 1 is executed on register 2
  (mod 32), register 16 on register 0. Every program of the repository uses
  register 0 or calls `alo_exec` directly.
* `clone`: the clone for the second port is made after the packet was queued for
  the first (`entl_packet_receiver.c:366`, `:399`), whose sender lets the NBI
  free it.
* `retry`: `wait_with_timeout(RETRY_CYCLE)` (`entl_packet_forward_test.c:344`) is to
  return when the alarm rings, so that a lost packet is sent again. The wait is for
  the alarm and the signal (`me.c:53`, see above): after a loss nobody signals, and
  context 0 waits for ever. The alarm only delays answers until it has rung.

Differences no run states. The constants of the runs that pass stay clear of
them, or a property excepts them; giving the constants the values named here, or
dropping the exception, shows them:

* Ports 6 and 7 lock different rings (`cls_reorder.c:45`) and count in
  the same word of their island (`egress_queue.c:187`), outside what the comment
  at line 183 calls the mutexed region. `MutexedRegion` compares contexts of one port; without that
  conjunct it fails in `forward`. Once two ports have met in a count (`met`) `LeaveInOrder` and
  `NumbersUnique` claim nothing of their island; without that, `NumbersUnique` fails with a third packet
  that port 6 sends to port 2.
* A receiver context may get to `entl_received` before one with an older packet
  (`entl_packet_forward_test.c:203`). When event 1 is delivered before an older
  HELLO, the HELLO finds A in a state that takes it for an error. `NoSequenceError`
  of `threads` excepts behaviours with an overtaking (`overtaken`).
* The own buffer of context 0 is rewritten while the packet in it has not left
  (`entl_packet_forward_test.c:359`): with three signals at the start a
  HELLO still queued becomes ENTL 0, and B, which gets event 0 before any
  HELLO, fails. `NoSequenceError` excepts behaviours with such a write (`overwrote`).
* A packet that arrives while `keep_pkt_num` still names the buffer of another
  one overwrites it, and that buffer is never freed. `LeaksEndWithGreeting` says that
  this stops with the greeting.
* The host acts on the result for the last of several packets only
  (`entl_packet_test_run.c:257`): event 0 and then event 0 again in one batch leave it
  in SEND with the result NOP, and it is silent, without any loss. The properties of `live` are about the
  link past the greeting for that reason; without `Greeted` both fail.
* A host in WAIT that was to send event 0 and reads on (`overread`) does not send it. The theorem `DeliveredOnce` leaves such behaviours out,
  the run `faults` has them and finds nothing wrong in them.
* With more contexts than words in a reorder ring `OldestAlone` fails: a number
  64 past the head is taken for the head. The ring has 64 words (`cls_reorder.h:19`),
  the build puts 11 receiver microengines of 8 contexts on an island. In `forward` this happens;
  `LeaveInOrder`, `NumbersUnique` and `MutexedRegion` except a port, or its island, from the time its
  packets under way are more than the words (`overrun`).
* As built, sender 1 waits on `PACKET_RING_NUM_1` (`Makefile:7`) and packets for port 1
  are queued on `PACKET_RING_NUM_0` (`egress_queue.c:76`): with
  `ForwardRing[1] = 1`, `EveryPacketLeaves` fails. `Makefile.generated` of the
  directory has ring 0 there. The receivers of both ports are compiled with
  `ENTL_SENDER_ISL=33` (`Makefile:38`): `EntlSender[0] = 1`.
* A packet with an ENTL type of NOP that is not to be forwarded takes a number of
  the port and never passes the reorder ring (`entl_packet_receiver.c:282`, where
  the comment says "participate in ordering"): with one among `Arrivals`,
  `EveryPacketLeaves` fails for every later one.
* A packet is handed to the sequencer of the port it came from
  (`entl_packet_sender.c:361`) with a number counted for the pair of ports it
  leaves on (`egress_queue.c:185`): when a port forwards to two pairs behind one NBI, the sequencer
  is given one number twice. `NumbersUnique` compares packets counted in one word only; without
  that it fails when port 6 forwards to ports 2 and 0. The descriptor's field for the sequencer is filled with
  the outgoing port (`entl_packet_receiver.c:319`) and nobody reads it.
* `init_sequence_num` (`egress_queue.c:150`) clears the counters, but it is compiled only under
  `PACKET_RING_EXPORT`, which that file does not define, and nobody calls it. The model
  starts the counters at 0, as the sequencers; with any other start the first packet of every port waits.
* ENTL answers go to sequencer 0 of the NBI, each sender numbering its own
  from 0 (`entl_packet_sender.c:461`), so the four senders behind one NBI give the same
  numbers. Whether sequencer 0 orders packets is a matter of the NBI's configuration;
  in the model answers leave as they are given.
* Context 0 reads the reflected packet before and its buffer after
  `entl_received` (`entl_packet_sender.c:434`, `:439`) and receivers ask nobody before they write the
  registers (`entl_packet_receiver.c:277`). With events of two ports on the way to one sender, as the build
  has it, or two of one port, as at the greeting, it may answer one event in the buffer of the next and
  then answer that one in the same buffer, which the NBI frees twice. `BufferFreedOnce` says that it is
  that buffer only and never more than twice. A buffer that was overwritten before context 0 read it is
  never freed.
* An out of sequence ENTL in SEND is an error that leaves the
  machine in SEND (`entl_state_machine.c:247-253`), the message of the branch says
  "-> Hello" and the corresponding branches of the other states go there.
* The header says that the error count is "cleared in
  got_error_state()" (`entl_state_machine.h:145`); there is no such function,
  and an end with an error never sends again.

## 4. Theorems

Every theorem holds for all values of the constants that satisfy the assumptions
named; TLC evaluates those assumptions in the runs.

### The link

Assumptions: those of `EntlStateMachine` and `EntlLink` (the ends differ, the
modulus is more than 2, the count at least 2, the types of the callers'
constants) and, for all but the first theorem, `RegularAssumption`: the two ends
have different greeting values, no caller fills its queue to the limit, and an
end that may refuse a message offers none of its own. The finding `cancel`
shows that the last two are needed. Without different greeting values the ends
draw again, and `entl_state_hello` may be entered in the middle of the greeting.

* `TypeCorrect`: `Spec => []TypeOK`, by induction; one step per action of the
  library, each leaf from the range of the arithmetic (`Plus2` stays below the
  modulus). The lemmas about the operators of the library are in
  `EntlStateMachineProofs`, since the threaded loop uses the same operators.
* `Invariance`: `Spec => []IInv`, and from it `NeverAnError` (`NoSequenceError`),
  `NeverTwoHolders` (`OneHolder`), `NumbersInOrder` (`NoFutureEvent`) and
  `RefusalAnswered` (`RefusalIsAnswered`). None of these is
  inductive: that no error happens in the next step depends on which packets
  are on the wire and which numbers they carry. `IInv` is a phase diagram of the
  link: `Greeting` (both in HELLO), `Inviting` (one in WAIT, repeating event 0),
  `Invited`, `Replied` (event 1 on its way), `Holds(y)` (end `y` has the token,
  the other waits in the state that goes with it) and `Flight(x)` (the token is on
  its way from `x`, or lost). In every phase the wire is described packet by
  packet; stale copies of event 0, which an impatient greeting leaves behind,
  are the only packets allowed beside the token. The proof goes phase by
  phase and action by action: a lemma for each says in which phase it ends.
* `AgreementHolds` (`AgreementInv`): what was dropped from a queue, what is kept and what was
  delivered agree, told by the two states: a message dropped and not delivered is
  the one kept at an end in RB while its peer is in RECEIVE, and nowhere else. From it
  `ExactlyOnce` (`AitExactlyOnce`) and `ImplementsAitTransfer`: `Spec` implies the
  specification of `AitTransfer`, each step of the link being one of its steps or a stutter.

### The link under faults

`EntlFaultyLinkProofs` proves about `FaultySpec`, for any number of faults of any kind, in any order:

* `HolderInvariance` (`HolderInv`) has no assumption beyond the types of the constants. It is about the states in
  which an end `u` has so far drawn nothing but greater numbers than its peer (`Outdraws`, over the history
  `drawn`), neither end was restarted and none is in error: the token is in one of three places, not yet heard of by `u` (`Unheard`),
  at an end (`TokenAt`), or on the packet it is passed on with (`TokenFrom`), and every other packet
  on the wire is spent: a greeting, or a number its receiver knows already. After a restart it claims only that
  greetings on the wire were drawn.
* `LiveHolderUnique` (`OneLiveHolder`): so there is one live holder until an end restarts or the draws tie or
  cross (`DrawsApart`). On the microengine a draw is the constant `0xbeef` and on the host any 16 bit number, so
  the code makes a tie unlikely, not impossible, and after one nothing is claimed: early calls and repetitions
  can then make both ends win the greeting. With any draws at both ends, one number to start with and four
  early calls or repetitions `OneLiveHolder` without `DrawsApart` fails.
* `DeliveryInvariance` (`DeliveryInv`) and `DeliveredOnce` (`AitAtMostOnce`) assume a wire without
  loss (`~Lossy`), but allow every fault and any number of restarts of both ends, as long as no host that is to send
  event 0 reads another packet first (`overread`). A message is only
  delivered with a number that was acknowledged, and a restart makes numbers start again: that an old
  acknowledgement does not fit a new message depends on all that lies between them on the wire.
  `Numbering` says which numbers an end keeps and has sent, `Queues` how the queue, the message kept and
  the messages transferred agree, `Deliveries` follows a message and its answer from one end to
  the other (`Follows`, `Answerable`). The assumption is needed: with loss, the restart of both
  ends one after the other, a repeated event 0 and a lost one bring a message to its receiver
  twice.
* `FaultyTypes` (`TypeOK`).

### Atomic operations

* `AloInvariance` (`AloInv`), `PendingInFlight` (`PendingOnlyInFlight`), and
  `OperationsAtomic`: `AloSpec` implies the abstract `AtomicRegisters`, for every width,
  number of registers, set of commands, and with any loss. `AloInv` follows a command from
  its source to its destination and back: `Initiated` (the source is what
  `alo_initiate` made of it, and nothing touched it since), `Requested` (the packet carries the command
  and a word `alo_initiate` may have sent), `Executed` (the destination is what `alo_exec` made of
  it), `Answered` (the reply carries its result), `Confirmed`. The abstract `Issue` is the
  step from SEND to RAL; `Do`, which changes both registers, is the step from RAL to SAL, where the
  source commits; the destination commits later, when AITA
  arrives, so the refinement mapping reads its result buffer until then. One lemma
  relates the four functions to the abstract command, for each opcode. That no step but
  `entl_state_init` resets registers is a part of it (the machines never fall back to HELLO).
* `RegistersFit` (`AloTypeOK`): registers, buffers and the words on the wire keep to `Width` bits. It
  rests on `AloInv`: a word is executed with the command it was computed for. That there
  is a word with the bits AND and OR ask for, and that setting or clearing a bit stays
  within the width, needs facts about 2^n the library does not have: `PowerOfTwo` counts the subsets
  of `1 .. n`, `PowerSum` and `BitPatterns` go by the least counterexample (`Least`), since
  the induction theorems of the library cannot be instantiated.

### The threaded loop

Assumptions: those of `EntlStateMachine` and `ThreadAssumption` (contexts and buffers are finite sets,
the special values are not among them). Loss and overtaking are allowed.

* `ThreadTypes` (`TypeOK`), with the invariant that context 0 rewrites only when a packet was
  composed and picks `keep_pkt_num` only when it is set: a receiver may change it between the test and
  the read, but no receiver clears it.
* `NoLostWakeUp` (`AnswerPrompted`), for any number of contexts that share the one signal.
* `OneOwner` (`BufferOwnedOnce`), together with `PickedIsFree`: between `Pick` and `Clear` the buffer
  context 0 has picked is nowhere else but in `keep_pkt_num`. A receiver that writes `keep_pkt_num` in
  between has its own buffer cleared away, which loses it but gives it to nobody twice.
* `ThreadsStayInStep` (`NoSequenceError`), under `RegularStart`: the microengine draws the constant
  it starts with (`0xbeef`), and there are at most `CountMax + 1` contexts (7, with an
  `ENTL_COUNT_MAX` of 10). The second is needed: a context signals once before it receives, so the
  microengine may send as many greetings as there are contexts, and a waiting end that counts more than
  `CountMax` of them goes back to HELLO; with `CountMax = 1` and three contexts TLC finds the
  error. The draws of the host are arbitrary, ties included. `PhaseInv` says what both ends and all
  that lies between them may be. `TowardsA` are the packets in the buffers the contexts hold and on
  the wire, `TowardsB` those on the host's wire, in the buffers of the egress queue and
  the word context 0 has composed, so that taking a packet, rewriting it and sending it leave both
  as they are. The link is in one of three phases: both ends greet (`Greeting`); one waits, the
  other is still to hear some greetings, or has heard event 0, or has answered it
  (`Starting`); events alternate (`Running`: one end holds the event and nothing but
  copies of event 0 is on the way, or one answer is, or it was lost). What makes it inductive
  with any number of contexts is that greetings and calls still due (`DueAtA`, `DueAtB`)
  never add up to more than the contexts, since each call sends one packet and each packet causes
  one call.

### The forwarding plane

* `RingInvariance` (`IInv` of `ReorderRing`), `OrderedExclusion` (`OldestAlone`) and `SignalsKept`
  (`SignalsMatchWaiters`): if there are at least as many words as contexts
  (`EnoughWords`), for one reorder
  ring and any number of contexts, words and packets. None of the two properties is
  inductive: that the context let in is the oldest depends on every number from
  the head to the last arrival being held by exactly one context
  (`Covered`, `InWindow`, `OneEach`). So there are at most as many numbers as
  contexts, hence as words (`Window`, by cardinality), hence two of them never share a
  word (`DifferentWords`), and the word at the new head is that of the next number
  (`WordOfNext`). Without the assumption two contexts are inside together, as above.
* `ForwardingTypes` (`TypeOK`), with no assumption about the traffic. A context that
  takes a packet off its ring acts on the signal of the context stored there, so the types need that a word
  of a ring only names a context that waits for it (`WordsAwaited`), also when words are too few.
* `RingIsImplemented`: under `AllOrdered` (every packet takes part in ordering), each step of
  the forwarding plane is, seen from one port's ring, a step of `ReorderRing` or a stutter. So
  `ReorderRing` is what the ring of a port does, whatever the other ports, the queues and the senders do, with
  too few words and with two ports on an island too. What `ReorderRingProofs` shows of the ring holds
  of each port. The fairness of `ReorderRing` is left to TLC (`RingServes`).
* `ForwardingInvariance` (`TypeOK` and `OrderInv`), `PacketsLeaveInOrder` (`LeaveInOrder`),
  `NumbersAreUnique` (`NumbersUnique`), `RegionIsMutexed` (`MutexedRegion`), for any ports,
  contexts, threads, words and packets, with no assumption about any of them. What the build can do wrong is part of
  the behaviours and of the statements: a ring is in order while its port was never overrun, numbers of an island are while
  none of its rings was overrun and contexts of two ports did not meet in a count (`Orderly`), and numbers of two
  words are not compared. A port that never has more packets under way than words keeps all this on a ring
  of 64 words with 88 contexts. `OrderInv` carries the order of arrival through the three
  queues: the ring is in order per port (`RingInOrder`); a number read by
  the context inside is the count until it is written (`NumberHeld`); a packet
  queued anywhere is older than those the contexts hold, or is the one being served on a port it was
  queued for already (`QueuedBefore`); numbers of one word follow the order of the packets
  (`NumbersFollow`); a sequencer lets packets go in the order of their numbers (`LeftInOrder`).
  That `overrun` counts packets and not contexts is what makes it work: while the arrivals are at most
  `RingSize` past the head two numbers of the port share no word (`InWindow`), however many contexts wait.
* `EventInvariance` (`EventInv`) and `BuffersAreFreedOnce` (`BufferFreedOnce`), with no assumption either: events come at
  any time, from any number of ports to one sender. That no buffer is freed twice but the one is not
  inductive. `EventsNew` says that a packet still to be examined is in no register and no answer; `Staged`
  follows the registers and context 0 through its stages: which buffer it may take, whether the registers were written
  since its signal, and whether the buffer they name is in no answer or in the last one, which took it early (`FreedLast`).

### Only model-checked

* Liveness: `EveryAitDelivered`, `TokenKeepsMoving`, `EveryPacketPasses`, `EveryPacketLeaves`, and of
  `RingServes` the fairness of `ReorderRing`. They depend on ENABLED, which is beyond the prover.
* `SilencedByReadingOn`: the phases of a regular link (`IInv`) are proved for hosts that read on, that
  silence comes from the two of them it names is not derived from them.
* `LeaksEndWithGreeting` of the threaded loop: it also covers behaviours in which context 0 writes
  over a packet that has not left, of which `PhaseInv` says nothing.

## 5. Plan

1. (done) `EntlStateMachine`, `EntlLink`, their runs, `TypeCorrect`.
2. (done) `EntlRegularLink`, `NeverAnError`, `NeverTwoHolders`.
3. (done) `EntlFaultyLink`; `AtomicLinkOp`, `AtomicRegisters`, `AloLink`.
4. (done) `EntlThreadedLink`, which composes `EntlStateMachine` with seven receiver contexts,
   the coalesced signal, the alarm, `keep_pkt_num` and the host; its theorems.
5. (done) `ReorderRing`, `OrderedExclusion`; `EgressQueue`; `PacketForward` with
   the reflected registers; its theorems.
6. (open) `PacketForward` with the state machine behind `entl_received`.
7. (done) `AitTransfer`, and that `EntlLink` implements it; that `AloLink` implements `AtomicRegisters`.
8. (dropped) The kernel driver `src/ecnl_device`: the source does not compile, so there is no
   program to be faithful to.

## 6. Not modelled

Layout of packets in CTM and the packet rewriting; MAC and NBI; the
simulator's host API; debug output. Of the
forwarding plane: delivery to the host ("TBD" in the code, the packet is dropped
without its buffer being freed), ports above 7 (their tables return 0xffffffff),
updates of the table, the capacity of the egress rings (what the hardware does with a full
one is not in the repository), the initialisation
of the rings by each microengine of an island (a start that is late resets rings in use), the
first HELLO of context 0.

`entl_state_machine_2.c` and `src/ecnl_device` do not compile (section 1). The programs in
`N/e_link_test`, `N/dispatch_test`, `N/reorder_test`, `N/signal_test`,
`N/fw_table_test` and `N/ex_reflect` are bring-up programs: earlier versions or trials of one feature
of what the modelled programs do.

The modelled code is a small part of the repository, since nearly all of it is
vendored: the vendor's SDK with its register descriptions (header files of
thousands of `#define`s), standard library and examples, the driver sources and a
packet processing example. The repository's programs use that code, they are not made of it; where
a modelled program depends on what a vendor function does (`wait_sig_mask`, the ring instructions,
the NBI's send functions), the action that calls it says what it does.
