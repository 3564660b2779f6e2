# A TLA+ model of the Falcon transport in Isekai

Isekai is an event-driven simulator of RDMA over the Falcon transport. This
directory models its transport protocol in TLA+, checks it with TLC and proves
its central invariants with TLAPS. Paths below are relative to `src/isekai`.

## 1. The system

A simulated host is a stack. A **traffic generator** posts operations to the
**RDMA model**, whose **work scheduler** turns them into Falcon transactions.
**Falcon** carries the transactions over a **fabric** of routers to the Falcon
and the RDMA model of another host. The program is single-threaded: everything
that happens is an event of the simulation environment (an arrival, a timer, a
scheduler's turn, a call from the RDMA model), and an event runs to its end.
Concurrency is the order of the events, and that order is what the model is
about.

A *transaction* is a pull (PullRequest, PullData), a solicited push
(PushRequest, PushGrant, PushSolicitedData) or an unsolicited push
(PushUnsolicitedData), numbered by an RSN. A packet has a PSN in one of two
sliding windows per direction: requests, or data. ACKs carry the base PSNs of
both windows; EACKs also carry bitmaps; every packet carries a piggybacked ACK,
and an answer acknowledges its request implicitly.

### Inventory

| part | state | operations | what is hard |
|---|---|---|---|
| packet reliability manager, gen1 (`host/falcon/gen1/packet_reliability_manager.cc`) | two transmit windows, outstanding packets and contexts, request counters; two receive windows | transmit, retransmit, timeout, ACK, EACK, NACK, RNR NACK, implicit and piggybacked ACK, sliding-window checks, ACK and NACK from the ULP | five structures hold a packet and six handlers move it; acknowledgements come late, twice and out of order |
| transactions (`host/falcon/falcon_connection_state.cc`) | a map from RSN and location to a state machine | create or update from ULP and from network, UpdateState | every transition CHECKs its predecessor |
| Falcon model (`gen1/falcon_model.cc`) | | InitiateTransaction, TransferRxPacket, AckTransaction, ReorderCallback | one event goes through five components |
| ACK coalescing engine | counter and timer per connection | generate or coalesce, transmit ACK and NACK, piggyback | stale timer events, a counter fed by three sources |
| buffer reorder engine | four buffers, RNR state | insert, retry, RNR timeout, ULP ACK and NACK | RNR rewinds what is already on its way |
| connection and retransmission schedulers, arbiter, ACK/NACK scheduler | queues per connection and type, cached eligibility | enqueue, dequeue, schedule, recompute eligibility | the cache must follow every gating variable |
| inter-host rx scheduler | a queue per host, xoff flags | enqueue, schedule, xoff | a callback re-enters the scheduler |
| resource manager, admission control | credit pools, solicited bytes | reserve, release, refund | reserved in one phase, released in another |
| rate update engine and algorithms | per-connection event flag, windows | events, responses | one event at a time per connection |
| gen2: multipath, backpressure | a window, weights per flow | as gen1, by flow | reordering across paths, per-flow ACKs |
| gen3: RACK, TLP | transmit times, probe timer | detect losses, probe | two more sources of retransmission |
| RDMA model and work scheduler | queue pairs, active sets, credits | post, schedule, receive, complete, xoff | state read before a lookup and used after it |
| RDMA rx buffers | bytes per host | push, PCIe callbacks | xoff and xon at the limit |
| fabric | port queues, shared buffers | enqueue, route, transmit, PFC | the limits of the buffers |

What each part should guarantee, in a sentence: the reliability manager loses
no packet, acknowledges none that was not received and lets no counter drift;
the transactions see only legal events; a connection executes and completes
every transaction exactly once; the reorder engine keeps the order and offers a
request to the ULP once at a time; the schedulers do not sleep on eligible work;
resources, credits and admitted bytes are conserved; the rate update engine has
one event in flight per connection; the work scheduler forgets no queue pair.

## 2. Modules

| module | models |
|---|---|
| `FalconTypes` | packet types, windows, transaction locations |
| `TransmitWindow` | the transmitter of one host: a record, and an operator per handler |
| `ReceiveWindow` | the receiver of one host, and the ACKs, EACKs and NACKs made from it |
| `TransactionTable` | the transactions of one host, the queue of the connection scheduler, the unordered reorder engine, the queue towards the ULP |
| `FalconConnection` | two hosts, their ULPs and the network; one action per event |
| `TransactionService` | what a connection promises to the ULPs |
| `MCFalconConnection` | the instances for TLC |
| `TransmitWindowProofs`, `ReceiveWindowProofs`, `TransactionTableProofs`, `FalconConnectionProofs` | lemmas on the operators of the three parts, and the theorems |

**State.** `tx[h]` is the transmitter of host h: `base`, `next` and `window`
(the PSNs at or above the base that were acknowledged one by one, the code's
bitmap) of each window; `outstanding` (`outstanding_packets`), `contexts`
(`outstanding_packet_contexts`), `retx` (the retransmission scheduler's queue);
`sent` and `retried` (the PSN and the attempts in the packet metadata); `orc`
and `orrc`, the two request counters, modulo `CounterMod` as the code's
`uint32_t`; `oow`, the pause after an out-of-window drop. `rx[h]` is the
receiver: base PSNs, the receive and the ack bitmap, the OWN flags and whether an
ACK is due. `tab[h]` holds the transactions and queues. Bitmaps are sets of PSNs;
those of an EACK are sets of indices relative to its base PSN, and the
transmitter adds its own base, as in the code.

**Failed CHECKs.** A CHECK that the order of events could make fail is recorded
in `failed`, with the function that makes it; after that no action is enabled,
as the program has ended. `NoFailedCheck` says that it does not happen.

**Actions.** An action is one event with all the calls it makes. `ReceiveNew`,
for instance, is TransferRxPacket for a packet that is accepted: the implicit
ACK, the receive bitmap, the coalescing state, the received packet context, the
piggybacked ACK, the transaction and the reorder engine, in that order. A handler
that calls another is a composition of operators on records.

**What is nondeterministic.** Time: a retransmission timeout may hit any prefix
of a window's outstanding packets at any moment, and the recency check of early
retransmission may fail anywhere. The ACK coalescing counter: an ACK that is due
is sent at some moment, and a piggybacked ACK may or may not stop the timer. The
resource manager: it may refuse packets of the types in `Exhaustible`. The ULP: it
answers at any time and may RNR-NACK (`Rnr`). The network: messages are a set;
with `Duplication` a message stays when it is delivered, which is loss,
duplication and any reordering at once; without it a message is delivered once
and `MaxLosses` of them are lost.

**Left out of the modelled parts.** The values of timers and round-trip times;
PSN wraparound (PSNs are natural numbers); the retry limits that end the
simulation with LOG(FATAL); completion in error; lengths; statistics; ordered
connections; the round robin among connections.

## 3. Runs

All runs check `MCFalconConnection`, with two hosts and one or two transactions.
A transaction's packets and their acknowledgements meet in every order already
with one of them, and with two there is reordering within a window, a hole in a
bitmap and a full receive window. `RxWindow` is 2 or 1, so that the receive window
can be full; `Fcwnd` is 3, more than it, so that packets can be out of window;
`CounterMod` is 100, far above the counters' values, so that an underflow shows.
Deadlock is not checked: a connection with nothing left to do stops.

| run | checks | shows |
|---|---|---|
| Mixed | TypeOK, SenderLedger, NoFailedCheck, ExactRequestCount, ExactlyOnce | a pull and an unsolicited push under loss, duplication and reordering |
| Solicited | NoFailedCheck, ExactRequestCount, ExactlyOnce | the three phases of a solicited push, whose request may be refused and whose data may be RNR-NACKed and retried by timer and by duplicates |
| Rnr | NoFailedCheck, ExactlyOnce | a pull that is RNR-NACKed and retried by the timer alone; with two packets of one window that the ULP may RNR-NACK, NoFailedCheck does not hold (LateRnrNack) |
| Eack | SenderLedger, AckedWasReceived, ExactRequestCount | EACKs with holes and early retransmission |
| OutOfWindowEack | SenderLedger, AckedWasReceived | a receive window of one PSN, EACK-OWN and the pause of the sender |
| OutOfWindowNack | SenderLedger, NoFailedCheck | the same with NACKs and exhausted resources |
| BothWays | NoFailedCheck, UnackedHasTransaction | both hosts use the same RSN at once |
| LiveSolicited, LiveWindow | AllComplete | every transaction is completed in spite of a loss and of premature timeouts |
| RetransmittedCount | RetransmittedCountBounded | violated, see below |
| LateRnrNack | LateRnrNackIgnored | violated, see below |
| OowPause | PauseEnds | violated, see below |

`ExactlyOnce` is refinement: `FalconConnection` implements
`TransactionService`, with the RSN counters of the hosts as its `next_rsn` and the
history variables `execs` and `dones`.

**Fairness.** The simulation environment runs every event that was scheduled, so
each kind of event is weakly fair: a scheduler with eligible work runs, a timer
with an outstanding packet expires, an ACK that is due is sent, the network
delivers what it does not lose, the ULP goes on. There is one more condition: the
network delivers the oldest packet that a receiver is missing, and not always
another one (`ArrivalOfOldest`). Nothing is assumed about RNR NACKs, duplication
and loss.

**Three disagreements between the code and its comments.**

* *RetransmittedCount.* A solicited push whose request was retransmitted once
  adds one to the outstanding retransmitted request count. The count goes down
  when the request is queued for retransmission again and again when the data is
  acknowledged, so it can fall below zero, which is a huge number in a
  `uint32_t` and stops request retransmissions. The comment above
  DecrementOutstandingRetransmittedRequestCount means one or the other.
* *LateRnrNack.* HandleRnrNack means to ignore an RNR NACK that arrives after the
  ACK, and recognizes it by a PSN below the base. A packet that was acknowledged by
  the bitmap of an EACK is not below the base and has no context: the error ends
  in a CHECK.
* *OowPause.* The pause after an out-of-window drop ends when an ACK moves the base
  to within the slack of the next PSN. An implicit ACK moves the base as well and
  does not end the pause.

## 4. Proofs

`FalconConnectionProofs` proves, for any operations, windows, thresholds,
counter width and behaviour of the network and the ULPs:

* `TypeCorrect`: `Spec => []TypeOK`;
* `SenderLedgerHolds`: `Spec => []SenderLedger`;
* `AcksOutstandingPackets`: no acknowledgement looks up a packet without a context;
* `Inductive`: `Spec => []IInv`, from which the others follow.

The ledger is not inductive. An acknowledgement keeps it only if it is about
PSNs that were sent: an ACK with a base PSN beyond `next` would acknowledge
packets that do not exist. So `IInv` adds what the messages and the receiver know:
a message acknowledges and carries only PSNs that its addressee, or its sender,
has sent (`MessageInv`); a receiver's base and bitmaps are below the sender's next
PSN and within the window (`RxInv`); a received packet context holds such a PSN
(`ContextsInv`), because the ULP's answer puts it in the ack bitmap later; and
PSNs and contexts belong together on the sending side (`TxInv`). The proof has a
lemma per operator (what it preserves of `TxInv`, `RxInv` or the table's type) and
one per action; lemmas `HostStep` and `StepToFacts` reduce an action of one
host to facts about the three records of that host and the messages it sends.

The proofs assume what the modules assume of their constants: two hosts, positive
windows, thresholds that are numbers or disabled, and an RSN for every operation.

Only model-checked: liveness (`AllComplete`), which needs fairness; the
counters; `AckedWasReceived`, `UnackedHasTransaction`, `NoFailedCheck` and the
refinement. The last four are candidates for proof.

## 5. Plan

1. *Ordered connections.* The reorder engine as a module of its own: four
   buffers, head of line, the RNR state and the rewind; refinement of in-order,
   one-at-a-time delivery.
2. *Acknowledgement timing.* The coalescing counter and timer, showing that the
   flag `ack_due` of `ReceiveWindow` abstracts them; the retransmission timer
   with its stale events, showing that an outstanding packet has a live timer.
3. *Schedulers.* The connection scheduler with cached eligibility against the
   gating criteria; the inter-host rx scheduler with xoff and re-entry; the arbiter.
4. *Resources.* Credits per phase and reservation mode, admission control and
   the xoff to the ULP: conservation and release at the end of a transaction.
5. *Rate update engine.* One event in flight, and no lost wake-up of its queue.
6. *RDMA.* The work scheduler (active sets, quanta, outstanding reads), the
   receive pipeline and the rx buffers, composed with xoff.
7. *gen2 and gen3.* Multipath acknowledgement, RACK and TLP over
   `TransmitWindow`.
8. *Fabric.* The accounting of the memory management unit.
9. *Proofs.* `AckedWasReceived` (messages carry only what the receiver has
   acknowledged, and the sender's windows are below that), `UnackedHasTransaction`
   (the state of a transaction against its unacknowledged packets), then the
   steps of the refinement, and the conservation laws of the new modules.
   Invariants needed on the way: a packet in the network is one its sender sent,
   with the PSN it was sent with; a PSN and a packet determine each other; a grant
   or the data of a pull exists only after its request was received.

## 6. Not modelled

Statistics and histograms, the packet builder and the OMNeT++ glue are output or
glue to another program. Routing tables and address parsing are pure
lookup and parsing. Set-up of connections happens before traffic. The
congestion control algorithms compute with fixed-point numbers; the model is
independent of the values of their windows.
