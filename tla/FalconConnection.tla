-------------------------- MODULE FalconConnection --------------------------
(***************************************************************************)
(* One unordered Falcon connection between two hosts: the transmit and     *)
(* receive windows and the transactions of both ends, the ULPs that        *)
(* initiate and answer transactions, and a network that loses, duplicates  *)
(* and reorders.  An action is one event of the simulator: a handler of    *)
(* gen1/falcon_model.cc or gen1/packet_reliability_manager.cc with all     *)
(* the calls it makes.                                                     *)
(***************************************************************************)
EXTENDS TransmitWindow, ReceiveWindow, TransactionTable

CONSTANTS
  Host,         \* the two ends of the connection
  Ops,          \* Ops[h]: the transactions that the ULP of h initiates, in order
  Rnr,          \* the ULP may answer a request with an RNR NACK
  Exhaustible,  \* the types of packets that the resource manager may refuse
  Duplication,  \* a message may be delivered more than once
  MaxLosses     \* the messages the network may lose if it does not duplicate

ASSUME HostAssumption == \E g, h \in Host : g # h /\ Host = {g, h}
ASSUME OpsAssumption == /\ Ops \in [Host -> Seq(TransactionType)]
                        /\ \A h \in Host : 0 .. Len(Ops[h]) - 1 \subseteq Rsn
ASSUME SwitchAssumption == /\ {Rnr, Duplication} \subseteq BOOLEAN
                           /\ Exhaustible \subseteq PacketType
                           /\ MaxLosses \in Nat

VARIABLES
  tx, rx, tab,  \* tx[h], rx[h], tab[h]: the three parts of the state of host h
  net,          \* net[h]: the messages in the network that are addressed to h
  execs,        \* execs[h][r]: how often h's peer executed transaction r of h
  dones,        \* dones[h][r]: how often transaction r was completed at h
  losses        \* how many messages were lost

vars == <<tx, rx, tab, net, execs, dones, losses>>

Peer(h) == CHOOSE g \in Host : g # h

\* A packet carries the receiver's base PSNs (a piggybacked ACK).
Message ==
  [kind : {"packet"}, pkt : Packet, psn : Nat, bpsn : [Window -> Nat]]
    \cup
  [kind : {"ack"}, bpsn : [Window -> Nat], eack : BOOLEAN, own : [Window -> BOOLEAN],
   ack : [Window -> SUBSET Nat], received : SUBSET Nat]
    \cup
  [kind : {"nack"}, bpsn : [Window -> Nat], own : [Window -> BOOLEAN],
   window : Window, psn : Nat, code : {"OutOfWindow", "ResourceExhaustion", "Rnr"}]

PacketMessage(h, c) == [kind |-> "packet", pkt |-> c.pkt, psn |-> c.psn, bpsn |-> rx[h].base]

TypeOK ==
  /\ tx \in [Host -> TxState]
  /\ rx \in [Host -> RxState]
  /\ tab \in [Host -> TableState]
  /\ net \in [Host -> SUBSET Message]
  /\ execs \in [Host -> [Rsn -> Nat]]
  /\ dones \in [Host -> [Rsn -> Nat]]
  /\ losses \in Nat

Init ==
  /\ tx = [h \in Host |-> InitTx]
  /\ rx = [h \in Host |-> InitRx]
  /\ tab = [h \in Host |-> InitTable]
  /\ net = [h \in Host |-> {}]
  /\ execs = [h \in Host |-> [r \in Rsn |-> 0]]
  /\ dones = [h \in Host |-> [r \in Rsn |-> 0]]
  /\ losses = 0

\* A failed CHECK ends the program.
Running == \A h \in Host : tx[h].failed = {} /\ tab[h].failed = {}

Send(h, M) == [net EXCEPT ![Peer(h)] = @ \cup M]

\* Host h takes the message m and answers with the messages M.
Reply(h, m, M) ==
  [g \in Host |-> IF g = h THEN IF Duplication THEN net[g] ELSE net[g] \ {m}
                  ELSE net[g] \cup M]

NoOwn == [w \in Window |-> FALSE]

\* The packets whose contexts were removed between two states of a transmitter.
Acked(t, t2) == {c.pkt : c \in UNION {t.contexts[w] \ t2.contexts[w] : w \in Window}}

\* An acknowledgement changes the transmitter of h to t2, from t, and tells the
\* transactions b of h about the packets it removed.
Acknowledge(b, t, t2) == AckTransactions(b, Acked(t, t2))

-----------------------------------------------------------------------------
(* The ULP initiates and answers.                                            *)

InitiateTransaction(h) ==
  /\ Running
  /\ tab[h].next_rsn < Len(Ops[h])
  /\ tab' = [tab EXCEPT ![h] = CreateTransactionFromUlp(@, Ops[h][@.next_rsn + 1])]
  /\ UNCHANGED <<tx, rx, net, execs, dones, losses>>

\* The target ULP has read the data of a pull it accepted.
InitiateResponse(h, r) ==
  /\ Running
  /\ tab[h].txn[<<r, "target">>] = <<"PullRequest", "UlpAckRx">>
  /\ tab' = [tab EXCEPT ![h] = UpdateTransactionFromUlp(@, r)]
  /\ UNCHANGED <<tx, rx, net, execs, dones, losses>>

\* An element of the inter-host rx scheduler reaches the ULP.
DeliverToUlp(h, p) ==
  /\ Running
  /\ p \in tab[h].to_ulp
  /\ tab' = [tab EXCEPT ![h] = SendToUlp(@, p)]
  /\ dones' = IF p.type \in {"Ack", "PullData"}
              THEN [dones EXCEPT ![h][p.rsn] = @ + 1] ELSE dones
  /\ UNCHANGED <<tx, rx, net, execs, losses>>

\* The request p is at the ULP of h, which has not answered it.
AtUlp(h, p) ==
  p \in tab[h].buffer /\ tab[h].txn[InKey(p)] = <<p.type, "UlpTx">>

\* AckTransaction with kAck, and HandleAckFromUlp.
UlpAck(h, p) ==
  LET ctx == tab[h].rxctx[InKey(p)] IN
  /\ Running
  /\ AtUlp(h, p)
  /\ tab' = [tab EXCEPT ![h] = AckFromUlp(@, p)]
  /\ rx' = IF ctx[1] \in PacketType \ {"PullRequest"}
           THEN [rx EXCEPT ![h] = GenerateAckOrUpdateCoalescingState(
                                    UpdateReceiveAckBitmap(@, WindowOf(ctx[1]), ctx[2]))]
           ELSE rx
  /\ execs' = [execs EXCEPT ![Peer(h)][p.rsn] = @ + 1]
  /\ UNCHANGED <<tx, net, dones, losses>>

\* AckTransaction with kRnrNak, and HandleNackFromUlp.
UlpRnrNack(h, p) ==
  LET ctx == tab[h].rxctx[InKey(p)] IN
  /\ Running
  /\ Rnr
  /\ AtUlp(h, p)
  /\ tab' = [tab EXCEPT ![h] = RnrNackFromUlp(@, p)]
  /\ IF ctx[1] \in PacketType \ {"PullRequest"}
     THEN /\ net' = Send(h, {Nack(rx[h], WindowOf(ctx[1]), ctx[2], "Rnr")})
          /\ \E r \in TransmitNACK(rx[h]) : rx' = [rx EXCEPT ![h] = r]
     ELSE UNCHANGED <<net, rx>>
  /\ UNCHANGED <<tx, execs, dones, losses>>

\* HandleRnrTimeout.
RnrTimeout(h, p) ==
  /\ Running
  /\ p \in tab[h].waiting
  /\ tab' = [tab EXCEPT ![h] = RetryRnrNackedPacket(@, p)]
  /\ UNCHANGED <<tx, rx, net, execs, dones, losses>>

-----------------------------------------------------------------------------
(* The schedulers and the timers.                                            *)

\* The connection scheduler picks p and the packet reliability manager sends it.
TransmitInitial(h, p) ==
  LET c == [psn |-> tx[h].next[WindowOf(p.type)], pkt |-> p] IN
  /\ Running
  /\ p \in tab[h].sched
  /\ MeetsInitialTransmissionTxGatingCriteria(tx[h], p.type)
  /\ tx' = [tx EXCEPT ![h] = TransmitPacket(@, p)]
  /\ tab' = [tab EXCEPT ![h] = TransmitFromTransaction(@, p)]
  /\ net' = Send(h, {PacketMessage(h, c)})
  /\ \E r \in PiggybackAck(rx[h]) : rx' = [rx EXCEPT ![h] = r]
  /\ UNCHANGED <<execs, dones, losses>>

\* The retransmission scheduler picks c.
Retransmit(h, c) ==
  /\ Running
  /\ c \in RetransmissionCandidates(tx[h])
  /\ tx' = [tx EXCEPT ![h] = RetransmitPacket(@, c)]
  /\ net' = Send(h, {PacketMessage(h, c)})
  /\ \E r \in PiggybackAck(rx[h]) : rx' = [rx EXCEPT ![h] = r]
  /\ UNCHANGED <<tab, execs, dones, losses>>

RetransmitTimeout(h) ==
  /\ Running
  /\ \E R \in Prefixes(tx[h], "request", tx[h].next["request"]),
        D \in Prefixes(tx[h], "data", tx[h].next["data"]) :
       /\ R \cup D # {}
       /\ tx' = [tx EXCEPT ![h] = HandleRetransmitTimeout(@,
                   [w \in Window |-> IF w = "request" THEN R ELSE D])]
  /\ UNCHANGED <<rx, tab, net, execs, dones, losses>>

\* The coalescing counter reached its threshold or the timer expired.
SendAck(h) ==
  /\ Running
  /\ rx[h].ack_due
  /\ rx' = [rx EXCEPT ![h] = TransmitACK(@)]
  /\ net' = Send(h, {Ack(rx[h])})
  /\ UNCHANGED <<tx, tab, execs, dones, losses>>

-----------------------------------------------------------------------------
(* Arrivals.                                                                 *)


\* ReceivePacket of a packet below the window, or received before.
ReceiveDuplicate(h, m) ==
  LET w == WindowOf(m.pkt.type) IN
  /\ Running /\ m.kind = "packet"
  /\ IsDuplicate(rx[h], w, m.psn)
  /\ rx' = [rx EXCEPT ![h] = GenerateAckOrUpdateCoalescingState(@)]
  /\ tab' = IF m.psn >= rx[h].base[w] /\ m.pkt.type \in PushDataTypes
            THEN [tab EXCEPT ![h] = RetryRnrNackedPacket(@, m.pkt)] ELSE tab
  /\ net' = Reply(h, m, {})
  /\ UNCHANGED <<tx, execs, dones, losses>>

\* ReceivePacket of a packet above the window.
ReceiveOutOfWindow(h, m) ==
  LET w == WindowOf(m.pkt.type) IN
  /\ Running /\ m.kind = "packet"
  /\ IsOutOfWindow(rx[h], w, m.psn)
  /\ IF ~EackBasedEarlyRetransmissionIsEnabled
     THEN /\ net' = Reply(h, m, {Nack(rx[h], w, m.psn, "OutOfWindow")})
          /\ \E r \in TransmitNACK(rx[h]) : rx' = [rx EXCEPT ![h] = r]
     ELSE /\ net' = Reply(h, m, {})
          /\ rx' = IF ~EackOwn THEN rx
                   ELSE [rx EXCEPT ![h] = [GenerateAckOrUpdateCoalescingState(@)
                                             EXCEPT !.has_oow_drop[w] = TRUE]]
  /\ UNCHANGED <<tx, tab, execs, dones, losses>>

\* ReceivePacket of a packet the resource manager has no room for.
ReceiveNoResources(h, m) ==
  LET w == WindowOf(m.pkt.type)
      t == HandlePiggybackedACK(tx[h], m.bpsn, NoOwn)
  IN  /\ Running /\ m.kind = "packet"
      /\ m.pkt.type \in Exhaustible
      /\ ~IsDuplicate(rx[h], w, m.psn) /\ ~IsOutOfWindow(rx[h], w, m.psn)
      /\ tx' = [tx EXCEPT ![h] = t]
      /\ tab' = [tab EXCEPT ![h] = Acknowledge(@, tx[h], t)]
      /\ net' = Reply(h, m, {Nack(rx[h], w, m.psn, "ResourceExhaustion")})
      /\ \E r \in TransmitNACK(rx[h]) : rx' = [rx EXCEPT ![h] = r]
      /\ UNCHANGED <<execs, dones, losses>>

\* ReceivePacket of a packet that is accepted: the implicit ACK, the windows, the
\* received packet context, the piggybacked ACK and the transaction.
ReceiveNew(h, m) ==
  LET w == WindowOf(m.pkt.type) IN
  /\ Running /\ m.kind = "packet"
  /\ ~IsDuplicate(rx[h], w, m.psn) /\ ~IsOutOfWindow(rx[h], w, m.psn)
  /\ \E t1 \in {HandleImplicitAck(tx[h], m.pkt)} :
     \E t2 \in {HandlePiggybackedACK(t1, m.bpsn, NoOwn)} :
     \E b1 \in {Acknowledge(CheckImplicitAck(tab[h], m.pkt), tx[h], t1)} :
     \E b2 \in {Acknowledge(CreateReceivedContext(b1, m.pkt, m.psn), t1, t2)} :
       /\ tx' = [tx EXCEPT ![h] = t2]
       /\ tab' = [tab EXCEPT ![h] = CreateOrUpdateTransactionFromNetwork(b2, m.pkt)]
  /\ rx' = [rx EXCEPT ![h] = AcceptPacket(@, m.pkt.type, m.psn)]
  /\ net' = Reply(h, m, {})
  /\ UNCHANGED <<execs, dones, losses>>

\* HandleACK, with the early retransmissions that HandleEACK makes of an EACK.
ReceiveAck(h, m) ==
  LET t == HandleACK(tx[h], m.bpsn, m.own, m.eack, m.ack)
      scanned == m.eack /\ ~StaleAck(tx[h], m.bpsn)
      \* The request window has no received bitmap: its ack bitmap serves.
      R(w) == IF ~scanned THEN {{}}
              ELSE EackRetransmissions(t, w, IF w = "data" THEN m.received ELSE m.ack[w],
                                       m.own[w])
  IN  /\ Running /\ m.kind = "ack"
      /\ \E P \in R("request"), Q \in R("data") :
           tx' = [tx EXCEPT ![h] = InitiateRetransmission(
                                     InitiateRetransmission(t, "request", P), "data", Q)]
      /\ tab' = [tab EXCEPT ![h] = Acknowledge(@, tx[h], t)]
      /\ net' = Reply(h, m, {})
      /\ UNCHANGED <<rx, execs, dones, losses>>

\* HandleNack: the ACK information first, then what the code asks for.
ReceiveNack(h, m) ==
  LET t == HandlePiggybackedACK(tx[h], m.bpsn, m.own) IN
  /\ Running /\ m.kind = "nack"
  /\ \/ /\ m.code = "ResourceExhaustion"
        /\ tx' = [tx EXCEPT ![h] = t]
     \/ /\ m.code = "Rnr"
        /\ tx' = [tx EXCEPT ![h] = HandleRnrNack(t, m.window, m.psn)]
     \/ /\ m.code = "OutOfWindow"
        /\ \E P \in NackRetransmissions(t, m.window) :
             tx' = [tx EXCEPT ![h] = InitiateRetransmission(t, m.window, P)]
  /\ tab' = [tab EXCEPT ![h] = Acknowledge(@, tx[h], t)]
  /\ net' = Reply(h, m, {})
  /\ UNCHANGED <<rx, execs, dones, losses>>

\* The network drops a message.  Where it duplicates, not delivering one is enough.
Lose(h, m) ==
  /\ Running
  /\ ~Duplication
  /\ losses < MaxLosses
  /\ net' = [net EXCEPT ![h] = @ \ {m}]
  /\ losses' = losses + 1
  /\ UNCHANGED <<tx, rx, tab, execs, dones>>

-----------------------------------------------------------------------------
Next ==
  \E h \in Host :
    \/ InitiateTransaction(h)
    \/ \E r \in Rsn : InitiateResponse(h, r)
    \/ \E p \in tab[h].to_ulp : DeliverToUlp(h, p)
    \/ \E p \in tab[h].buffer : UlpAck(h, p)
    \/ \E p \in tab[h].buffer : UlpRnrNack(h, p)
    \/ \E p \in tab[h].waiting : RnrTimeout(h, p)
    \/ \E p \in tab[h].sched : TransmitInitial(h, p)
    \/ \E c \in RetransmissionCandidates(tx[h]) : Retransmit(h, c)
    \/ RetransmitTimeout(h)
    \/ SendAck(h)
    \/ \E m \in net[h] : ReceiveDuplicate(h, m)
    \/ \E m \in net[h] : ReceiveOutOfWindow(h, m)
    \/ \E m \in net[h] : ReceiveNoResources(h, m)
    \/ \E m \in net[h] : ReceiveNew(h, m)
    \/ \E m \in net[h] : ReceiveAck(h, m)
    \/ \E m \in net[h] : ReceiveNack(h, m)
    \/ \E m \in net[h] : Lose(h, m)

Spec == Init /\ [][Next]_vars

\* The ULP of h initiates, takes, accepts or answers something.
UlpStep(h) ==
  \/ InitiateTransaction(h)
  \/ \E r \in Rsn : InitiateResponse(h, r)
  \/ \E p \in tab[h].to_ulp : DeliverToUlp(h, p)
  \/ \E p \in tab[h].buffer : UlpAck(h, p)

\* The network delivers a message to h.
Arrival(h) ==
  \E m \in net[h] :
    \/ ReceiveDuplicate(h, m)
    \/ ReceiveOutOfWindow(h, m)
    \/ ReceiveNoResources(h, m)
    \/ ReceiveNew(h, m)
    \/ ReceiveAck(h, m)
    \/ ReceiveNack(h, m)

\* The network delivers the oldest packet of window w that h has not received.
ArrivalOfOldest(h, w) ==
  \E m \in net[h] :
    /\ m.kind = "packet" /\ WindowOf(m.pkt.type) = w /\ m.psn = rx[h].base[w]
    /\ ReceiveNoResources(h, m) \/ ReceiveNew(h, m)

\* Every event that the environment has scheduled happens: a timer expires, a
\* scheduler that has eligible work runs, the network delivers what it does not
\* lose, and the ULP goes on.
Fairness ==
  \A h \in Host :
    /\ WF_vars(UlpStep(h))
    /\ WF_vars(\E p \in tab[h].sched : TransmitInitial(h, p))
    /\ WF_vars(\E c \in RetransmissionCandidates(tx[h]) : Retransmit(h, c))
    /\ WF_vars(RetransmitTimeout(h))
    /\ WF_vars(SendAck(h))
    /\ WF_vars(Arrival(h))
    /\ \A w \in Window : WF_vars(ArrivalOfOldest(h, w))

FairSpec == Spec /\ Fairness

-----------------------------------------------------------------------------
(* Properties.                                                               *)

\* ACKs, EACKs, NACKs, implicit ACKs, timeouts and retransmissions in any order
\* never lose track of a packet: it is acknowledged, outstanding or queued for
\* retransmission, and just one of them (outstanding_packets,
\* outstanding_packet_contexts, the transmit window and the retransmission
\* scheduler are updated by different handlers).
SenderLedger == \A h \in Host, w \in Window : WindowLedger(tx[h], w)

\* No CHECK of the packet reliability manager, of the transaction state machine
\* or of the reorder engine fails, whatever the network does.
NoFailedCheck == Running

\* A PSN that the sender counts as acknowledged (implicitly, by the base PSN or by
\* a bitmap of an EACK, whose indices are relative to the receiver's base) was
\* acknowledged by the receiver: a misaligned bitmap would drop packets silently.
AckedWasReceived ==
  \A h \in Host, w \in Window :
    LET r == rx[Peer(h)] IN
    \A n \in 0 .. tx[h].next[w] - 1 :
      n \notin {c.psn : c \in tx[h].contexts[w]} => n < r.base[w] \/ n \in r.ack[w]

\* The transactions of h whose request counts as outstanding in window w: sent,
\* and not acknowledged, or, for a solicited push, its data not acknowledged.
OutstandingRequests(h, w) ==
  {c \in tx[h].sent :
     /\ c.pkt.type \in CountedTypes /\ WindowOf(c.pkt.type) = w
     /\ \/ c \in tx[h].contexts[w]
        \/ /\ c.pkt.type = "PushRequest"
           /\ LET data == {d \in tx[h].sent : d.pkt = Pkt("PushSolicitedData", c.pkt.rsn)}
              IN  data \subseteq tx[h].contexts["data"]}

\* The outstanding request count, which is incremented at the transmission and
\* decremented at the acknowledgement of another packet in another window, is the
\* number of outstanding requests: it neither leaks nor underflows.
ExactRequestCount ==
  \A h \in Host, w \in Window : tx[h].orc[w] = Cardinality(OutstandingRequests(h, w))

\* The outstanding retransmitted request count, which gates retransmissions, is
\* decremented "when we enqueue PushRequest in retransmission scheduler or receive
\* ACK corresponding to PushSolicitedData", once for an increment: the retransmitted
\* ones are no more than the outstanding requests.
RetransmittedCountBounded ==
  \A h \in Host, w \in Window : tx[h].orrc[w] <= Cardinality(OutstandingRequests(h, w))

\* SetupRetransmitTimer and HandleRetransmitTimeout look up the transaction of
\* every unacknowledged packet: no handler erases a transaction that has one.
UnackedHasTransaction ==
  \A h \in Host, w \in Window : \A c \in tx[h].contexts[w] :
    tab[h].txn[OutKey(c.pkt)] # NoTransaction

\* An RNR NACK that "has arrived after the ACK" of its packet is ignored.
LateRnrNackIgnored == \A h \in Host : "HandleRnrNack" \notin tx[h].failed

\* The pause of initial transmissions after an out-of-window drop is over when no
\* more than the slack is unacknowledged: "Unset the OOW notification received bit
\* in case the difference between the next-psn and base-psn < slack".
PauseEnds == \A h \in Host, w \in Window :
               tx[h].oow[w] => tx[h].next[w] - tx[h].base[w] > Slack

\* Every transaction that the ULP wants is completed, after any number of losses
\* and of timeouts that were too early: retransmission, duplicates that are
\* acknowledged again and the transmission gates leave no one waiting for ever.
AllComplete ==
  <>(\A h \in Host : \A r \in 0 .. Len(Ops[h]) - 1 : dones[h][r] = 1)

Service == INSTANCE TransactionService WITH next_rsn <- [h \in Host |-> tab[h].next_rsn]

\* A transaction is executed at most once, however often its packets are
\* retransmitted, duplicated or RNR-NACKed, and completed at most once, after it
\* was executed.
ExactlyOnce == Service!Spec

=============================================================================
