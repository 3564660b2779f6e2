----------------------- MODULE FalconConnectionProofs -----------------------
(***************************************************************************)
(* For every number of transactions, every window size and every behaviour *)
(* of the network: the type invariant, and the ledger of the sender.       *)
(***************************************************************************)
EXTENDS FalconConnection, TransmitWindowProofs, ReceiveWindowProofs, TransactionTableProofs

-----------------------------------------------------------------------------
(* The inductive invariant.                                                  *)

\* The message m, on its way to a host whose next PSNs are own, from a host whose
\* next PSNs are peer: it is about PSNs that were sent.
MessageInv(m, own, peer) ==
  /\ \A w \in Window : m.bpsn[w] <= own[w]
  /\ m.kind = "packet" => m.psn < peer[WindowOf(m.pkt.type)]
  /\ m.kind = "ack" => \A w \in Window : \A i \in m.ack[w] : m.bpsn[w] + i < own[w]

\* The received packet contexts of a host with the receiver r.
ContextsInv(b, r, next) ==
  \A k \in TransactionKey :
    LET w == WindowOf(b.rxctx[k][1]) IN
    b.rxctx[k][1] \in PacketType =>
      b.rxctx[k][2] < next[w] /\ b.rxctx[k][2] < r.base[w] + RxWindow

IInv ==
  /\ TypeOK
  /\ \A h \in Host :
       /\ TxInv(tx[h])
       /\ "GetOutstandingPacketRSN" \notin tx[h].failed
       /\ RxInv(rx[h], tx[Peer(h)].next)
       /\ ContextsInv(tab[h], rx[h], tx[Peer(h)].next)
       /\ \A m \in net[h] : MessageInv(m, tx[h].next, tx[Peer(h)].next)

-----------------------------------------------------------------------------
(* Lemmas.                                                                   *)

\* A connection has two ends.
LEMMA PeerFacts ==
  ASSUME NEW h \in Host
  PROVE  /\ Peer(h) \in Host /\ Peer(h) # h /\ Peer(Peer(h)) = h
         /\ Host = {h, Peer(h)}
<1>1. PICK g, k \in Host : g # k /\ Host = {g, k}
  BY HostAssumption
<1>2. \A x \in Host : Peer(x) \in Host /\ Peer(x) # x
  <2> SUFFICES ASSUME NEW x \in Host PROVE Peer(x) \in Host /\ Peer(x) # x
    OBVIOUS
  <2>1. \E y \in Host : y # x
    BY <1>1
  <2> QED BY <2>1 DEF Peer
<1> QED BY <1>1, <1>2

\* The contexts stay within the window when contexts go and the window moves.
LEMMA ContextsFacts ==
  ASSUME NEW b \in TableState, NEW b2, TablePreserved(b, b2),
         NEW next, NEW r, NEW u, r \in RxState, RxPreserved(r, u, next),
         ContextsInv(b, r, next)
  PROVE  b2 \in TableState /\ ContextsInv(b2, u, next)
<1>1. u \in RxState /\ RxWindow \in Nat
  BY RxWindowAssumption DEF RxPreserved, RxInv
<1> SUFFICES ASSUME NEW k \in TransactionKey, b2.rxctx[k][1] \in PacketType
             PROVE  LET w == WindowOf(b2.rxctx[k][1]) IN
                    b2.rxctx[k][2] < next[w] /\ b2.rxctx[k][2] < u.base[w] + RxWindow
  BY DEF ContextsInv, TablePreserved
<1> DEFINE w == WindowOf(b.rxctx[k][1])
           n == b.rxctx[k][2]
<1>2. b2.rxctx[k] = b.rxctx[k]
  BY DEF TablePreserved
<1>3. n < next[w] /\ n < r.base[w] + RxWindow
  BY <1>2 DEF ContextsInv
<1>4. n \in Nat
  BY DEF TableState, ReceivedContext
<1>5. r.base[w] \in Nat /\ u.base[w] \in Nat /\ r.base[w] <= u.base[w]
  BY <1>1, WindowOfType DEF RxPreserved, RxState
<1>6. n < u.base[w] + RxWindow
  <2> HIDE DEF n, w
  <2> QED BY <1>1, <1>3, <1>4, <1>5
<1> QED BY <1>2, <1>3, <1>6

\* The packets that an acknowledgement removes.
LEMMA AcknowledgeFacts ==
  ASSUME NEW b \in TableState, NEW t \in TxState, NEW t2
  PROVE  TablePreserved(b, Acknowledge(b, t, t2))
<1>1. Acked(t, t2) \in SUBSET Packet
  BY DEF Acked, TxState, Context
<1> QED BY <1>1, AckTransactionsFacts DEF Acknowledge

\* The messages that a host makes from its state.
LEMMA MessageFacts ==
  ASSUME NEW r, NEW own \in [Window -> Nat], RxInv(r, own), NEW peer
  PROVE  /\ Ack(r) \in Message /\ MessageInv(Ack(r), own, peer)
         /\ \A w \in Window, n \in Nat, code \in {"OutOfWindow", "ResourceExhaustion", "Rnr"} :
              Nack(r, w, n, code) \in Message /\ MessageInv(Nack(r, w, n, code), own, peer)
<1>1. r \in RxState /\ r.base \in [Window -> Nat] /\ r.has_oow_drop \in [Window -> BOOLEAN]
      /\ \A w \in Window : r.base[w] <= own[w]
  BY DEF RxInv, RxState
<1>2. ASSUME NEW w \in Window, NEW n \in Nat,
             NEW code \in {"OutOfWindow", "ResourceExhaustion", "Rnr"}
      PROVE  Nack(r, w, n, code) \in Message /\ MessageInv(Nack(r, w, n, code), own, peer)
  BY <1>1 DEF Nack, Message, MessageInv
<1>3. ASSUME NEW w \in Window, NEW S, S = r.ack[w] \/ S = r.receive[w]
      PROVE  /\ Relative(S, r.base[w]) \in SUBSET Nat
             /\ \A i \in Relative(S, r.base[w]) : r.base[w] + i < own[w]
  <2> SUFFICES ASSUME NEW n \in S
               PROVE  n - r.base[w] \in Nat /\ r.base[w] + (n - r.base[w]) < own[w]
    BY DEF Relative
  <2>1. n \in Nat /\ r.base[w] \in Nat /\ own[w] \in Nat
    BY <1>1, <1>3 DEF RxState
  <2>2. r.base[w] <= n /\ n < own[w]
    BY <1>3 DEF RxInv
  <2> QED BY <2>1, <2>2
<1>4. Ack(r) \in Message /\ MessageInv(Ack(r), own, peer)
  <2> DEFINE ack == [w \in Window |-> Relative(r.ack[w], r.base[w])]
             received == Relative(r.receive["data"], r.base["data"])
             eack == IsEack(r)
             m == Ack(r)
  <2>1. ack \in [Window -> SUBSET Nat]
        /\ \A w \in Window : \A i \in ack[w] : r.base[w] + i < own[w]
    BY <1>3
  <2>2. received \in SUBSET Nat
    BY <1>3 DEF Window
  <2>3. eack \in BOOLEAN
    BY DEF IsEack
  <2>4. m = [kind |-> "ack", bpsn |-> r.base, eack |-> eack, own |-> r.has_oow_drop,
             ack |-> ack, received |-> received]
    BY DEF Ack
  <2> HIDE DEF ack, received, eack, m
  <2>5. m \in Message
    BY <2>1, <2>2, <2>3, <2>4, <1>1 DEF Message
  <2>6. MessageInv(m, own, peer)
    BY <2>1, <2>4, <1>1 DEF MessageInv
  <2> QED BY <2>5, <2>6 DEF m
<1> QED BY <1>2, <1>4

\* A packet carries the PSN of its context and the receiver's base PSNs.
LEMMA PacketMessageFacts ==
  ASSUME IInv, NEW h \in Host, NEW c \in Context,
         NEW next, c.psn < next[WindowOf(c.pkt.type)]
  PROVE  PacketMessage(h, c) \in Message /\ MessageInv(PacketMessage(h, c), tx[Peer(h)].next, next)
<1>1. rx[h].base \in [Window -> Nat] /\ \A w \in Window : rx[h].base[w] <= tx[Peer(h)].next[w]
  BY DEF IInv, RxInv, RxState
<1>2. c.psn \in Nat /\ c.pkt \in Packet
  BY DEF Context
<1> QED BY <1>1, <1>2 DEF PacketMessage, Message, MessageInv

\* The facts of the invariant about one host.
LEMMA HostFacts ==
  ASSUME IInv, NEW h \in Host
  PROVE  /\ TxInv(tx[h]) /\ "GetOutstandingPacketRSN" \notin tx[h].failed
         /\ tx[h] \in TxState /\ tx[h].next \in [Window -> Nat]
         /\ tx[Peer(h)] \in TxState /\ tx[Peer(h)].next \in [Window -> Nat]
         /\ rx[h] \in RxState /\ RxInv(rx[h], tx[Peer(h)].next)
         /\ tab[h] \in TableState /\ ContextsInv(tab[h], rx[h], tx[Peer(h)].next)
         /\ net[h] \in SUBSET Message
         /\ \A m \in net[h] : MessageInv(m, tx[h].next, tx[Peer(h)].next)
BY PeerFacts DEF IInv, TypeOK, TxState

\* The types of the variables.
LEMMA TypeFacts ==
  ASSUME IInv
  PROVE  /\ tx \in [Host -> TxState] /\ rx \in [Host -> RxState]
         /\ tab \in [Host -> TableState] /\ net \in [Host -> SUBSET Message]
         /\ execs \in [Host -> [Rsn -> Nat]] /\ dones \in [Host -> [Rsn -> Nat]]
         /\ losses \in Nat
BY DEF IInv, TypeOK

\* The order of the next PSNs is reflexive.
LEMMA NextReflexive ==
  ASSUME NEW f \in [Window -> Nat]
  PROVE  \A w \in Window : f[w] <= f[w]
OBVIOUS

\* A step of host h: what it has to establish about the new state of h and about
\* the messages that it sends, for the invariant to hold again at both ends.
StepOf(h) ==
  /\ tx' = [tx EXCEPT ![h] = tx'[h]]
  /\ rx' = [rx EXCEPT ![h] = rx'[h]]
  /\ tab' = [tab EXCEPT ![h] = tab'[h]]
  /\ TxInv(tx'[h])
  /\ \A w \in Window : tx[h].next[w] <= tx'[h].next[w]
  /\ "GetOutstandingPacketRSN" \notin tx'[h].failed
  /\ RxPreserved(rx[h], rx'[h], tx[Peer(h)].next)
  /\ tab'[h] \in TableState
  /\ ContextsInv(tab'[h], rx'[h], tx[Peer(h)].next)
  /\ net' \in [Host -> SUBSET Message]
  /\ net'[h] \subseteq net[h]
  /\ \A m \in net'[Peer(h)] \ net[Peer(h)] : MessageInv(m, tx[Peer(h)].next, tx'[h].next)
  /\ execs' \in [Host -> [Rsn -> Nat]]
  /\ dones' \in [Host -> [Rsn -> Nat]]
  /\ losses' \in Nat

\* Such a step preserves the invariant.
LEMMA HostStep ==
  ASSUME IInv, NEW h \in Host, StepOf(h)
  PROVE  IInv'
<1> DEFINE t == tx'[h]
           r == rx'[h]
           b == tab'[h]
<1>0. /\ tx' = [tx EXCEPT ![h] = t] /\ rx' = [rx EXCEPT ![h] = r]
      /\ tab' = [tab EXCEPT ![h] = b]
      /\ TxInv(t) /\ "GetOutstandingPacketRSN" \notin t.failed
      /\ \A w \in Window : tx[h].next[w] <= t.next[w]
      /\ RxPreserved(rx[h], r, tx[Peer(h)].next)
      /\ b \in TableState /\ ContextsInv(b, r, tx[Peer(h)].next)
      /\ \A m \in net'[Peer(h)] \ net[Peer(h)] : MessageInv(m, tx[Peer(h)].next, t.next)
      /\ net' \in [Host -> SUBSET Message] /\ net'[h] \subseteq net[h]
      /\ execs' \in [Host -> [Rsn -> Nat]] /\ dones' \in [Host -> [Rsn -> Nat]]
      /\ losses' \in Nat
  BY DEF StepOf
<1> HIDE DEF t, r, b
<1> DEFINE g == Peer(h)
<1>1. g \in Host /\ g # h /\ Peer(g) = h /\ Host = {h, g}
  BY PeerFacts
<1>2. t \in TxState /\ r \in RxState
  BY <1>0 DEF TxInv, RxPreserved, RxInv
<1>3. TypeOK'
  BY <1>0, <1>2 DEF IInv, TypeOK
<1>4. tx'[h] = t /\ tx'[g] = tx[g] /\ rx'[h] = r /\ rx'[g] = rx[g]
      /\ tab'[h] = b /\ tab'[g] = tab[g]
  BY <1>0, <1>1 DEF IInv, TypeOK
<1>5. /\ TxInv(tx[g]) /\ "GetOutstandingPacketRSN" \notin tx[g].failed
      /\ tx[g].next \in [Window -> Nat] /\ tx[h].next \in [Window -> Nat]
      /\ rx[g] \in RxState /\ RxInv(rx[g], tx[h].next)
      /\ tab[g] \in TableState /\ ContextsInv(tab[g], rx[g], tx[h].next)
      /\ net[g] \in SUBSET Message /\ net[h] \in SUBSET Message
      /\ \A m \in net[g] : MessageInv(m, tx[g].next, tx[h].next)
      /\ \A m \in net[h] : MessageInv(m, tx[h].next, tx[g].next)
  BY <1>1, HostFacts
<1>6. t.next \in [Window -> Nat]
  BY <1>2 DEF TxState
<1> HIDE DEF g
<1>6a. \A v \in Window : /\ tx[h].next[v] \in Nat /\ t.next[v] \in Nat
                           /\ tx[h].next[v] <= t.next[v]
  BY <1>0, <1>5, <1>6
<1>7. RxInv(rx[g], t.next)
  BY <1>0, <1>5, <1>6, RxInvMonotone
<1>8. ContextsInv(tab[g], rx[g], t.next)
  <2> SUFFICES ASSUME NEW k \in TransactionKey, tab[g].rxctx[k][1] \in PacketType
               PROVE  LET w == WindowOf(tab[g].rxctx[k][1]) IN
                      /\ tab[g].rxctx[k][2] < t.next[w]
                      /\ tab[g].rxctx[k][2] < rx[g].base[w] + RxWindow
    BY DEF ContextsInv
  <2> DEFINE w == WindowOf(tab[g].rxctx[k][1])
             n == tab[g].rxctx[k][2]
  <2>1. n < tx[h].next[w] /\ n < rx[g].base[w] + RxWindow
    BY <1>5 DEF ContextsInv
  <2>2. n \in Nat /\ w \in Window
    BY <1>5, WindowOfType DEF TableState, ReceivedContext
  <2> HIDE DEF n, w
  <2>3. n < t.next[w]
    BY <2>1, <2>2, <1>6a
  <2> QED BY <2>1, <2>3 DEF n, w
<1>9. \A m \in net'[g] : MessageInv(m, tx[g].next, t.next)
  <2> SUFFICES ASSUME NEW m \in net[g] PROVE MessageInv(m, tx[g].next, t.next)
    BY <1>0 DEF g
  <2>1. MessageInv(m, tx[g].next, tx[h].next) /\ m \in Message
    BY <1>5
  <2>2. CASE m.kind = "packet"
    <3> DEFINE w == WindowOf(m.pkt.type)
    <3>1. m.psn \in Nat /\ w \in Window
      BY <2>1, <2>2, WindowOfType DEF Message
    <3>2. m.psn < tx[h].next[w]
      BY <2>1, <2>2 DEF MessageInv
    <3> HIDE DEF w
    <3>3. m.psn < t.next[w]
      BY <3>1, <3>2, <1>6a
    <3> QED BY <2>1, <2>2, <3>3 DEF MessageInv, w
  <2>3. CASE m.kind # "packet"
    BY <2>1, <2>3 DEF MessageInv
  <2> QED BY <2>2, <2>3
<1>10. \A m \in net'[h] : MessageInv(m, t.next, tx[g].next)
  <2> SUFFICES ASSUME NEW m \in net[h] PROVE MessageInv(m, t.next, tx[g].next)
    BY <1>0
  <2>1. MessageInv(m, tx[h].next, tx[g].next) /\ m \in Message
    BY <1>5
  <2>2. m.bpsn \in [Window -> Nat]
    BY <2>1 DEF Message
  <2>3. ASSUME NEW w \in Window PROVE m.bpsn[w] <= t.next[w]
    <3>1. m.bpsn[w] \in Nat
      BY <2>2
    <3>2. m.bpsn[w] <= tx[h].next[w]
      BY <2>1 DEF MessageInv
    <3> QED BY <3>1, <3>2, <1>6a
  <2>4. ASSUME m.kind = "ack", NEW w \in Window, NEW i \in m.ack[w]
        PROVE  m.bpsn[w] + i < t.next[w]
    <3>1. i \in Nat
      BY <2>1, <2>4 DEF Message
    <3>2. m.bpsn[w] + i < tx[h].next[w]
      BY <2>1, <2>4 DEF MessageInv
    <3>3. m.bpsn[w] \in Nat
      BY <2>2
    <3> QED BY <3>1, <3>2, <3>3, <1>6a
  <2> QED BY <2>1, <2>3, <2>4 DEF MessageInv
<1>11. \A k \in Host :
         /\ TxInv(tx'[k])
         /\ "GetOutstandingPacketRSN" \notin tx'[k].failed
         /\ RxInv(rx'[k], tx'[Peer(k)].next)
         /\ ContextsInv(tab'[k], rx'[k], tx'[Peer(k)].next)
         /\ \A m \in net'[k] : MessageInv(m, tx'[k].next, tx'[Peer(k)].next)
  <2>1. Peer(h) = g
    BY DEF g
  <2>2. RxInv(r, tx[g].next) /\ ContextsInv(b, r, tx[g].next)
    BY <2>1, <1>0 DEF RxPreserved
  <2> QED BY <1>0, <1>1, <1>4, <1>5, <1>7, <1>8, <1>9, <1>10, <2>1, <2>2
<1> QED BY <1>3, <1>11 DEF IInv, TxInv, RxInv, ContextsInv, MessageInv

\* A step of host h that changes its transactions only.
LEMMA TableStep ==
  ASSUME IInv, NEW h \in Host, NEW b, TablePreserved(tab[h], b),
         tab' = [tab EXCEPT ![h] = b], UNCHANGED <<tx, rx, net, losses>>,
         execs' \in [Host -> [Rsn -> Nat]], dones' \in [Host -> [Rsn -> Nat]]
  PROVE  IInv'
<1> DEFINE next == tx[Peer(h)].next
<1>1. /\ TxInv(tx[h]) /\ "GetOutstandingPacketRSN" \notin tx[h].failed
      /\ tx[h].next \in [Window -> Nat]
      /\ rx[h] \in RxState /\ RxInv(rx[h], next)
      /\ tab[h] \in TableState /\ ContextsInv(tab[h], rx[h], next)
  BY HostFacts
<1>2. /\ tx' = tx /\ rx' = rx /\ net' = net
      /\ tx' = [tx EXCEPT ![h] = tx'[h]] /\ rx' = [rx EXCEPT ![h] = rx'[h]]
      /\ tab' = [tab EXCEPT ![h] = tab'[h]] /\ tab'[h] = b
      /\ net' \in [Host -> SUBSET Message] /\ losses' \in Nat
  BY DEF IInv, TypeOK
<1>3. RxPreserved(rx[h], rx[h], next)
  BY <1>1, CoalescingFacts
<1>4. b \in TableState /\ ContextsInv(b, rx[h], next)
  BY <1>1, <1>3, ContextsFacts
<1>5. \A w \in Window : tx[h].next[w] <= tx[h].next[w]
  BY <1>1
<1>6. StepOf(h)
  BY <1>1, <1>2, <1>3, <1>4, <1>5 DEF StepOf
<1> QED BY <1>6, HostStep

\* InitiateTransaction.
LEMMA InitiateTransactionStep ==
  ASSUME IInv, NEW h \in Host, InitiateTransaction(h)
  PROVE  IInv'
<1> DEFINE b == CreateTransactionFromUlp(tab[h], Ops[h][tab[h].next_rsn + 1])
<1>1. tab[h] \in TableState /\ tab[h].next_rsn \in Nat /\ tab[h].next_rsn < Len(Ops[h])
  BY HostFacts DEF InitiateTransaction, TableState
<1>2. Ops[h] \in Seq(TransactionType) /\ 0 .. Len(Ops[h]) - 1 \subseteq Rsn
  BY OpsAssumption
<1>3. Len(Ops[h]) \in Nat
  BY <1>2
<1>4. tab[h].next_rsn \in Rsn /\ tab[h].next_rsn + 1 \in 1 .. Len(Ops[h])
  <2>1. tab[h].next_rsn \in 0 .. Len(Ops[h]) - 1
    BY <1>1, <1>3
  <2> QED BY <2>1, <1>1, <1>2, <1>3
<1>5. Ops[h][tab[h].next_rsn + 1] \in TransactionType
  BY <1>2, <1>4
<1>6. TablePreserved(tab[h], b)
  BY <1>1, <1>4, <1>5, FromUlpFacts
<1>7. tab' = [tab EXCEPT ![h] = b] /\ UNCHANGED <<tx, rx, net, execs, dones, losses>>
  BY DEF InitiateTransaction
<1> HIDE DEF b
<1> QED BY <1>6, <1>7, TableStep DEF IInv, TypeOK

\* InitiateResponse.
LEMMA InitiateResponseStep ==
  ASSUME IInv, NEW h \in Host, NEW r \in Rsn, InitiateResponse(h, r)
  PROVE  IInv'
<1> DEFINE b == UpdateTransactionFromUlp(tab[h], r)
<1>1. TablePreserved(tab[h], b)
  BY HostFacts, FromUlpFacts
<1>2. tab' = [tab EXCEPT ![h] = b] /\ UNCHANGED <<tx, rx, net, execs, dones, losses>>
  BY DEF InitiateResponse
<1> HIDE DEF b
<1> QED BY <1>1, <1>2, TableStep DEF IInv, TypeOK

\* DeliverToUlp.
LEMMA DeliverToUlpStep ==
  ASSUME IInv, NEW h \in Host, NEW p \in tab[h].to_ulp, DeliverToUlp(h, p)
  PROVE  IInv'
<1> DEFINE b == SendToUlp(tab[h], p)
<1>1. tab[h] \in TableState /\ p \in UlpItem /\ p.rsn \in Rsn
  BY HostFacts DEF TableState, UlpItem
<1>2. TablePreserved(tab[h], b)
  BY <1>1, SendToUlpFacts
<1>3. tab' = [tab EXCEPT ![h] = b] /\ UNCHANGED <<tx, rx, net, execs, losses>>
      /\ (dones' = dones \/ dones' = [dones EXCEPT ![h][p.rsn] = @ + 1])
  BY DEF DeliverToUlp
<1>4. dones' \in [Host -> [Rsn -> Nat]]
  <2>1. dones \in [Host -> [Rsn -> Nat]] /\ dones[h][p.rsn] + 1 \in Nat
    BY <1>1 DEF IInv, TypeOK
  <2> QED BY <1>3, <2>1
<1> HIDE DEF b
<1> QED BY <1>2, <1>3, <1>4, TableStep DEF IInv, TypeOK

\* RnrTimeout.
LEMMA RnrTimeoutStep ==
  ASSUME IInv, NEW h \in Host, NEW p \in tab[h].waiting, RnrTimeout(h, p)
  PROVE  IInv'
<1> DEFINE b == RetryRnrNackedPacket(tab[h], p)
<1>1. tab[h] \in TableState /\ p \in Packet
  BY HostFacts DEF TableState
<1>2. TablePreserved(tab[h], b)
  BY <1>1, RetryFacts
<1>3. tab' = [tab EXCEPT ![h] = b] /\ UNCHANGED <<tx, rx, net, execs, dones, losses>>
  BY DEF RnrTimeout
<1> HIDE DEF b
<1> QED BY <1>2, <1>3, TableStep DEF IInv, TypeOK

\* A step that changes host h to t, r and b and sends M, without a new context.
StepTo(h, t, r, b, M) ==
  /\ tx' = [tx EXCEPT ![h] = t]
  /\ rx' = [rx EXCEPT ![h] = r]
  /\ tab' = [tab EXCEPT ![h] = b]
  /\ TxInv(t)
  /\ \A w \in Window : tx[h].next[w] <= t.next[w]
  /\ "GetOutstandingPacketRSN" \notin t.failed
  /\ RxPreserved(rx[h], r, tx[Peer(h)].next)
  /\ TablePreserved(tab[h], b)
  /\ M \in SUBSET Message
  /\ \A m \in M : MessageInv(m, tx[Peer(h)].next, t.next)
  /\ net' = Send(h, M) \/ \E m : net' = Reply(h, m, M)
  /\ execs' \in [Host -> [Rsn -> Nat]]
  /\ dones' \in [Host -> [Rsn -> Nat]]
  /\ losses' \in Nat

\* What Send and Reply put into the network.
LEMMA NetFacts ==
  ASSUME IInv, NEW h \in Host, NEW M \in SUBSET Message, NEW m
  PROVE  /\ Send(h, M) \in [Host -> SUBSET Message]
         /\ Send(h, M)[h] = net[h] /\ Send(h, M)[Peer(h)] = net[Peer(h)] \cup M
         /\ Reply(h, m, M) \in [Host -> SUBSET Message]
         /\ Reply(h, m, M)[h] \subseteq net[h]
         /\ Reply(h, m, M)[Peer(h)] = net[Peer(h)] \cup M
<1>1. net \in [Host -> SUBSET Message]
  BY DEF IInv, TypeOK
<1>2. Peer(h) \in Host /\ Peer(h) # h
  BY PeerFacts
<1> QED BY <1>1, <1>2 DEF Send, Reply

\* A message handled without a reply.
LEMMA QuietFacts ==
  ASSUME IInv, NEW h \in Host, NEW m
  PROVE  /\ Reply(h, m, {}) \in [Host -> SUBSET Message]
         /\ Reply(h, m, {})[h] \subseteq net[h]
         /\ Reply(h, m, {})[Peer(h)] = net[Peer(h)]
<1>1. net \in [Host -> SUBSET Message]
  BY TypeFacts
<1>2. Peer(h) \in Host /\ Peer(h) # h
  BY PeerFacts
<1> QED BY <1>1, <1>2 DEF Reply

\* Such a step preserves the invariant.
LEMMA StepToFacts ==
  ASSUME IInv, NEW h \in Host, NEW t, NEW r, NEW b, NEW M, StepTo(h, t, r, b, M)
  PROVE  IInv'
<1>1. /\ rx[h] \in RxState /\ tab[h] \in TableState
      /\ ContextsInv(tab[h], rx[h], tx[Peer(h)].next)
  BY HostFacts
<1>2. tx'[h] = t /\ rx'[h] = r /\ tab'[h] = b
  BY DEF StepTo, IInv, TypeOK
<1>3. b \in TableState /\ ContextsInv(b, r, tx[Peer(h)].next)
  BY <1>1, ContextsFacts DEF StepTo
<1>4. /\ net' \in [Host -> SUBSET Message] /\ net'[h] \subseteq net[h]
      /\ net'[Peer(h)] = net[Peer(h)] \cup M
  <2>1. CASE net' = Send(h, M)
    BY <2>1, NetFacts DEF StepTo
  <2>2. CASE \E m : net' = Reply(h, m, M)
    <3>1. PICK m : net' = Reply(h, m, M)
      BY <2>2
    <3>2. M \in SUBSET Message
      BY DEF StepTo
    <3>3. /\ Reply(h, m, M) \in [Host -> SUBSET Message]
          /\ Reply(h, m, M)[h] \subseteq net[h]
          /\ Reply(h, m, M)[Peer(h)] = net[Peer(h)] \cup M
      BY <3>2, NetFacts
    <3> QED BY <3>1, <3>3
  <2> QED BY <2>1, <2>2 DEF StepTo
<1>5. StepOf(h)
  BY <1>2, <1>3, <1>4 DEF StepOf, StepTo
<1> QED BY <1>5, HostStep

\* UlpAck.
LEMMA UlpAckStep ==
  ASSUME IInv, NEW h \in Host, NEW p \in tab[h].buffer, UlpAck(h, p)
  PROVE  IInv'
<1> DEFINE ctx == tab[h].rxctx[InKey(p)]
           w == WindowOf(ctx[1])
           r == IF ctx[1] \in PacketType \ {"PullRequest"}
                THEN GenerateAckOrUpdateCoalescingState(
                       UpdateReceiveAckBitmap(rx[h], w, ctx[2]))
                ELSE rx[h]
           b == AckFromUlp(tab[h], p)
           next == tx[Peer(h)].next
<1>1. /\ TxInv(tx[h]) /\ "GetOutstandingPacketRSN" \notin tx[h].failed
      /\ tx[h].next \in [Window -> Nat] /\ next \in [Window -> Nat]
      /\ rx[h] \in RxState /\ RxInv(rx[h], next)
      /\ tab[h] \in TableState /\ ContextsInv(tab[h], rx[h], next)
  BY HostFacts
<1>2. p \in Packet /\ p.rsn \in Rsn /\ InKey(p) \in TransactionKey
  BY <1>1, KeyType DEF TableState, Packet
<1>3. ctx[2] \in Nat /\ w \in Window
  BY <1>1, <1>2, WindowOfType DEF TableState, ReceivedContext
<1>4. TablePreserved(tab[h], b)
  BY <1>1, <1>2, UlpAnswerFacts
<1>5. RxPreserved(rx[h], r, next)
  <2>1. CASE ctx[1] \in PacketType \ {"PullRequest"}
    <3> DEFINE u == UpdateReceiveAckBitmap(rx[h], w, ctx[2])
    <3>1. ctx[2] < next[w] /\ ctx[2] < rx[h].base[w] + RxWindow
      BY <2>1, <1>1, <1>2 DEF ContextsInv
    <3> HIDE DEF w
    <3>2. RxPreserved(rx[h], u, next)
      BY <3>1, <1>1, <1>3, UpdateReceiveAckBitmapFacts
    <3>3. r = GenerateAckOrUpdateCoalescingState(u)
      BY <2>1
    <3> HIDE DEF u, r
    <3>4. RxPreserved(u, r, next)
      BY <3>2, <3>3, CoalescingFacts DEF RxPreserved
    <3> QED BY <3>2, <3>4, <1>1, RxTransitive
  <2>2. CASE ctx[1] \notin PacketType \ {"PullRequest"}
    BY <2>2, <1>1, CoalescingFacts
  <2> QED BY <2>1, <2>2
<1>6. /\ tx' = [tx EXCEPT ![h] = tx[h]] /\ rx' = [rx EXCEPT ![h] = r]
      /\ tab' = [tab EXCEPT ![h] = b] /\ net' = Send(h, {}) /\ losses' = losses
      /\ dones' = dones /\ execs' = [execs EXCEPT ![Peer(h)][p.rsn] = @ + 1]
  BY DEF UlpAck, IInv, TypeOK, Send
<1> HIDE DEF r, b, ctx, w, next
<1>7. execs' \in [Host -> [Rsn -> Nat]]
  <2>1. execs \in [Host -> [Rsn -> Nat]] /\ Peer(h) \in Host
    BY TypeFacts, PeerFacts
  <2>2. execs[Peer(h)][p.rsn] + 1 \in Nat
    BY <1>2, <2>1
  <2> QED BY <1>2, <1>6, <2>1, <2>2
<1>8. \A v \in Window : tx[h].next[v] <= tx[h].next[v]
  BY <1>1, NextReflexive
<1>9. dones' \in [Host -> [Rsn -> Nat]] /\ losses' \in Nat
  BY <1>6, TypeFacts
<1> USE DEF next
<1>10. StepTo(h, tx[h], r, b, {})
  BY <1>1, <1>4, <1>5, <1>6, <1>7, <1>8, <1>9 DEF StepTo
<1> QED BY <1>10, StepToFacts

\* What a step may leave as it is.
LEMMA SameFacts ==
  ASSUME IInv, NEW h \in Host
  PROVE  /\ tx = [tx EXCEPT ![h] = tx[h]]
         /\ rx = [rx EXCEPT ![h] = rx[h]]
         /\ tab = [tab EXCEPT ![h] = tab[h]]
         /\ net = Send(h, {})
         /\ execs \in [Host -> [Rsn -> Nat]] /\ dones \in [Host -> [Rsn -> Nat]]
         /\ losses \in Nat
         /\ \A w \in Window : tx[h].next[w] <= tx[h].next[w]
         /\ RxPreserved(rx[h], rx[h], tx[Peer(h)].next)
         /\ TablePreserved(tab[h], tab[h])
<1>1. tx[h].next \in [Window -> Nat] /\ RxInv(rx[h], tx[Peer(h)].next)
      /\ tab[h] \in TableState
  BY HostFacts
<1>2. TablePreserved(tab[h], tab[h])
  BY <1>1, SameContexts
<1>3. RxPreserved(rx[h], rx[h], tx[Peer(h)].next)
  BY <1>1, CoalescingFacts
<1>4. net = Send(h, {})
  BY DEF IInv, TypeOK, Send
<1>5. tx = [tx EXCEPT ![h] = tx[h]] /\ rx = [rx EXCEPT ![h] = rx[h]]
      /\ tab = [tab EXCEPT ![h] = tab[h]]
  BY DEF IInv, TypeOK
<1>6. \A w \in Window : tx[h].next[w] <= tx[h].next[w]
  BY <1>1, NextReflexive
<1> QED BY <1>2, <1>3, <1>4, <1>5, <1>6, TypeFacts

\* UlpRnrNack.
LEMMA UlpRnrNackStep ==
  ASSUME IInv, NEW h \in Host, NEW p \in tab[h].buffer, UlpRnrNack(h, p)
  PROVE  IInv'
<1> DEFINE ctx == tab[h].rxctx[InKey(p)]
           w == WindowOf(ctx[1])
           b == RnrNackFromUlp(tab[h], p)
           next == tx[Peer(h)].next
           nack == Nack(rx[h], w, ctx[2], "Rnr")
<1>1. /\ TxInv(tx[h]) /\ "GetOutstandingPacketRSN" \notin tx[h].failed
      /\ next \in [Window -> Nat]
      /\ rx[h] \in RxState /\ RxInv(rx[h], next) /\ tab[h] \in TableState
  BY HostFacts
<1>2. p \in Packet /\ InKey(p) \in TransactionKey
  BY <1>1, KeyType DEF TableState
<1>3. ctx[2] \in Nat /\ w \in Window
  BY <1>1, <1>2, WindowOfType DEF TableState, ReceivedContext
<1>4. TablePreserved(tab[h], b)
  BY <1>1, <1>2, UlpAnswerFacts
<1>5. tab' = [tab EXCEPT ![h] = b] /\ UNCHANGED <<tx, execs, dones, losses>>
  BY DEF UlpRnrNack
<1>6. CASE ctx[1] \in PacketType \ {"PullRequest"}
  <2>1. PICK r \in TransmitNACK(rx[h]) : rx' = [rx EXCEPT ![h] = r]
    BY <1>6 DEF UlpRnrNack
  <2>2. net' = Send(h, {nack})
    BY <1>6 DEF UlpRnrNack
  <2> HIDE DEF ctx, w, b
  <2>3. RxPreserved(rx[h], r, next)
    BY <1>1, CoalescingFacts
  <2>4. nack \in Message /\ MessageInv(nack, next, tx[h].next)
    BY <1>1, <1>3, MessageFacts
  <2> HIDE DEF nack
  <2>5. StepTo(h, tx[h], r, b, {nack})
    BY <1>1, <1>4, <1>5, <2>1, <2>2, <2>3, <2>4, SameFacts DEF StepTo
  <2> QED BY <2>5, StepToFacts
<1>7. CASE ctx[1] \notin PacketType \ {"PullRequest"}
  <2>1. UNCHANGED <<net, rx>>
    BY <1>7 DEF UlpRnrNack
  <2> HIDE DEF b
  <2> QED BY <1>4, <1>5, <2>1, SameFacts, TableStep
<1> QED BY <1>6, <1>7

\* TransmitInitial.
LEMMA TransmitInitialStep ==
  ASSUME IInv, NEW h \in Host, NEW p \in tab[h].sched, TransmitInitial(h, p)
  PROVE  IInv'
<1> DEFINE w == WindowOf(p.type)
           c == [psn |-> tx[h].next[w], pkt |-> p]
           t == TransmitPacket(tx[h], p)
           b == TransmitFromTransaction(tab[h], p)
           m == PacketMessage(h, c)
           next == tx[Peer(h)].next
<1>1. /\ TxInv(tx[h]) /\ "GetOutstandingPacketRSN" \notin tx[h].failed
      /\ tx[h].next \in [Window -> Nat] /\ next \in [Window -> Nat]
      /\ rx[h] \in RxState /\ RxInv(rx[h], next) /\ tab[h] \in TableState
  BY HostFacts
<1>2. p \in Packet /\ w \in Window
  BY <1>1, WindowOfType DEF TableState
<1>3. TxInv(t) /\ t.failed = tx[h].failed /\ t.next = [tx[h].next EXCEPT ![w] = @ + 1]
  BY <1>1, <1>2, TransmitPacketFacts
<1>4. c \in Context /\ c.psn = tx[h].next[w] /\ WindowOf(c.pkt.type) = w
  BY <1>1, <1>2 DEF Context
<1>5. PICK r \in PiggybackAck(rx[h]) : rx' = [rx EXCEPT ![h] = r]
  BY DEF TransmitInitial
<1>6. /\ tx' = [tx EXCEPT ![h] = t] /\ tab' = [tab EXCEPT ![h] = b]
      /\ net' = Send(h, {m}) /\ UNCHANGED <<execs, dones, losses>>
  BY DEF TransmitInitial
<1>7. TablePreserved(tab[h], b)
  BY <1>1, <1>2, TransmitFacts
<1>8. RxPreserved(rx[h], r, next)
  BY <1>1, CoalescingFacts
<1> HIDE DEF w, c, t, b
<1>9. (\A v \in Window : tx[h].next[v] <= t.next[v]) /\ c.psn < t.next[w]
  <2> HIDE DEF m, next
  <2>1. w \in Window /\ tx[h].next \in [Window -> Nat]
    BY <1>1, <1>2
  <2>2. t.next = [tx[h].next EXCEPT ![w] = @ + 1] /\ c.psn = tx[h].next[w]
    BY <1>3, <1>4
  <2> QED BY <2>1, <2>2
<1>10. m \in Message /\ MessageInv(m, next, t.next)
  BY <1>4, <1>9, PacketMessageFacts
<1> HIDE DEF m
<1>11. StepTo(h, t, r, b, {m})
  BY <1>1, <1>3, <1>5, <1>6, <1>7, <1>8, <1>9, <1>10, SameFacts DEF StepTo
<1> QED BY <1>11, StepToFacts

\* Retransmit.
LEMMA RetransmitStep ==
  ASSUME IInv, NEW h \in Host, NEW c \in RetransmissionCandidates(tx[h]), Retransmit(h, c)
  PROVE  IInv'
<1> DEFINE t == RetransmitPacket(tx[h], c)
           m == PacketMessage(h, c)
           next == tx[Peer(h)].next
<1>1. /\ TxInv(tx[h]) /\ "GetOutstandingPacketRSN" \notin tx[h].failed
      /\ next \in [Window -> Nat]
      /\ rx[h] \in RxState /\ RxInv(rx[h], next)
  BY HostFacts
<1>2. /\ Preserved(tx[h], t) /\ c \in Context
      /\ c.psn < tx[h].next[WindowOf(c.pkt.type)]
  BY <1>1, RetransmitPacketFacts
<1>3. TxInv(t) /\ t.next = tx[h].next /\ t.failed = tx[h].failed
  BY <1>2 DEF Preserved
<1>4. PICK r \in PiggybackAck(rx[h]) : rx' = [rx EXCEPT ![h] = r]
  BY DEF Retransmit
<1>5. /\ tx' = [tx EXCEPT ![h] = t] /\ net' = Send(h, {m})
      /\ UNCHANGED <<tab, execs, dones, losses>>
  BY DEF Retransmit
<1>6. RxPreserved(rx[h], r, next)
  BY <1>1, CoalescingFacts
<1> HIDE DEF t
<1>7. m \in Message /\ MessageInv(m, next, t.next)
  BY <1>2, <1>3, PacketMessageFacts
<1> HIDE DEF m
<1>8. StepTo(h, t, r, tab[h], {m})
  BY <1>1, <1>3, <1>4, <1>5, <1>6, <1>7, SameFacts DEF StepTo
<1> QED BY <1>8, StepToFacts

\* RetransmitTimeout.
LEMMA RetransmitTimeoutStep ==
  ASSUME IInv, NEW h \in Host, RetransmitTimeout(h)
  PROVE  IInv'
<1>1. TxInv(tx[h]) /\ "GetOutstandingPacketRSN" \notin tx[h].failed
  BY HostFacts
<1>2. PICK R \in Prefixes(tx[h], "request", tx[h].next["request"]),
           D \in Prefixes(tx[h], "data", tx[h].next["data"]) :
        tx' = [tx EXCEPT ![h] = HandleRetransmitTimeout(@,
                 [w \in Window |-> IF w = "request" THEN R ELSE D])]
  BY DEF RetransmitTimeout
<1> DEFINE P == [w \in Window |-> IF w = "request" THEN R ELSE D]
           t == HandleRetransmitTimeout(tx[h], P)
<1>3. UNCHANGED <<rx, tab, net, execs, dones, losses>>
  BY DEF RetransmitTimeout
<1>4. \A w \in Window : P[w] \in SUBSET tx[h].outstanding[w]
  <2>1. R \in SUBSET tx[h].outstanding["request"] /\ D \in SUBSET tx[h].outstanding["data"]
    BY <1>2, ChosenOutstanding
  <2> QED BY <2>1 DEF Window
<1>5. tx' = [tx EXCEPT ![h] = t]
  BY <1>2
<1> HIDE DEF P
<1>6. Preserved(tx[h], t)
  BY <1>1, <1>4, HandleRetransmitTimeoutFacts
<1> HIDE DEF t
<1>7. TxInv(t) /\ t.next = tx[h].next /\ t.failed = tx[h].failed
  BY <1>6 DEF Preserved
<1>8. StepTo(h, t, rx[h], tab[h], {})
  BY <1>1, <1>3, <1>5, <1>7, SameFacts DEF StepTo
<1> QED BY <1>8, StepToFacts

\* SendAck.
LEMMA SendAckStep ==
  ASSUME IInv, NEW h \in Host, SendAck(h)
  PROVE  IInv'
<1> DEFINE r == TransmitACK(rx[h])
           m == Ack(rx[h])
           next == tx[Peer(h)].next
<1>1. /\ TxInv(tx[h]) /\ "GetOutstandingPacketRSN" \notin tx[h].failed
      /\ next \in [Window -> Nat] /\ RxInv(rx[h], next)
  BY HostFacts
<1>2. /\ rx' = [rx EXCEPT ![h] = r] /\ net' = Send(h, {m})
      /\ UNCHANGED <<tx, tab, execs, dones, losses>>
  BY DEF SendAck
<1>3. RxPreserved(rx[h], r, next)
  BY <1>1, CoalescingFacts
<1>4. m \in Message /\ MessageInv(m, next, tx[h].next)
  BY <1>1, MessageFacts
<1> HIDE DEF r, m
<1>5. StepTo(h, tx[h], r, tab[h], {m})
  BY <1>1, <1>2, <1>3, <1>4, SameFacts DEF StepTo
<1> QED BY <1>5, StepToFacts

\* The fields of a packet in the network.
LEMMA ArrivalFacts ==
  ASSUME IInv, NEW h \in Host, NEW m \in net[h]
  PROVE  /\ m \in Message /\ m.bpsn \in [Window -> Nat]
         /\ \A w \in Window : m.bpsn[w] <= tx[h].next[w]
         /\ m.kind = "packet" => /\ m.pkt \in Packet /\ m.psn \in Nat
                                 /\ WindowOf(m.pkt.type) \in Window
                                 /\ m.psn < tx[Peer(h)].next[WindowOf(m.pkt.type)]
<1>1. m \in Message /\ MessageInv(m, tx[h].next, tx[Peer(h)].next)
  BY HostFacts
<1> QED BY <1>1, WindowOfType DEF Message, MessageInv

\* ReceiveDuplicate.
LEMMA ReceiveDuplicateStep ==
  ASSUME IInv, NEW h \in Host, NEW m \in net[h], ReceiveDuplicate(h, m)
  PROVE  IInv'
<1> DEFINE r == GenerateAckOrUpdateCoalescingState(rx[h])
           b == RetryRnrNackedPacket(tab[h], m.pkt)
<1>1. /\ TxInv(tx[h]) /\ "GetOutstandingPacketRSN" \notin tx[h].failed
      /\ RxInv(rx[h], tx[Peer(h)].next) /\ tab[h] \in TableState
  BY HostFacts
<1>2. /\ rx' = [rx EXCEPT ![h] = r] /\ net' = Reply(h, m, {})
      /\ tab' = [tab EXCEPT ![h] = b] \/ tab' = tab
      /\ UNCHANGED <<tx, execs, dones, losses>> /\ m.kind = "packet"
  BY DEF ReceiveDuplicate
<1>3. TablePreserved(tab[h], b)
  BY <1>1, <1>2, ArrivalFacts, RetryFacts
<1>4. RxPreserved(rx[h], r, tx[Peer(h)].next)
  BY <1>1, CoalescingFacts
<1> HIDE DEF r, b
<1>5. CASE tab' = [tab EXCEPT ![h] = b]
  <2>1. StepTo(h, tx[h], r, b, {})
    BY <1>1, <1>2, <1>3, <1>4, <1>5, SameFacts DEF StepTo
  <2> QED BY <2>1, StepToFacts
<1>6. CASE tab' = tab
  <2>1. StepTo(h, tx[h], r, tab[h], {})
    BY <1>1, <1>2, <1>3, <1>4, <1>6, SameFacts DEF StepTo
  <2> QED BY <2>1, StepToFacts
<1> QED BY <1>2, <1>5, <1>6

\* ReceiveOutOfWindow.
LEMMA ReceiveOutOfWindowStep ==
  ASSUME IInv, NEW h \in Host, NEW m \in net[h], ReceiveOutOfWindow(h, m)
  PROVE  IInv'
<1> DEFINE w == WindowOf(m.pkt.type)
           nack == Nack(rx[h], w, m.psn, "OutOfWindow")
           next == tx[Peer(h)].next
<1>1. /\ TxInv(tx[h]) /\ "GetOutstandingPacketRSN" \notin tx[h].failed
      /\ next \in [Window -> Nat] /\ RxInv(rx[h], next)
  BY HostFacts
<1>2. UNCHANGED <<tx, tab, execs, dones, losses>> /\ m.kind = "packet"
  BY DEF ReceiveOutOfWindow
<1>3. m.psn \in Nat /\ w \in Window
  BY <1>2, ArrivalFacts
<1>4. CASE ~EackBasedEarlyRetransmissionIsEnabled
  <2>1. PICK r \in TransmitNACK(rx[h]) : rx' = [rx EXCEPT ![h] = r]
    BY <1>4 DEF ReceiveOutOfWindow
  <2>2. net' = Reply(h, m, {nack})
    BY <1>4 DEF ReceiveOutOfWindow
  <2> HIDE DEF w
  <2>3. RxPreserved(rx[h], r, next)
    BY <1>1, CoalescingFacts
  <2>4. nack \in Message /\ MessageInv(nack, next, tx[h].next)
    BY <1>1, <1>3, MessageFacts
  <2> HIDE DEF nack
  <2>5. StepTo(h, tx[h], r, tab[h], {nack})
    BY <1>1, <1>2, <2>1, <2>2, <2>3, <2>4, SameFacts DEF StepTo
  <2> QED BY <2>5, StepToFacts
<1>5. CASE EackBasedEarlyRetransmissionIsEnabled
  <2> DEFINE r == [GenerateAckOrUpdateCoalescingState(rx[h]) EXCEPT !.has_oow_drop[w] = TRUE]
  <2>1. net' = Reply(h, m, {}) /\ (rx' = rx \/ rx' = [rx EXCEPT ![h] = r])
    BY <1>5 DEF ReceiveOutOfWindow
  <2>2. RxPreserved(rx[h], r, next)
    BY <1>1, <1>3, CoalescingFacts
  <2> HIDE DEF r
  <2>3. StepTo(h, tx[h], r, tab[h], {}) \/ StepTo(h, tx[h], rx[h], tab[h], {})
    BY <1>1, <1>2, <2>1, <2>2, SameFacts DEF StepTo
  <2> QED BY <2>3, StepToFacts
<1> QED BY <1>4, <1>5

\* ReceiveNoResources.
LEMMA ReceiveNoResourcesStep ==
  ASSUME IInv, NEW h \in Host, NEW m \in net[h], ReceiveNoResources(h, m)
  PROVE  IInv'
<1> DEFINE w == WindowOf(m.pkt.type)
           t == HandlePiggybackedACK(tx[h], m.bpsn, NoOwn)
           b == Acknowledge(tab[h], tx[h], t)
           nack == Nack(rx[h], w, m.psn, "ResourceExhaustion")
           next == tx[Peer(h)].next
<1>1. /\ TxInv(tx[h]) /\ "GetOutstandingPacketRSN" \notin tx[h].failed /\ tx[h] \in TxState
      /\ next \in [Window -> Nat] /\ RxInv(rx[h], next) /\ tab[h] \in TableState
  BY HostFacts
<1>2. /\ tx' = [tx EXCEPT ![h] = t] /\ tab' = [tab EXCEPT ![h] = b]
      /\ net' = Reply(h, m, {nack}) /\ UNCHANGED <<execs, dones, losses>>
      /\ m.kind = "packet"
  BY DEF ReceiveNoResources
<1>3. PICK r \in TransmitNACK(rx[h]) : rx' = [rx EXCEPT ![h] = r]
  BY DEF ReceiveNoResources
<1>4. m.psn \in Nat /\ w \in Window /\ m.bpsn \in [Window -> Nat]
      /\ \A v \in Window : m.bpsn[v] <= tx[h].next[v]
  BY <1>2, ArrivalFacts
<1>5. NoOwn \in [Window -> BOOLEAN]
  BY DEF NoOwn
<1>6. Preserved(tx[h], t)
  BY <1>1, <1>4, <1>5, HandlePiggybackedACKFacts
<1>7. TxInv(t) /\ t.next = tx[h].next /\ t.failed = tx[h].failed
  BY <1>6 DEF Preserved
<1> HIDE DEF t, w
<1>8. TablePreserved(tab[h], b)
  BY <1>1, AcknowledgeFacts
<1>9. RxPreserved(rx[h], r, next)
  BY <1>1, CoalescingFacts
<1>10. nack \in Message /\ MessageInv(nack, next, t.next)
  BY <1>1, <1>4, MessageFacts
<1> HIDE DEF nack, b
<1>11. StepTo(h, t, r, b, {nack})
  BY <1>1, <1>2, <1>3, <1>7, <1>8, <1>9, <1>10, SameFacts DEF StepTo
<1> QED BY <1>11, StepToFacts

\* ReceiveNew.
LEMMA ReceiveNewStep ==
  ASSUME IInv, NEW h \in Host, NEW m \in net[h], ReceiveNew(h, m)
  PROVE  IInv'
<1> DEFINE w == WindowOf(m.pkt.type)
           next == tx[Peer(h)].next
           t1 == HandleImplicitAck(tx[h], m.pkt)
           t2 == HandlePiggybackedACK(t1, m.bpsn, NoOwn)
           b0 == CheckImplicitAck(tab[h], m.pkt)
           b1 == Acknowledge(b0, tx[h], t1)
           bc == CreateReceivedContext(b1, m.pkt, m.psn)
           b2 == Acknowledge(bc, t1, t2)
           b3 == CreateOrUpdateTransactionFromNetwork(b2, m.pkt)
           r == AcceptPacket(rx[h], m.pkt.type, m.psn)
<1>1. /\ TxInv(tx[h]) /\ "GetOutstandingPacketRSN" \notin tx[h].failed /\ tx[h] \in TxState
      /\ next \in [Window -> Nat] /\ rx[h] \in RxState /\ RxInv(rx[h], next)
      /\ tab[h] \in TableState /\ ContextsInv(tab[h], rx[h], next)
      /\ tx[h].next \in [Window -> Nat]
  BY HostFacts
<1>2. /\ tx' = [tx EXCEPT ![h] = t2] /\ rx' = [rx EXCEPT ![h] = r]
      /\ tab' = [tab EXCEPT ![h] = b3]
      /\ net' = Reply(h, m, {}) /\ UNCHANGED <<execs, dones, losses>>
      /\ m.kind = "packet"
      /\ ~IsDuplicate(rx[h], w, m.psn) /\ ~IsOutOfWindow(rx[h], w, m.psn)
  BY DEF ReceiveNew
<1>3. /\ m.pkt \in Packet /\ m.psn \in Nat /\ w \in Window /\ m.psn < next[w]
      /\ m.bpsn \in [Window -> Nat] /\ \A v \in Window : m.bpsn[v] <= tx[h].next[v]
  BY <1>2, ArrivalFacts
<1>4. RxPreserved(rx[h], r, next) /\ m.psn < rx[h].base[w] + RxWindow
  BY <1>1, <1>2, <1>3, AcceptPacketFacts
<1>5. Preserved(tx[h], t1)
  BY <1>1, <1>3, HandleImplicitAckFacts
<1>6. TxInv(t1) /\ t1 \in TxState /\ t1.next = tx[h].next /\ t1.failed = tx[h].failed
  BY <1>5 DEF Preserved, TxInv
<1> HIDE DEF t1, r
<1>7. Preserved(t1, t2)
  <2>1. NoOwn \in [Window -> BOOLEAN]
    BY DEF NoOwn
  <2> QED BY <2>1, <1>3, <1>6, HandlePiggybackedACKFacts
<1>8. TxInv(t2) /\ t2.next = tx[h].next /\ t2.failed = tx[h].failed
  BY <1>6, <1>7 DEF Preserved
<1> HIDE DEF t2
<1>9. TablePreserved(tab[h], b0)
  BY <1>1, CheckFacts
<1>10. b0 \in TableState
  BY <1>9 DEF TablePreserved
<1> HIDE DEF b0
<1>11. TablePreserved(b0, b1)
  BY <1>1, <1>10, AcknowledgeFacts
<1> HIDE DEF b1
<1>12. b1 \in TableState /\ ContextsInv(b1, r, next)
  <2>1. TablePreserved(tab[h], b1)
    BY <1>9, <1>11, TableTransitive
  <2> HIDE DEF next
  <2> QED BY <1>1, <1>4, <2>1, ContextsFacts
<1>13. bc \in TableState /\ bc.rxctx = [b1.rxctx EXCEPT ![InKey(m.pkt)] = <<m.pkt.type, m.psn>>]
  <2>1. m.pkt \in Packet /\ m.psn \in Nat /\ b1 \in TableState
    BY <1>3, <1>12
  <2> QED BY <2>1, CreateReceivedContextFacts
<1> HIDE DEF bc
<1>14. ContextsInv(bc, r, next)
  <2>1. m.psn < r.base[w] + RxWindow
    <3>1. rx[h].base[w] <= r.base[w] /\ rx[h].base[w] \in Nat /\ r.base[w] \in Nat
          /\ RxWindow \in Nat
      BY <1>1, <1>3, <1>4, RxWindowAssumption DEF RxPreserved, RxInv, RxState
    <3> HIDE DEF w
    <3> QED BY <3>1, <1>3, <1>4
  <2> SUFFICES ASSUME NEW k \in TransactionKey, bc.rxctx[k][1] \in PacketType
               PROVE  LET v == WindowOf(bc.rxctx[k][1]) IN
                      bc.rxctx[k][2] < next[v] /\ bc.rxctx[k][2] < r.base[v] + RxWindow
    BY DEF ContextsInv
  <2>2. b1.rxctx \in [TransactionKey -> ReceivedContext]
    BY <1>12 DEF TableState
  <2>3. CASE k = InKey(m.pkt)
    <3>1. bc.rxctx[k] = <<m.pkt.type, m.psn>>
      BY <2>2, <2>3, <1>13
    <3> QED BY <3>1, <2>1, <1>3
  <2>4. CASE k # InKey(m.pkt)
    <3>1. bc.rxctx[k] = b1.rxctx[k]
      BY <2>2, <2>4, <1>13
    <3> QED BY <3>1, <1>12 DEF ContextsInv
  <2> QED BY <2>3, <2>4
<1>15. TablePreserved(bc, b2)
  BY <1>6, <1>13, AcknowledgeFacts
<1>16. b2 \in TableState
  BY <1>15 DEF TablePreserved
<1> HIDE DEF b2
<1>17. TablePreserved(bc, b3)
  BY <1>3, <1>15, <1>16, FromNetworkFacts, TableTransitive
<1> HIDE DEF b3
<1>18. b3 \in TableState /\ ContextsInv(b3, r, next)
  <2>1. r \in RxState /\ RxInv(r, next)
    BY <1>4 DEF RxPreserved, RxInv
  <2>2. RxPreserved(r, r, next)
    BY <2>1, CoalescingFacts
  <2> QED BY <2>1, <2>2, <1>13, <1>14, <1>17, ContextsFacts
<1>19. /\ tx'[h] = t2 /\ rx'[h] = r /\ tab'[h] = b3
       /\ execs' \in [Host -> [Rsn -> Nat]] /\ dones' \in [Host -> [Rsn -> Nat]]
       /\ losses' \in Nat
  BY <1>2 DEF IInv, TypeOK
<1>20. /\ net' \in [Host -> SUBSET Message] /\ net'[h] \subseteq net[h]
       /\ net'[Peer(h)] = net[Peer(h)]
  BY <1>2, QuietFacts
<1>21. \A v \in Window : tx[h].next[v] <= t2.next[v]
  <2>1. \A v \in Window : tx[h].next[v] <= tx[h].next[v]
    BY <1>1, NextReflexive
  <2> QED BY <2>1, <1>8
<1>22. StepOf(h)
  BY <1>1, <1>2, <1>4, <1>8, <1>18, <1>19, <1>20, <1>21 DEF StepOf
<1> QED BY <1>22, HostStep

\* ReceiveAck.
LEMMA ReceiveAckStep ==
  ASSUME IInv, NEW h \in Host, NEW m \in net[h], ReceiveAck(h, m)
  PROVE  IInv'
<1> DEFINE t == HandleACK(tx[h], m.bpsn, m.own, m.eack, m.ack)
           b == Acknowledge(tab[h], tx[h], t)
           scanned == m.eack /\ ~StaleAck(tx[h], m.bpsn)
           R(w) == IF ~scanned THEN {{}}
                   ELSE EackRetransmissions(t, w, IF w = "data" THEN m.received ELSE m.ack[w],
                                            m.own[w])
<1>1. /\ TxInv(tx[h]) /\ "GetOutstandingPacketRSN" \notin tx[h].failed /\ tx[h] \in TxState
      /\ tab[h] \in TableState /\ m \in Message
      /\ MessageInv(m, tx[h].next, tx[Peer(h)].next)
  BY HostFacts
<1>2. /\ tab' = [tab EXCEPT ![h] = b] /\ net' = Reply(h, m, {})
      /\ UNCHANGED <<rx, execs, dones, losses>> /\ m.kind = "ack"
  BY DEF ReceiveAck
<1>3. PICK P \in R("request"), Q \in R("data") :
        tx' = [tx EXCEPT ![h] = InitiateRetransmission(
                                  InitiateRetransmission(t, "request", P), "data", Q)]
  BY DEF ReceiveAck
<1>4. /\ m.bpsn \in [Window -> Nat] /\ m.own \in [Window -> BOOLEAN] /\ m.eack \in BOOLEAN
      /\ m.ack \in [Window -> SUBSET Nat]
  BY <1>1, <1>2 DEF Message
<1>5. Preserved(tx[h], t)
  BY <1>1, <1>2, <1>4, HandleACKFacts DEF MessageInv
<1>6. TxInv(t) /\ t.next = tx[h].next /\ t.failed = tx[h].failed
  BY <1>5 DEF Preserved
<1> HIDE DEF t
<1>7. P \in SUBSET t.outstanding["request"] /\ Q \in SUBSET t.outstanding["data"]
  BY <1>3, ChosenOutstanding
<1> HIDE DEF R
<1> DEFINE i == InitiateRetransmission(t, "request", P)
           u == InitiateRetransmission(i, "data", Q)
<1>8. "request" \in Window /\ "data" \in Window /\ t \in TxState
  BY <1>6 DEF Window, TxInv
<1>9. Preserved(t, i) /\ i.outstanding = [t.outstanding EXCEPT !["request"] = @ \ P]
  BY <1>6, <1>7, <1>8, InitiateRetransmissionFacts
<1>10. i.outstanding["data"] = t.outstanding["data"]
  BY <1>8, <1>9 DEF TxState
<1>11. TxInv(i) /\ i.next = tx[h].next /\ i.failed = tx[h].failed
  BY <1>6, <1>9 DEF Preserved
<1> HIDE DEF i
<1>12. Preserved(i, u)
  BY <1>7, <1>8, <1>10, <1>11, InitiateRetransmissionFacts
<1>13. TxInv(u) /\ u.next = tx[h].next /\ u.failed = tx[h].failed
  BY <1>11, <1>12 DEF Preserved
<1>14. tx' = [tx EXCEPT ![h] = u]
  BY <1>3 DEF i
<1>15. TablePreserved(tab[h], b)
  BY <1>1, AcknowledgeFacts
<1> HIDE DEF u, b
<1>16. StepTo(h, u, rx[h], b, {})
  BY <1>1, <1>2, <1>13, <1>14, <1>15, SameFacts DEF StepTo
<1> QED BY <1>16, StepToFacts

\* ReceiveNack.
LEMMA ReceiveNackStep ==
  ASSUME IInv, NEW h \in Host, NEW m \in net[h], ReceiveNack(h, m)
  PROVE  IInv'
<1> DEFINE t == HandlePiggybackedACK(tx[h], m.bpsn, m.own)
           b == Acknowledge(tab[h], tx[h], t)
<1>1. /\ TxInv(tx[h]) /\ "GetOutstandingPacketRSN" \notin tx[h].failed /\ tx[h] \in TxState
      /\ tab[h] \in TableState /\ m \in Message
  BY HostFacts
<1>2. /\ tab' = [tab EXCEPT ![h] = b] /\ net' = Reply(h, m, {})
      /\ UNCHANGED <<rx, execs, dones, losses>> /\ m.kind = "nack"
  BY DEF ReceiveNack
<1>3. /\ m.bpsn \in [Window -> Nat] /\ m.own \in [Window -> BOOLEAN]
      /\ m.window \in Window /\ m.psn \in Nat
      /\ \A w \in Window : m.bpsn[w] <= tx[h].next[w]
  BY <1>1, <1>2, ArrivalFacts DEF Message
<1>4. Preserved(tx[h], t)
  BY <1>1, <1>3, HandlePiggybackedACKFacts
<1>5. TxInv(t) /\ t.next = tx[h].next /\ t.failed = tx[h].failed
  BY <1>4 DEF Preserved
<1>6. TablePreserved(tab[h], b)
  BY <1>1, AcknowledgeFacts
<1>7. ASSUME NEW u, tx' = [tx EXCEPT ![h] = u], TxInv(u), u.next = tx[h].next,
             "GetOutstandingPacketRSN" \notin u.failed
      PROVE  IInv'
  <2> HIDE DEF b
  <2>1. StepTo(h, u, rx[h], b, {})
    BY <1>2, <1>6, <1>7, SameFacts DEF StepTo
  <2> QED BY <2>1, StepToFacts
<1>8. \/ tx' = [tx EXCEPT ![h] = t]
      \/ tx' = [tx EXCEPT ![h] = HandleRnrNack(t, m.window, m.psn)]
      \/ \E P \in NackRetransmissions(t, m.window) :
           tx' = [tx EXCEPT ![h] = InitiateRetransmission(t, m.window, P)]
  BY DEF ReceiveNack
<1> HIDE DEF t, b
<1>9. CASE tx' = [tx EXCEPT ![h] = t]
  BY <1>1, <1>5, <1>7, <1>9
<1>10. CASE tx' = [tx EXCEPT ![h] = HandleRnrNack(t, m.window, m.psn)]
  <2> DEFINE u == HandleRnrNack(t, m.window, m.psn)
  <2>1. TxInv(u) /\ u.next = t.next /\ u.failed \subseteq t.failed \cup {"HandleRnrNack"}
    BY <1>3, <1>5, HandleRnrNackFacts
  <2>2. tx' = [tx EXCEPT ![h] = u]
    BY <1>10
  <2> HIDE DEF u
  <2>3. "GetOutstandingPacketRSN" \notin u.failed
    BY <1>1, <1>5, <2>1
  <2> QED BY <1>5, <1>7, <2>1, <2>2, <2>3
<1>11. CASE \E P \in NackRetransmissions(t, m.window) :
              tx' = [tx EXCEPT ![h] = InitiateRetransmission(t, m.window, P)]
  <2>1. PICK P \in NackRetransmissions(t, m.window) :
          tx' = [tx EXCEPT ![h] = InitiateRetransmission(t, m.window, P)]
    BY <1>11
  <2>2. P \in SUBSET t.outstanding[m.window]
    BY <2>1, ChosenOutstanding
  <2> DEFINE u == InitiateRetransmission(t, m.window, P)
  <2>3. Preserved(t, u)
    BY <1>3, <1>5, <2>2, InitiateRetransmissionFacts
  <2>4. TxInv(u) /\ u.next = tx[h].next /\ u.failed = tx[h].failed /\ tx' = [tx EXCEPT ![h] = u]
    BY <1>5, <2>1, <2>3 DEF Preserved
  <2> HIDE DEF u
  <2> QED BY <1>1, <1>7, <2>4
<1> QED BY <1>8, <1>9, <1>10, <1>11

\* Lose.
LEMMA LoseStep ==
  ASSUME IInv, NEW h \in Host, NEW m \in net[h], Lose(h, m)
  PROVE  IInv'
<1>1. UNCHANGED <<tx, rx, tab, execs, dones>> /\ losses' = losses + 1
      /\ net' = [net EXCEPT ![h] = @ \ {m}]
  BY DEF Lose
<1>2. /\ net' \in [Host -> SUBSET Message] /\ net'[h] \subseteq net[h]
      /\ net'[Peer(h)] \subseteq net[Peer(h)] /\ losses' \in Nat
  <2>1. net \in [Host -> SUBSET Message] /\ losses \in Nat
    BY TypeFacts
  <2>2. Peer(h) \in Host /\ Peer(h) # h
    BY PeerFacts
  <2>3. net[h] \ {m} \in SUBSET Message
    BY <2>1
  <2>4. net'[h] = net[h] \ {m} /\ net'[Peer(h)] = net[Peer(h)]
    BY <1>1, <2>1, <2>2
  <2>5. net' \in [Host -> SUBSET Message]
    BY <1>1, <2>1, <2>3
  <2>6. losses' \in Nat
    BY <1>1, <2>1
  <2> QED BY <2>4, <2>5, <2>6
<1>3. /\ TxInv(tx[h]) /\ "GetOutstandingPacketRSN" \notin tx[h].failed
      /\ tab[h] \in TableState /\ ContextsInv(tab[h], rx[h], tx[Peer(h)].next)
  BY HostFacts
<1>4. tx' = tx /\ rx' = rx /\ tab' = tab /\ execs' = execs /\ dones' = dones
  BY <1>1
<1>5. StepOf(h)
  BY <1>2, <1>3, <1>4, SameFacts DEF StepOf
<1> QED BY <1>5, HostStep

-----------------------------------------------------------------------------
(* The theorems.                                                             *)

\* The initial state satisfies the inductive invariant.
LEMMA InitIInv == Init => IInv
<1> SUFFICES ASSUME Init PROVE IInv
  OBVIOUS
<1>1. \A h \in Host : tx[h] = InitTx /\ rx[h] = InitRx /\ tab[h] = InitTable /\ net[h] = {}
  BY DEF Init
<1>2. TxInv(InitTx) /\ InitTx \in TxState /\ InitTx.next \in [Window -> Nat]
      /\ InitTx.failed = {}
  BY InitTxFacts DEF TxInv, InitTx
<1>3. RxInv(InitRx, InitTx.next) /\ InitRx \in RxState
  BY <1>2, InitRxFacts DEF RxInv
<1>4. InitTable \in TableState /\ \A k \in TransactionKey : InitTable.rxctx[k][1] \notin PacketType
  BY InitTableFacts
<1> HIDE DEF InitTx, InitRx, InitTable
<1>5. TypeOK
  BY <1>2, <1>3, <1>4 DEF Init, TypeOK
<1>6. ContextsInv(InitTable, InitRx, InitTx.next)
  BY <1>4 DEF ContextsInv
<1> QED BY <1>1, <1>2, <1>3, <1>5, <1>6, PeerFacts DEF IInv

\* Every step preserves it.
LEMMA NextIInv == IInv /\ [Next]_vars => IInv'
<1> SUFFICES ASSUME IInv, [Next]_vars PROVE IInv'
  OBVIOUS
<1>1. CASE UNCHANGED vars
  BY <1>1 DEF vars, IInv, TypeOK
<1>2. CASE Next
  BY <1>2, InitiateTransactionStep, InitiateResponseStep, DeliverToUlpStep, UlpAckStep,
     UlpRnrNackStep, RnrTimeoutStep, TransmitInitialStep, RetransmitStep,
     RetransmitTimeoutStep, SendAckStep, ReceiveDuplicateStep, ReceiveOutOfWindowStep,
     ReceiveNoResourcesStep, ReceiveNewStep, ReceiveAckStep, ReceiveNackStep, LoseStep
     DEF Next
<1> QED BY <1>1, <1>2

\* The inductive invariant holds in every reachable state.
THEOREM Inductive == Spec => []IInv
BY InitIInv, NextIInv, PTL DEF Spec

\* Type correctness of both ends and of everything in the network.
THEOREM TypeCorrect == Spec => []TypeOK
<1>1. IInv => TypeOK
  BY DEF IInv
<1> QED BY <1>1, Inductive, PTL

\* For every window size, number of transactions and configuration of the early
\* retransmissions, and for every loss, duplication and reordering of packets, ACKs,
\* EACKs and NACKs: the handlers that update outstanding_packets, the contexts, the
\* transmit window and the retransmission scheduler keep account of every packet.
THEOREM SenderLedgerHolds == Spec => []SenderLedger
<1>1. IInv => SenderLedger
  BY DEF IInv, SenderLedger, TxInv
<1> QED BY <1>1, Inductive, PTL

\* The CHECK_OK of EnqueueAckToUlp cannot fail: an implicit ACK, a base PSN or a
\* bitmap never acknowledges a PSN for which there is no outstanding packet context.
THEOREM AcksOutstandingPackets ==
  Spec => [](\A h \in Host : "GetOutstandingPacketRSN" \notin tx[h].failed)
<1>1. IInv => \A h \in Host : "GetOutstandingPacketRSN" \notin tx[h].failed
  BY DEF IInv
<1> QED BY <1>1, Inductive, PTL

=============================================================================
