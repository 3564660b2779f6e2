----------------------- MODULE TransactionTableProofs -----------------------
(* What the operations on the transactions of a host preserve.               *)
EXTENDS TransactionTable, TLAPS

\* b2 is a table that has no received packet context that b does not have.
TablePreserved(b, b2) ==
  /\ b2 \in TableState
  /\ \A k \in TransactionKey : b2.rxctx[k] = b.rxctx[k] \/ b2.rxctx[k][1] \notin PacketType

\* Two operations, one after the other.
LEMMA TableTransitive ==
  ASSUME NEW b, NEW b1, NEW b2, TablePreserved(b, b1), TablePreserved(b1, b2)
  PROVE  TablePreserved(b, b2)
BY DEF TablePreserved

\* A table of the right type with the same contexts.
LEMMA SameContexts ==
  ASSUME NEW b, NEW b2 \in TableState, b2.rxctx = b.rxctx
  PROVE  TablePreserved(b, b2)
BY DEF TablePreserved

\* The transaction of a packet, on its way out and on its way in.
LEMMA KeyType ==
  ASSUME NEW p \in Packet
  PROVE  OutKey(p) \in TransactionKey /\ InKey(p) \in TransactionKey
<1>1. p.rsn \in Rsn
  BY DEF Packet
<1>2. \A i \in BOOLEAN : GetTransactionLocation(p.type, i) \in Location
  BY DEF GetTransactionLocation, Location
<1> QED BY <1>1, <1>2 DEF OutKey, InKey, TransactionKey

\* A packet of a transaction.
LEMMA PktType ==
  ASSUME NEW type, NEW r \in Rsn
  PROVE  /\ type \in PacketType => Pkt(type, r) \in Packet
         /\ Pkt(type, r).type = type /\ Pkt(type, r).rsn = r
BY DEF Pkt, Packet

\* UpdateState changes the state of one transaction.
LEMMA UpdateStateFacts ==
  ASSUME NEW b \in TableState, NEW k \in TransactionKey,
         NEW type \in PacketType \cup {"none"}, NEW stage \in Stage
  PROVE  LET u == UpdateState(b, k, type, stage) IN
         /\ TablePreserved(b, u)
         /\ u.next_rsn = b.next_rsn
<1> DEFINE f == IF \/ BeginsTransaction(type, stage)
                   \/ b.txn[k] \in Predecessors(type, stage)
                THEN {} ELSE {"UpdateState"}
           s == <<type, stage>>
           u == UpdateState(b, k, type, stage)
<1>1. f \in SUBSET TableCheck
  BY DEF TableCheck
<1>2. s \in TransactionState
  BY DEF TransactionState
<1>3. u = [b EXCEPT !.txn[k] = s, !.failed = @ \cup f]
  BY DEF UpdateState
<1> HIDE DEF f, s, u
<1>4. u \in TableState /\ u.rxctx = b.rxctx /\ u.next_rsn = b.next_rsn
  BY <1>1, <1>2, <1>3 DEF TableState
<1> QED BY <1>4, SameContexts DEF u

\* The types of the two values that mean "absent".
LEMMA AbsentType ==
  /\ NoTransaction \in TransactionState
  /\ NoContext \in ReceivedContext /\ NoContext[1] \notin PacketType
  /\ <<"unset", 0>> \in ReceivedContext /\ <<"unset", 0>>[1] \notin PacketType
BY DEF NoTransaction, TransactionState, NoContext, ReceivedContext, PacketType,
       RequestTypes, PushDataTypes

\* Erase ends a transaction and its context.
LEMMA EraseFacts ==
  ASSUME NEW b \in TableState, NEW k \in TransactionKey
  PROVE  TablePreserved(b, Erase(b, k))
<1> DEFINE u == Erase(b, k)
<1>1. u = [b EXCEPT !.txn[k] = NoTransaction, !.rxctx[k] = NoContext]
  BY DEF Erase
<1> HIDE DEF u
<1>2. u \in TableState
  BY <1>1, AbsentType DEF TableState
<1>3. u.rxctx = [b.rxctx EXCEPT ![k] = NoContext]
  BY <1>1 DEF TableState
<1>4. \A j \in TransactionKey : u.rxctx[j] = b.rxctx[j] \/ u.rxctx[j] = NoContext
  BY <1>3 DEF TableState
<1> QED BY <1>2, <1>4, AbsentType DEF TablePreserved, u

\* The CHECKs of the received packet context.
LEMMA CheckFacts ==
  ASSUME NEW b \in TableState, NEW k, NEW p
  PROVE  /\ TablePreserved(b, CheckReceivedContext(b, k))
         /\ TablePreserved(b, CheckReceivedPacket(b, k))
         /\ TablePreserved(b, CheckImplicitAck(b, p))
<1>1. ASSUME NEW f \in SUBSET TableCheck
      PROVE  TablePreserved(b, [b EXCEPT !.failed = @ \cup f])
  <2> DEFINE u == [b EXCEPT !.failed = @ \cup f]
  <2>1. u \in TableState /\ u.rxctx = b.rxctx
    BY DEF TableState
  <2> HIDE DEF u
  <2>2. TablePreserved(b, u)
    BY <2>1, SameContexts
  <2> QED BY <2>2 DEF u
<1>2. {} \in SUBSET TableCheck /\ {"GetReceivedPacketContext"} \in SUBSET TableCheck
      /\ {"HandleImplicitAck"} \in SUBSET TableCheck
  BY DEF TableCheck
<1>3. TablePreserved(b, CheckReceivedContext(b, k))
  BY <1>1, <1>2 DEF CheckReceivedContext
<1>4. TablePreserved(b, CheckReceivedPacket(b, k))
  BY <1>1, <1>2 DEF CheckReceivedPacket
<1>5. TablePreserved(b, CheckImplicitAck(b, p))
  BY <1>1, <1>2 DEF CheckImplicitAck
<1> QED BY <1>3, <1>4, <1>5

\* A change of the queues.
LEMMA QueueFacts ==
  ASSUME NEW b, NEW b1, TablePreserved(b, b1), NEW b2 \in TableState, b2.rxctx = b1.rxctx
  PROVE  TablePreserved(b, b2)
BY SameContexts, TableTransitive

\* The operations that the ULP asks for.
LEMMA FromUlpFacts ==
  ASSUME NEW b \in TableState
  PROVE  /\ \A type \in TransactionType :
              b.next_rsn \in Rsn => TablePreserved(b, CreateTransactionFromUlp(b, type))
         /\ \A r \in Rsn : TablePreserved(b, UpdateTransactionFromUlp(b, r))
<1>1. ASSUME NEW type \in TransactionType, b.next_rsn \in Rsn
      PROVE  TablePreserved(b, CreateTransactionFromUlp(b, type))
  <2> DEFINE p == Pkt(FirstPacket(type), b.next_rsn)
             b1 == UpdateState(b, OutKey(p), p.type, "UlpRx")
             b2 == CreateTransactionFromUlp(b, type)
  <2>1. FirstPacket(type) \in PacketType
    BY DEF FirstPacket, TransactionType, PacketType, RequestTypes, PushDataTypes
  <2>2. p \in Packet /\ p.type \in PacketType
    BY <2>1, <1>1, PktType
  <2>3. b2 = [b1 EXCEPT !.next_rsn = @ + 1, !.sched = @ \cup {p}]
    BY DEF CreateTransactionFromUlp
  <2> HIDE DEF p
  <2>4. TablePreserved(b, b1)
    BY <2>2, KeyType, UpdateStateFacts DEF Stage
  <2> HIDE DEF b1, b2
  <2>5. b2 \in TableState /\ b2.rxctx = b1.rxctx
    <3> DEFINE next == b1.next_rsn + 1
    <3>1. b1 \in TableState
      BY <2>4 DEF TablePreserved
    <3>2. next \in Nat
      BY <3>1 DEF TableState
    <3>3. b2 = [b1 EXCEPT !.next_rsn = next, !.sched = @ \cup {p}]
      BY <2>3
    <3> HIDE DEF next
    <3> QED BY <3>1, <3>2, <3>3, <2>2 DEF TableState
  <2> QED BY <2>4, <2>5, QueueFacts DEF b2
<1>2. ASSUME NEW r \in Rsn
      PROVE  TablePreserved(b, UpdateTransactionFromUlp(b, r))
  <2> DEFINE p == Pkt("PullData", r)
             b1 == UpdateState(b, OutKey(p), p.type, "UlpRx")
             b2 == UpdateTransactionFromUlp(b, r)
  <2>1. "PullData" \in PacketType
    BY DEF PacketType
  <2>2. p \in Packet /\ p.type \in PacketType
    BY <2>1, PktType
  <2>3. b2 = [b1 EXCEPT !.sched = @ \cup {p}]
    BY DEF UpdateTransactionFromUlp
  <2> HIDE DEF p
  <2>4. TablePreserved(b, b1)
    BY <2>2, KeyType, UpdateStateFacts DEF Stage
  <2> HIDE DEF b1, b2
  <2>5. b2 \in TableState /\ b2.rxctx = b1.rxctx
    BY <2>2, <2>3, <2>4 DEF TablePreserved, TableState
  <2> QED BY <2>4, <2>5, QueueFacts DEF b2
<1> QED BY <1>1, <1>2

\* The transmission of a packet of a transaction.
LEMMA TransmitFacts ==
  ASSUME NEW b \in TableState, NEW p \in Packet
  PROVE  TablePreserved(b, TransmitFromTransaction(b, p))
<1> DEFINE k == OutKey(p)
           b1 == UpdateState(b, k, p.type, "NtwkTx")
           ctx == IF b1.rxctx[k] = NoContext THEN <<"unset", 0>> ELSE b1.rxctx[k]
           b2 == TransmitFromTransaction(b, p)
<1>1. k \in TransactionKey /\ p.type \in PacketType
  BY KeyType DEF Packet
<1>2. TablePreserved(b, b1)
  BY <1>1, UpdateStateFacts DEF Stage
<1>3. b1 \in TableState
  BY <1>2 DEF TablePreserved
<1>4. b2 = [b1 EXCEPT !.sched = @ \ {p}, !.rxctx[k] = ctx]
  BY <1>1, <1>3 DEF TransmitFromTransaction, TableState
<1> HIDE DEF k, b1, b2
<1>5. ctx \in ReceivedContext /\ (ctx = b1.rxctx[k] \/ ctx[1] \notin PacketType)
  BY <1>1, <1>3, AbsentType DEF TableState
<1> HIDE DEF ctx
<1>6. b2 \in TableState /\ b2.rxctx = [b1.rxctx EXCEPT ![k] = ctx]
  BY <1>3, <1>4, <1>5 DEF TableState
<1>7. TablePreserved(b1, b2)
  BY <1>3, <1>5, <1>6 DEF TablePreserved, TableState
<1> QED BY <1>2, <1>7, TableTransitive DEF b2

\* The acknowledgement of packets.
LEMMA AckTransactionsFacts ==
  ASSUME NEW b \in TableState, NEW A \in SUBSET Packet
  PROVE  TablePreserved(b, AckTransactions(b, A))
<1> DEFINE data == {p \in A : p.type \in PushDataTypes}
           pulled == {OutKey(p) : p \in {q \in A : q.type = "PullData"}}
           pushed == {OutKey(p) : p \in data}
           legal == /\ \A p \in A : b.txn[OutKey(p)] # NoTransaction
                    /\ \A p \in A : p.type \in PushDataTypes \cup {"PullData"} =>
                                      b.txn[OutKey(p)] = <<p.type, "NtwkTx">>
           txn == [k \in TransactionKey |->
                     IF k \in pulled THEN NoTransaction
                     ELSE IF k \in pushed THEN <<b.txn[k][1], "NtwkAckRx">> ELSE b.txn[k]]
           rxctx == [k \in TransactionKey |-> IF k \in pulled THEN NoContext ELSE b.rxctx[k]]
           items == {Pkt("Ack", p.rsn) : p \in data}
           f == IF legal THEN {} ELSE {"EnqueueAckToUlp"}
           u == AckTransactions(b, A)
<1>1. f \in SUBSET TableCheck
  BY DEF TableCheck
<1>2. txn \in [TransactionKey -> TransactionState]
  <2>1. \A k \in TransactionKey : b.txn[k] \in TransactionState
                                  /\ <<b.txn[k][1], "NtwkAckRx">> \in TransactionState
    BY DEF TableState, TransactionState, Stage
  <2> HIDE DEF pulled, pushed
  <2> QED BY <2>1, AbsentType
<1>3. rxctx \in [TransactionKey -> ReceivedContext]
  <2> HIDE DEF pulled
  <2> QED BY AbsentType DEF TableState
<1>4. items \in SUBSET UlpItem
  BY DEF Packet, Pkt, UlpItem
<1>5. u = [b EXCEPT !.txn = txn, !.rxctx = rxctx, !.to_ulp = @ \cup items, !.failed = @ \cup f]
  BY DEF AckTransactions
<1>6. \A k \in TransactionKey : rxctx[k] = b.rxctx[k] \/ rxctx[k][1] \notin PacketType
  <2> HIDE DEF pulled
  <2> QED BY AbsentType
<1> HIDE DEF f, txn, rxctx, items, u
<1>7. u \in TableState /\ u.rxctx = rxctx
  BY <1>1, <1>2, <1>3, <1>4, <1>5 DEF TableState
<1> QED BY <1>6, <1>7 DEF TablePreserved, u

\* The context that an accepted packet leaves.
LEMMA CreateReceivedContextFacts ==
  ASSUME NEW b \in TableState, NEW p \in Packet, NEW psn \in Nat
  PROVE  LET u == CreateReceivedContext(b, p, psn) IN
         /\ u \in TableState
         /\ u.rxctx = [b.rxctx EXCEPT ![InKey(p)] = <<p.type, psn>>]
<1> DEFINE ctx == <<p.type, psn>>
<1>1. InKey(p) \in TransactionKey /\ ctx \in ReceivedContext
  BY KeyType DEF Packet, ReceivedContext
<1> HIDE DEF ctx
<1>2. CreateReceivedContext(b, p, psn) = [b EXCEPT !.rxctx[InKey(p)] = ctx]
  BY DEF CreateReceivedContext, ctx
<1> QED BY <1>1, <1>2 DEF TableState, ctx

\* A packet that the reorder engine passes on to a queue of the host.
LEMMA InsertPacketFacts ==
  ASSUME NEW b \in TableState, NEW p \in Packet
  PROVE  TablePreserved(b, InsertPacket(b, p))
<1> DEFINE u == InsertPacket(b, p)
<1>1. p.type \in PacketType /\ p.rsn \in Rsn
  BY DEF Packet
<1>2. ASSUME NEW q \in Packet
      PROVE  LET v == [b EXCEPT !.sched = @ \cup {q}] IN v \in TableState /\ v.rxctx = b.rxctx
  BY DEF TableState
<1>3. CASE p.type = "PushRequest"
  <2>1. u = [b EXCEPT !.sched = @ \cup {Pkt("PushGrant", p.rsn)}]
    BY <1>3 DEF InsertPacket, PushDataTypes
  <2>2. Pkt("PushGrant", p.rsn) \in Packet
    BY <1>1, PktType DEF PacketType
  <2> HIDE DEF u
  <2>3. u \in TableState /\ u.rxctx = b.rxctx
    BY <1>2, <2>1, <2>2
  <2> QED BY <2>3, SameContexts DEF u
<1>4. CASE p.type = "PushGrant"
  <2>1. u = [b EXCEPT !.sched = @ \cup {Pkt("PushSolicitedData", p.rsn)}]
    BY <1>4 DEF InsertPacket, PushDataTypes
  <2>2. Pkt("PushSolicitedData", p.rsn) \in Packet
    BY <1>1, PktType DEF PacketType, PushDataTypes
  <2> HIDE DEF u
  <2>3. u \in TableState /\ u.rxctx = b.rxctx
    BY <1>2, <2>1, <2>2
  <2> QED BY <2>3, SameContexts DEF u
<1>5. p \in UlpItem
  BY DEF Packet, UlpItem
<1>6. CASE p.type = "PullData"
  <2>1. u = [b EXCEPT !.to_ulp = @ \cup {p}]
    BY <1>6 DEF InsertPacket, PushDataTypes
  <2> HIDE DEF u
  <2>2. u \in TableState /\ u.rxctx = b.rxctx
    BY <2>1, <1>5 DEF TableState
  <2> QED BY <2>2, SameContexts DEF u
<1>7. CASE p.type \in {"PullRequest"} \cup PushDataTypes
  <2> DEFINE f == IF \E q \in b.buffer : q.rsn = p.rsn THEN {"InsertPacket"} ELSE {}
  <2>1. f \in SUBSET TableCheck
    BY DEF TableCheck
  <2>2. u = [b EXCEPT !.buffer = @ \cup {p}, !.to_ulp = @ \cup {p}, !.failed = @ \cup f]
    BY <1>7 DEF InsertPacket, PushDataTypes
  <2> HIDE DEF u, f
  <2>3. u \in TableState /\ u.rxctx = b.rxctx
    BY <2>1, <2>2, <1>5 DEF TableState
  <2> QED BY <2>3, SameContexts DEF u
<1> QED BY <1>1, <1>3, <1>4, <1>6, <1>7 DEF PacketType, RequestTypes

\* A packet from the network creates or updates its transaction.
LEMMA FromNetworkFacts ==
  ASSUME NEW b \in TableState, NEW p \in Packet
  PROVE  TablePreserved(b, CreateOrUpdateTransactionFromNetwork(b, p))
<1> DEFINE b1 == UpdateState(b, InKey(p), p.type, "NtwkRx")
<1>1. TablePreserved(b, b1)
  BY KeyType, UpdateStateFacts DEF Stage, Packet
<1>2. TablePreserved(b1, InsertPacket(b1, p))
  BY <1>1, InsertPacketFacts DEF TablePreserved
<1> QED BY <1>1, <1>2, TableTransitive DEF CreateOrUpdateTransactionFromNetwork

\* A retry of an RNR-NACKed request.
LEMMA RetryFacts ==
  ASSUME NEW b \in TableState, NEW p \in Packet
  PROVE  TablePreserved(b, RetryRnrNackedPacket(b, p))
<1> DEFINE u == RetryRnrNackedPacket(b, p)
<1>1. p \in UlpItem
  BY DEF Packet, UlpItem
<1>2. CASE p \in b.waiting
  <2>1. u = [b EXCEPT !.waiting = @ \ {p}, !.to_ulp = @ \cup {p}]
    BY <1>2 DEF RetryRnrNackedPacket
  <2> HIDE DEF u
  <2>2. u \in TableState /\ u.rxctx = b.rxctx
    BY <2>1, <1>1 DEF TableState
  <2> QED BY <2>2, SameContexts DEF u
<1>3. CASE p \notin b.waiting
  BY <1>3, SameContexts DEF RetryRnrNackedPacket
<1> QED BY <1>2, <1>3

\* A completion or a request on its way to the ULP.
LEMMA SendToUlpFacts ==
  ASSUME NEW b \in TableState, NEW p \in UlpItem
  PROVE  TablePreserved(b, SendToUlp(b, p))
<1> DEFINE b1 == [b EXCEPT !.to_ulp = @ \ {p}]
           k == <<p.rsn, "initiator">>
<1>1. b1 \in TableState /\ b1.rxctx = b.rxctx
  BY DEF TableState
<1>2. TablePreserved(b, b1)
  BY <1>1, SameContexts
<1>3. k \in TransactionKey /\ p.rsn \in Rsn
  BY DEF UlpItem, TransactionKey, Location
<1>4. CASE p.type = "Ack"
  <2> DEFINE b2 == CheckReceivedContext(b1, k)
             b3 == UpdateState(b2, k, b.txn[k][1], "UlpCompletionTx")
  <2>1. SendToUlp(b, p) = Erase(b3, k)
    BY <1>4 DEF SendToUlp
  <2>2. b.txn[k][1] \in PacketType \cup {"none"}
    BY <1>3 DEF TableState, TransactionState
  <2> HIDE DEF b1, k
  <2>3. TablePreserved(b1, b2)
    BY <1>1, CheckFacts
  <2>4. b2 \in TableState
    BY <2>3 DEF TablePreserved
  <2> HIDE DEF b2
  <2>5. TablePreserved(b2, b3)
    BY <2>2, <2>4, <1>3, UpdateStateFacts DEF Stage
  <2>6. b3 \in TableState
    BY <2>5 DEF TablePreserved
  <2> HIDE DEF b3
  <2>7. TablePreserved(b3, Erase(b3, k))
    BY <2>6, <1>3, EraseFacts
  <2> QED BY <2>1, <1>2, <2>3, <2>5, <2>7, TableTransitive
<1>5. CASE p.type = "PullData"
  <2> DEFINE b3 == UpdateState(b1, k, p.type, "UlpTx")
  <2>1. SendToUlp(b, p) = Erase(b3, k)
    BY <1>5 DEF SendToUlp
  <2> HIDE DEF b1, k
  <2>2. TablePreserved(b1, b3)
    BY <1>1, <1>3, <1>5, UpdateStateFacts DEF Stage, PacketType
  <2>3. b3 \in TableState
    BY <2>2 DEF TablePreserved
  <2> HIDE DEF b3
  <2>4. TablePreserved(b3, Erase(b3, k))
    BY <2>3, <1>3, EraseFacts
  <2> QED BY <2>1, <1>2, <2>2, <2>4, TableTransitive
<1>6. CASE p.type \notin {"Ack", "PullData"}
  <2> DEFINE b3 == UpdateState(b1, InKey(p), p.type, "UlpTx")
  <2>1. SendToUlp(b, p) = b3
    BY <1>6 DEF SendToUlp
  <2>2. p \in Packet
    BY <1>6 DEF UlpItem, Packet
  <2> HIDE DEF b1
  <2>3. TablePreserved(b1, b3)
    BY <2>2, <1>1, KeyType, UpdateStateFacts DEF Stage, Packet
  <2> QED BY <2>1, <1>2, <2>3, TableTransitive
<1> QED BY <1>4, <1>5, <1>6

\* The answers of the ULP to a request.
LEMMA UlpAnswerFacts ==
  ASSUME NEW b \in TableState, NEW p \in Packet
  PROVE  TablePreserved(b, AckFromUlp(b, p)) /\ TablePreserved(b, RnrNackFromUlp(b, p))
<1> DEFINE k == InKey(p)
<1>1. k \in TransactionKey /\ p.type \in PacketType
  BY KeyType DEF Packet
<1>2. TablePreserved(b, AckFromUlp(b, p))
  <2> DEFINE b0 == UpdateState(b, k, p.type, "UlpAckRx")
             b1 == CheckReceivedPacket(b0, k)
             b2 == [b1 EXCEPT !.buffer = @ \ {p}]
  <2>1. AckFromUlp(b, p) = b2 \/ AckFromUlp(b, p) = Erase(b2, k)
    BY DEF AckFromUlp
  <2> HIDE DEF k
  <2>2. TablePreserved(b, b0)
    BY <1>1, UpdateStateFacts DEF Stage
  <2>3. b0 \in TableState
    BY <2>2 DEF TablePreserved
  <2> HIDE DEF b0
  <2>4. TablePreserved(b0, b1)
    BY <2>3, CheckFacts
  <2>5. b1 \in TableState
    BY <2>4 DEF TablePreserved
  <2> HIDE DEF b1
  <2>6. b2 \in TableState /\ b2.rxctx = b1.rxctx
    BY <2>5 DEF TableState
  <2> HIDE DEF b2
  <2>7. TablePreserved(b, b2)
    BY <2>2, <2>4, <2>6, TableTransitive, QueueFacts
  <2>8. TablePreserved(b2, Erase(b2, k))
    BY <2>6, <1>1, EraseFacts
  <2> QED BY <2>1, <2>7, <2>8, TableTransitive
<1>3. TablePreserved(b, RnrNackFromUlp(b, p))
  <2> DEFINE b0 == CheckReceivedPacket(b, k)
             b1 == UpdateState(b0, k, p.type, "UlpRnrRx")
             b2 == RnrNackFromUlp(b, p)
  <2>1. b2 = [b1 EXCEPT !.waiting = @ \cup {p}]
    BY DEF RnrNackFromUlp
  <2> HIDE DEF k
  <2>2. TablePreserved(b, b0)
    BY CheckFacts
  <2>3. b0 \in TableState
    BY <2>2 DEF TablePreserved
  <2> HIDE DEF b0
  <2>4. TablePreserved(b0, b1)
    BY <2>3, <1>1, UpdateStateFacts DEF Stage
  <2>5. b1 \in TableState
    BY <2>4 DEF TablePreserved
  <2> HIDE DEF b1, b2
  <2>6. b2 \in TableState /\ b2.rxctx = b1.rxctx
    BY <2>1, <2>5 DEF TableState
  <2>7. TablePreserved(b, b2)
    BY <2>2, <2>4, <2>6, TableTransitive, QueueFacts
  <2> QED BY <2>7 DEF b2
<1> QED BY <1>2, <1>3

\* The initial table has no contexts.
LEMMA InitTableFacts ==
  /\ InitTable \in TableState
  /\ \A k \in TransactionKey : InitTable.rxctx[k][1] \notin PacketType
BY AbsentType DEF InitTable, TableState

=============================================================================
