------------------------- MODULE TransactionTable --------------------------
(***************************************************************************)
(* The transactions of one end of an unordered connection: their states    *)
(* (falcon_connection_state.cc), the received packet contexts, the queue   *)
(* of the connection scheduler, the reorder engine's buffer for requests   *)
(* that the ULP may RNR-NACK, and the queue of the inter-host scheduler    *)
(* towards the ULP (gen1/falcon_model.cc, gen1/buffer_reorder_engine.cc).  *)
(***************************************************************************)
EXTENDS FalconTypes

TransactionType == {"Pull", "PushSolicited", "PushUnsolicited"}
Stage == {"UlpRx", "UlpTx", "UlpAckRx", "UlpRnrRx", "UlpCompletionTx",
          "NtwkRx", "NtwkTx", "NtwkAckRx"}
TransactionKey == Rsn \X Location

\* A TransactionState is named by the packet and the stage that enter it.
NoTransaction == <<"none", "none">>
TransactionState == (PacketType \cup {"none"}) \X (Stage \cup {"none"})

\* ReceivedPacketContext; "unset" is one made for an outgoing packet.
NoContext == <<"none", 0>>
ReceivedContext == (PacketType \cup {"unset", "none"}) \X Nat

UlpItem == [type : PacketType \cup {"Ack"}, rsn : Rsn]

\* The CHECKs of the code that an event may fail.
TableCheck == {"UpdateState", "EnqueueAckToUlp", "HandleImplicitAck", "InsertPacket",
               "GetReceivedPacketContext"}

TableState ==
  [next_rsn : Nat,
   txn : [TransactionKey -> TransactionState],
   rxctx : [TransactionKey -> ReceivedContext],
   sched : SUBSET Packet,     \* packets queued in the connection scheduler
   buffer : SUBSET Packet,    \* target_rsn_buffer
   waiting : SUBSET Packet,   \* those of the buffer that wait for their retry time
   to_ulp : SUBSET UlpItem,   \* queued in the inter-host rx scheduler
   failed : SUBSET TableCheck]

InitTable ==
  [next_rsn |-> 0, txn |-> [k \in TransactionKey |-> NoTransaction],
   rxctx |-> [k \in TransactionKey |-> NoContext],
   sched |-> {}, buffer |-> {}, waiting |-> {}, to_ulp |-> {}, failed |-> {}]

\* The states that TransactionMetadata::UpdateState CHECKs for.
Predecessors(type, stage) ==
  CASE stage = "NtwkTx" /\ type = "PushGrant" -> {<<"PushRequest", "NtwkRx">>}
    [] stage = "NtwkTx" /\ type = "PushSolicitedData" -> {<<"PushGrant", "NtwkRx">>}
    [] stage = "NtwkTx" /\ type \notin {"PushGrant", "PushSolicitedData"} -> {<<type, "UlpRx">>}
    [] stage = "NtwkRx" /\ type \in DOMAIN Answers -> {<<Answers[type], "NtwkTx">>}
    [] stage = "NtwkAckRx" -> {<<type, "NtwkTx">>}
    [] stage = "UlpRx" -> {<<"PullRequest", "UlpAckRx">>}
    [] stage = "UlpTx" /\ type = "PullData" -> {<<type, "NtwkRx">>}
    [] stage = "UlpTx" /\ type # "PullData" -> {<<type, "NtwkRx">>, <<type, "UlpRnrRx">>}
    [] stage = "UlpAckRx" -> {<<type, "UlpTx">>}
    [] stage = "UlpRnrRx" -> {<<type, "UlpTx">>, <<type, "NtwkRx">>}
    [] stage = "UlpCompletionTx" -> {<<type, "NtwkAckRx">>}

\* The stages that begin a transaction, which have no CHECK.
BeginsTransaction(type, stage) ==
  \/ stage = "UlpRx" /\ type # "PullData"
  \/ stage = "NtwkRx" /\ type \notin DOMAIN Answers

UpdateState(b, key, type, stage) ==
  [b EXCEPT !.txn[key] = <<type, stage>>,
            !.failed = @ \cup IF \/ BeginsTransaction(type, stage)
                                 \/ b.txn[key] \in Predecessors(type, stage)
                              THEN {} ELSE {"UpdateState"}]

Erase(b, key) == [b EXCEPT !.txn[key] = NoTransaction, !.rxctx[key] = NoContext]

-----------------------------------------------------------------------------
(* Requests and responses from the ULP.                                      *)

FirstPacket(type) ==
  CASE type = "Pull" -> "PullRequest"
    [] type = "PushSolicited" -> "PushRequest"
    [] type = "PushUnsolicited" -> "PushUnsolicitedData"

\* CreateOrUpdateTransactionFromUlp and EnqueuePacket of the connection scheduler.
CreateTransactionFromUlp(b, type) ==
  LET p == Pkt(FirstPacket(type), b.next_rsn) IN
  [UpdateState(b, OutKey(p), p.type, "UlpRx")
     EXCEPT !.next_rsn = @ + 1, !.sched = @ \cup {p}]

UpdateTransactionFromUlp(b, r) ==
  LET p == Pkt("PullData", r) IN
  [UpdateState(b, OutKey(p), p.type, "UlpRx") EXCEPT !.sched = @ \cup {p}]

\* Mutant: the target forgets a pull when it has sent the data.
ForgetPullWhenSent(b, p) ==
  LET b1 == [UpdateState(b, OutKey(p), p.type, "NtwkTx") EXCEPT !.sched = @ \ {p}] IN
  IF p.type = "PullData" THEN Erase(b1, OutKey(p)) ELSE b1

\* The part of TransmitPacket that is about the transaction.
TransmitFromTransaction(b, p) ==
  [UpdateState(b, OutKey(p), p.type, "NtwkTx")
     EXCEPT !.sched = @ \ {p},
            !.rxctx[OutKey(p)] = IF @ = NoContext THEN <<"unset", 0>> ELSE @]

-----------------------------------------------------------------------------
(* Packets and acknowledgements from the network.                            *)

\* The part of EnqueueAckToUlp that is about transactions, for the packets A.
AckTransactions(b, A) ==
  LET data == {p \in A : p.type \in PushDataTypes}
      pulled == {OutKey(p) : p \in {q \in A : q.type = "PullData"}}
      pushed == {OutKey(p) : p \in data}
      legal == /\ \A p \in A : b.txn[OutKey(p)] # NoTransaction
               /\ \A p \in A : p.type \in PushDataTypes \cup {"PullData"} =>
                                 b.txn[OutKey(p)] = <<p.type, "NtwkTx">>
  IN  [b EXCEPT !.txn = [k \in TransactionKey |->
                           IF k \in pulled THEN NoTransaction
                           ELSE IF k \in pushed THEN <<b.txn[k][1], "NtwkAckRx">>
                           ELSE b.txn[k]],
                !.rxctx = [k \in TransactionKey |->
                             IF k \in pulled THEN NoContext ELSE b.rxctx[k]],
                !.to_ulp = @ \cup {Pkt("Ack", p.rsn) : p \in data},
                !.failed = @ \cup IF legal THEN {} ELSE {"EnqueueAckToUlp"}]

\* HandleImplicitAck looks up the transaction of the packet it acknowledges.
CheckImplicitAck(b, p) ==
  [b EXCEPT !.failed = @ \cup IF p.type \in DOMAIN Answers /\ b.txn[InKey(p)] = NoTransaction
                              THEN {"HandleImplicitAck"} ELSE {}]

CreateReceivedContext(b, p, psn) == [b EXCEPT !.rxctx[InKey(p)] = <<p.type, psn>>]

\* InsertPacket of an unordered connection, and ReorderCallback.
InsertPacket(b, p) ==
  CASE p.type = "PushRequest" -> [b EXCEPT !.sched = @ \cup {Pkt("PushGrant", p.rsn)}]
    [] p.type = "PushGrant" -> [b EXCEPT !.sched = @ \cup {Pkt("PushSolicitedData", p.rsn)}]
    [] p.type = "PullData" -> [b EXCEPT !.to_ulp = @ \cup {p}]
    [] p.type \in {"PullRequest"} \cup PushDataTypes ->
         [b EXCEPT !.buffer = @ \cup {p}, !.to_ulp = @ \cup {p},
                   !.failed = @ \cup IF \E q \in b.buffer : q.rsn = p.rsn
                                     THEN {"InsertPacket"} ELSE {}]

\* CreateOrUpdateTransactionFromNetwork, then the reorder engine.
CreateOrUpdateTransactionFromNetwork(b, p) ==
  InsertPacket(UpdateState(b, InKey(p), p.type, "NtwkRx"), p)

\* Mutant: a duplicate is given to the ULP whether or not it waits for a retry.
RetryAlways(b, p) == [b EXCEPT !.waiting = @ \ {p}, !.to_ulp = @ \cup {p}]

\* SendToUlpTarget of an RNR-NACKed request: HandleRnrTimeout when its retry time
\* has come, RetryRnrNackedPacket when a duplicate arrives.
RetryRnrNackedPacket(b, p) ==
  IF p \in b.waiting THEN [b EXCEPT !.waiting = @ \ {p}, !.to_ulp = @ \cup {p}] ELSE b

-----------------------------------------------------------------------------
(* Between Falcon and the ULP.                                               *)

\* GetReceivedPacketContext, whose errors end in a CHECK.
CheckReceivedContext(b, key) ==
  [b EXCEPT !.failed = @ \cup IF b.rxctx[key] = NoContext
                              THEN {"GetReceivedPacketContext"} ELSE {}]

\* The callbacks that ReorderCallback gives to the inter-host rx scheduler.
SendToUlp(b, p) ==
  LET b1 == [b EXCEPT !.to_ulp = @ \ {p}]
      initiator == <<p.rsn, "initiator">>
  IN  CASE p.type = "Ack" ->
             Erase(UpdateState(CheckReceivedContext(b1, initiator), initiator,
                               b.txn[initiator][1], "UlpCompletionTx"),
                   initiator)
        [] p.type = "PullData" ->
             Erase(UpdateState(b1, initiator, p.type, "UlpTx"), initiator)
        [] p.type \notin {"Ack", "PullData"} -> UpdateState(b1, InKey(p), p.type, "UlpTx")

\* HandleAckFromUlp and HandleNackFromUlp read the type and the PSN of the received
\* packet context; a context made for an outgoing packet has an uninitialized type.
CheckReceivedPacket(b, key) ==
  [b EXCEPT !.failed = @ \cup IF b.rxctx[key][1] \in PacketType THEN {}
                              ELSE {"GetReceivedPacketContext"}]

\* Mutant: the ULP's ACK of a pull leaves the request with the ULP.
LeavePullAtUlp(b, p) ==
  IF b.rxctx[InKey(p)][1] = "PullRequest" THEN b
  ELSE Erase([UpdateState(b, InKey(p), p.type, "UlpAckRx") EXCEPT !.buffer = @ \ {p}], InKey(p))

\* AckTransaction with kAck: push transactions end here at the target.
AckFromUlp(b, p) ==
  LET b1 == CheckReceivedPacket(UpdateState(b, InKey(p), p.type, "UlpAckRx"), InKey(p))
      b2 == [b1 EXCEPT !.buffer = @ \ {p}]
  IN  IF b.rxctx[InKey(p)][1] = "PullRequest" THEN b2 ELSE Erase(b2, InKey(p))

\* Mutant: the transaction of an RNR-NACKed request stays with the ULP.
RnrNackWithoutState(b, p) == [CheckReceivedPacket(b, InKey(p)) EXCEPT !.waiting = @ \cup {p}]

\* AckTransaction with kRnrNak: HandleRnrNackFromUlp schedules the retry.
RnrNackFromUlp(b, p) ==
  [UpdateState(CheckReceivedPacket(b, InKey(p)), InKey(p), p.type, "UlpRnrRx")
     EXCEPT !.waiting = @ \cup {p}]

=============================================================================
