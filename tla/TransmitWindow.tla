-------------------------- MODULE TransmitWindow ---------------------------
(***************************************************************************)
(* The transmitter side of gen1/packet_reliability_manager.cc: the request *)
(* and the data window of one end of a connection, the outstanding         *)
(* packets, the retransmission queue and the outstanding-request counters. *)
(*                                                                         *)
(* The state is a record t and a handler of the code is an operator from   *)
(* records to records, so a handler that calls another is a composition.   *)
(* A window bitmap is a set of PSNs; the bitmaps of an EACK are sets of    *)
(* indices relative to the base PSN of the EACK, as on the wire.           *)
(***************************************************************************)
EXTENDS FalconTypes, FiniteSetsExt

CONSTANTS
  Fcwnd,                \* rounded fabric congestion window
  Ncwnd,                \* NIC congestion window
  CounterMod,           \* 2^32: ORC and ORRC are uint32_t
  EarlyRetransmitLimit, \* early_retransmit_limit
  OooCount,             \* enable_ooo_count_ and ooo_count_threshold_
  OooDistance,          \* enable_ooo_distance_ and ooo_distance_threshold_
  EackOwn,              \* enable_eack_own_
  PauseOnOow,           \* enable_pause_initial_transmission_on_oow_drops_
  Slack                 \* request_window_slack_, data_window_slack_

\* A disabled early-retransmission algorithm has no threshold.
Disabled == -1

ASSUME TransmitAssumption ==
  /\ {Fcwnd, Ncwnd, CounterMod} \subseteq Nat \ {0}
  /\ {EarlyRetransmitLimit, Slack} \subseteq Nat
  /\ {OooCount, OooDistance} \subseteq Nat \cup {Disabled}
  /\ {EackOwn, PauseOnOow} \subseteq BOOLEAN

\* OutstandingPacketContext with its key, the PSN.
Context == [psn : Nat, pkt : Packet]

\* The CHECKs of the code that an event may fail.
TxCheck == {"GetOutstandingPacketRSN", "HandleRnrNack"}

TxState ==
  [base : [Window -> Nat],            \* base_packet_sequence_number
   next : [Window -> Nat],            \* next_packet_sequence_number
   window : [Window -> SUBSET Nat],   \* PSNs >= base acknowledged individually
   outstanding : [Window -> SUBSET Nat],
   retx : [Window -> SUBSET Nat],     \* queue of the retransmission scheduler
   contexts : [Window -> SUBSET Context],
   sent : SUBSET Context,             \* PacketMetadata::psn of what was transmitted
   retried : SUBSET Packet,           \* transmit_attempts > 1
   rnr : SUBSET Packet,               \* nack_code is kUlpReceiverNotReady
   orc : [Window -> 0 .. CounterMod - 1],
   orrc : [Window -> 0 .. CounterMod - 1],
   oow : [Window -> BOOLEAN],         \* oow_notification_received
   failed : SUBSET TxCheck]           \* the CHECKs that failed

InitTx ==
  [base |-> [w \in Window |-> 0], next |-> [w \in Window |-> 0],
   window |-> [w \in Window |-> {}], outstanding |-> [w \in Window |-> {}],
   retx |-> [w \in Window |-> {}], contexts |-> [w \in Window |-> {}],
   sent |-> {}, retried |-> {}, rnr |-> {},
   orc |-> [w \in Window |-> 0], orrc |-> [w \in Window |-> 0],
   oow |-> [w \in Window |-> FALSE], failed |-> {}]

-----------------------------------------------------------------------------
(* Transmission.                                                             *)

MeetsInitialTransmissionTxGatingCriteria(t, type) ==
  LET w == WindowOf(type) IN
  /\ t.next[w] < t.base[w] + Fcwnd
  /\ type \in CountedTypes => t.orc[w] < Ncwnd
  /\ PauseOnOow => ~t.oow[w]

MeetsRetransmissionCCTxGatingCriteria(t, c) ==
  LET w == WindowOf(c.pkt.type) IN
  /\ c.psn < t.base[w] + Fcwnd
  /\ c.pkt.type \in CountedTypes => t.orrc[w] < Ncwnd

Increment(counter, p) ==
  [w \in Window |-> IF p.type \in CountedTypes /\ w = WindowOf(p.type)
                    THEN (counter[w] + 1) % CounterMod ELSE counter[w]]

\* TransmitPacket of a packet that was not transmitted before.
TransmitPacket(t, p) ==
  LET w == WindowOf(p.type)
      c == [psn |-> t.next[w], pkt |-> p]
  IN  [t EXCEPT !.next[w] = @ + 1,
                !.outstanding[w] = @ \cup {c.psn},
                !.contexts[w] = @ \cup {c},
                !.sent = @ \cup {c},
                !.orc = Increment(@, p)]

\* Mutant: the packet stays in the queue of the retransmission scheduler.
RetransmitWithoutDequeue(t, c) ==
  LET w == WindowOf(c.pkt.type) IN
  [t EXCEPT !.outstanding[w] = @ \cup {c.psn},
            !.retried = @ \cup {c.pkt},
            !.orrc = Increment(@, c.pkt)]

\* Mutant: only a first transmission is outstanding.
RetransmitUntracked(t, c) ==
  LET w == WindowOf(c.pkt.type) IN
  [t EXCEPT !.retx[w] = @ \ {c.psn},
            !.retried = @ \cup {c.pkt},
            !.orrc = Increment(@, c.pkt)]

\* TransmitPacket of a queued retransmission, which is then dequeued.
RetransmitPacket(t, c) ==
  LET w == WindowOf(c.pkt.type) IN
  [t EXCEPT !.outstanding[w] = @ \cup {c.psn},
            !.retx[w] = @ \ {c.psn},
            !.retried = @ \cup {c.pkt},
            !.orrc = Increment(@, c.pkt)]

\* The scheduler looks at the lowest PSN of a window's queue only.
RetransmissionCandidates(t) ==
  {c \in t.contexts["request"] \cup t.contexts["data"] :
     LET queue == t.retx[WindowOf(c.pkt.type)] IN
     /\ c.psn \in queue
     /\ \A n \in queue : c.psn <= n
     /\ MeetsRetransmissionCCTxGatingCriteria(t, c)}

\* Mutant: what is queued for retransmission stays outstanding.
InitiateRetransmissionInPlace(t, w, P) == [t EXCEPT !.retx[w] = @ \cup P]

\* InitiateRetransmission of the PSNs P, and their removal from outstanding.
InitiateRetransmission(t, w, P) ==
  LET again == {c \in t.contexts[w] : /\ c.psn \in P \ t.retx[w]
                                      /\ c.pkt \in t.retried
                                      /\ c.pkt.type \in CountedTypes}
  IN  [t EXCEPT !.outstanding[w] = @ \ P,
                !.retx[w] = @ \cup P,
                !.orrc[w] = (@ - Cardinality(again)) % CounterMod]

\* The initial segments of the outstanding PSNs of a window below a limit.
Prefixes(t, w, limit) ==
  {{n \in t.outstanding[w] : n < k} : k \in {n + 1 : n \in {m \in t.outstanding[w] : m < limit}}}
     \cup {{}}

\* One window of HandleRetransmitTimeout; P is the prefix that has timed out.
ExpireWindow(t, w, P) ==
  [InitiateRetransmission(t, w, P \ t.window[w]) EXCEPT !.outstanding[w] = @ \ P]

HandleRetransmitTimeout(t, P) ==
  ExpireWindow(ExpireWindow(t, "request", P["request"]), "data", P["data"])

-----------------------------------------------------------------------------
(* Acknowledgement.                                                          *)

\* Mutant: unsolicited data is counted in the request window.
DecrementRequestWindow(type) == "request"

\* The window whose counters the acknowledgement of a packet decrements.
DecrementWindow(type) == IF type = "PushUnsolicitedData" THEN "data" ELSE "request"

\* Mutants: a push is not counted down at all, and twice.
DecrementPullsOnly(t, acked) ==
  [v \in Window |->
     LET S == {c \in acked : c.pkt.type = "PullRequest" /\ DecrementWindow(c.pkt.type) = v}
     IN  (t.orc[v] - Cardinality(S)) % CounterMod]
DecrementOnEveryRequest(t, acked) ==
  [v \in Window |->
     LET S == {c \in acked : /\ c.pkt.type \in CountedTypes \cup PushDataTypes
                             /\ DecrementWindow(c.pkt.type) = v}
     IN  (t.orc[v] - Cardinality(S)) % CounterMod]

DecrementOutstandingRequestCount(t, acked) ==
  [v \in Window |->
     LET S == {c \in acked : /\ c.pkt.type \in {"PullRequest"} \cup PushDataTypes
                             /\ DecrementWindow(c.pkt.type) = v}
     IN  (t.orc[v] - Cardinality(S)) % CounterMod]

DecrementOutstandingRetransmittedRequestCount(t, w, acked) ==
  [v \in Window |->
     LET S == {c \in acked :
                 /\ DecrementWindow(c.pkt.type) = v
                 /\ \/ /\ c.pkt.type = "PushSolicitedData"
                       /\ Pkt("PushRequest", c.pkt.rsn) \in t.retried
                    \/ /\ c.pkt.type \in {"PullRequest", "PushUnsolicitedData"}
                       /\ c.pkt \in t.retried
                       /\ c.psn \in t.outstanding[w]}
     IN  (t.orrc[v] - Cardinality(S)) % CounterMod]

\* EnqueueAckToUlp for the PSNs P.  Its effect on the transactions is with the
\* transactions.
EnqueueAckToUlp(t, w, P) ==
  LET acked == {c \in t.contexts[w] : c.psn \in P} IN
  [t EXCEPT !.outstanding[w] = @ \ P,
            !.retx[w] = @ \ P,
            !.contexts[w] = @ \ acked,
            !.orc = DecrementOutstandingRequestCount(t, acked),
            !.orrc = DecrementOutstandingRetransmittedRequestCount(t, w, acked),
            !.failed = @ \cup IF P \subseteq {c.psn : c \in acked} THEN {}
                              ELSE {"GetOutstandingPacketRSN"}]

\* One window of HandleACK and of HandlePiggybackedACK.
AdvanceBase(t, w, bpsn, own) ==
  IF bpsn <= t.base[w] THEN t
  ELSE [EnqueueAckToUlp(t, w, (t.base[w] .. bpsn - 1) \ t.window[w])
          EXCEPT !.base[w] = bpsn,
                 !.window[w] = {n \in @ : n >= bpsn},
                 !.oow[w] = IF bpsn + Slack >= t.next[w] THEN FALSE ELSE @ \/ own]

StaleAck(t, bpsn) == \E w \in Window : bpsn[w] < t.base[w]

\* HandlePiggybackedACK, and HandleACK up to its call of HandleEACK.
HandlePiggybackedACK(t, bpsn, own) ==
  IF StaleAck(t, bpsn) THEN t
  ELSE AdvanceBase(AdvanceBase(t, "request", bpsn["request"], own["request"]),
                   "data", bpsn["data"], own["data"])

\* HandleImplicitAck for an incoming packet p.
HandleImplicitAck(t, p) ==
  IF p.type \notin DOMAIN Answers THEN t
  ELSE LET q == Pkt(Answers[p.type], p.rsn)
           w == WindowOf(q.type)
           P == {n \in {c.psn : c \in {d \in t.sent : d.pkt = q}} :
                   n >= t.base[w] /\ n \notin t.window[w]}
       IN  [EnqueueAckToUlp(t, w, P)
              EXCEPT !.base[w] = IF @ \in P THEN @ + 1 ELSE @,
                     !.window[w] = @ \cup (P \ {t.base[w]})]

\* Mutant: index 1 of the bitmap is taken for the base PSN.
OrAckBitmapMisaligned(t, w, bits) ==
  LET new == {t.base[w] + i - 1 : i \in bits} \ t.window[w] IN
  [EnqueueAckToUlp(t, w, new) EXCEPT !.window[w] = @ \cup new]

\* The ack bitmap of one window of an EACK, OR-ed into the transmit window.
OrAckBitmap(t, w, bits) ==
  LET new == {t.base[w] + i : i \in bits} \ t.window[w] IN
  [EnqueueAckToUlp(t, w, new) EXCEPT !.window[w] = @ \cup new]

\* HandleACK without the early retransmissions of HandleEACK.
HandleACK(t, bpsn, own, eack, bits) ==
  LET t1 == HandlePiggybackedACK(t, bpsn, own) IN
  IF StaleAck(t, bpsn) \/ ~eack THEN t1
  ELSE OrAckBitmap(OrAckBitmap(t1, "request", bits["request"]), "data", bits["data"])

-----------------------------------------------------------------------------
(* Early retransmission.                                                     *)

EackBasedEarlyRetransmissionIsEnabled == OooDistance # Disabled \/ OooCount # Disabled

\* The highest bitmap index with enough received packets above it.
EarlyRetransmissionOooCount(rcvd) ==
  Max({-1} \cup {i \in 0 .. RxWindow - 1 :
                   Cardinality({j \in rcvd : j > i}) >= OooCount})

EarlyRetransmissionOooDistance(rcvd) == Max({-1} \cup rcvd) - OooDistance

RetxLimit(t, w, rcvd, own) ==
  IF EackOwn /\ own THEN t.next[w] - 1
  ELSE Max({-1} \cup (IF OooCount # Disabled THEN {EarlyRetransmissionOooCount(rcvd)} ELSE {})
                \cup (IF OooDistance # Disabled THEN {EarlyRetransmissionOooDistance(rcvd)}
                                                ELSE {}))

\* Mutant: the scan retransmits whatever is below its limit.
EackRetransmissionsBelowLimit(t, w, rcvd, own) ==
  {{}, {t.base[w] + i : i \in (0 .. RetxLimit(t, w, rcvd, own)) \ rcvd}}

\* The sets of PSNs that the scan of HandleEACK may retransmit in a window.  It
\* goes up the outstanding PSNs, passes over the received ones and stops at the
\* limit or at an RNR-NACKed packet.  A packet that fails the recency check,
\* which depends on time, ends the scan; an EACK-OWN may pass over it.
EackRetransmissions(t, w, rcvd, own) ==
  LET limit == RetxLimit(t, w, rcvd, own)
      holes == {n \in t.outstanding[w] : n - t.base[w] <= limit /\ n - t.base[w] \notin rcvd}
      stops == {c.psn : c \in {d \in t.contexts[w] : d.pkt \in t.rnr}} \cap holes
      reached == {n \in holes : \A m \in stops : n < m}
  IN  IF ~EackBasedEarlyRetransmissionIsEnabled THEN {{}}
      ELSE IF own THEN SUBSET reached
      ELSE {{n \in reached : n < k} : k \in {m + 1 : m \in reached}} \cup {{}}

\* Mutant: the limit alone decides what is retransmitted.
NackRetransmissionsBelowLimit(t, w) ==
  {{}, t.base[w] .. t.base[w] + EarlyRetransmitLimit - 1}

\* The sets of PSNs that InitiateNackBasedEarlyRetransmission may retransmit.
NackRetransmissions(t, w) ==
  IF EackBasedEarlyRetransmissionIsEnabled THEN {{}}
  ELSE Prefixes(t, w, t.base[w] + EarlyRetransmitLimit)

\* HandleRnrNack.  A PSN without a context is ignored below the base; otherwise
\* the CHECK_OK of HandleNack fails.
HandleRnrNack(t, w, psn) ==
  LET nacked == {c \in t.contexts[w] : c.psn = psn} IN
  [t EXCEPT !.rnr = @ \cup {c.pkt : c \in nacked},
            !.failed = @ \cup IF nacked = {} /\ psn >= t.base[w]
                              THEN {"HandleRnrNack"} ELSE {}]

-----------------------------------------------------------------------------
\* The PSNs of a window that were sent and are not acknowledged.
Unacked(t, w) == {c.psn : c \in t.contexts[w]}

\* The sender's ledger of one window of t: the unacknowledged PSNs are the
\* outstanding ones and the queued retransmissions, none is both, and with the
\* individually acknowledged ones they make up base .. next - 1.
WindowLedger(t, w) ==
  /\ Unacked(t, w) = t.outstanding[w] \cup t.retx[w]
  /\ t.outstanding[w] \cap t.retx[w] = {}
  /\ Unacked(t, w) \cap t.window[w] = {}
  /\ Unacked(t, w) \cup t.window[w] = t.base[w] .. t.next[w] - 1

=============================================================================
