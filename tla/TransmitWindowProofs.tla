------------------------ MODULE TransmitWindowProofs ------------------------
(* What the handlers of the transmitter preserve, for every state.           *)
EXTENDS TransmitWindow, FiniteSetTheorems, TLAPS

\* The state of a transmitter between two events.
TxInv(t) ==
  /\ t \in TxState
  /\ \A w \in Window : WindowLedger(t, w) /\ IsFiniteSet(t.contexts[w])
  /\ \A w \in Window : t.base[w] <= t.next[w]
  /\ \A c \in t.sent : c.psn < t.next[WindowOf(c.pkt.type)]

\* A counter of width CounterMod stays in its range whatever is subtracted.
LEMMA CounterType ==
  ASSUME NEW x \in Int
  PROVE  x % CounterMod \in 0 .. CounterMod - 1
BY TransmitAssumption

\* A part of a finite set has a cardinality.
LEMMA FiniteCardinality ==
  ASSUME NEW S, NEW T, IsFiniteSet(T), S \subseteq T
  PROVE  IsFiniteSet(S) /\ Cardinality(S) \in Nat
BY FS_Subset, FS_CardinalityType

\* The acknowledgement of finitely many packets leaves the counters in range.
LEMMA DecrementType ==
  ASSUME NEW t \in TxState, NEW w \in Window, NEW A, IsFiniteSet(A)
  PROVE  /\ DecrementOutstandingRequestCount(t, A) \in [Window -> 0 .. CounterMod - 1]
         /\ DecrementOutstandingRetransmittedRequestCount(t, w, A)
              \in [Window -> 0 .. CounterMod - 1]
<1>1. DecrementOutstandingRequestCount(t, A) \in [Window -> 0 .. CounterMod - 1]
  <2> DEFINE S(v) == {c \in A : /\ c.pkt.type \in {"PullRequest"} \cup PushDataTypes
                                /\ DecrementWindow(c.pkt.type) = v}
  <2>1. \A v \in Window : t.orc[v] - Cardinality(S(v)) \in Int
    <3> SUFFICES ASSUME NEW v \in Window PROVE t.orc[v] - Cardinality(S(v)) \in Int
      OBVIOUS
    <3>1. Cardinality(S(v)) \in Nat
      BY FiniteCardinality
    <3>2. t.orc[v] \in Nat
      BY DEF TxState
    <3> QED BY <3>1, <3>2
  <2>2. \A v \in Window : (t.orc[v] - Cardinality(S(v))) % CounterMod \in 0 .. CounterMod - 1
    BY <2>1, CounterType
  <2> HIDE DEF S
  <2>3. [v \in Window |-> (t.orc[v] - Cardinality(S(v))) % CounterMod]
          \in [Window -> 0 .. CounterMod - 1]
    BY <2>2
  <2> QED BY <2>3 DEF DecrementOutstandingRequestCount, S
<1>2. DecrementOutstandingRetransmittedRequestCount(t, w, A) \in [Window -> 0 .. CounterMod - 1]
  <2> DEFINE S(v) == {c \in A :
                        /\ DecrementWindow(c.pkt.type) = v
                        /\ \/ /\ c.pkt.type = "PushSolicitedData"
                              /\ Pkt("PushRequest", c.pkt.rsn) \in t.retried
                           \/ /\ c.pkt.type \in {"PullRequest", "PushUnsolicitedData"}
                              /\ c.pkt \in t.retried
                              /\ c.psn \in t.outstanding[w]}
  <2>1. \A v \in Window : t.orrc[v] - Cardinality(S(v)) \in Int
    <3> SUFFICES ASSUME NEW v \in Window PROVE t.orrc[v] - Cardinality(S(v)) \in Int
      OBVIOUS
    <3>1. Cardinality(S(v)) \in Nat
      BY FiniteCardinality
    <3>2. t.orrc[v] \in Nat
      BY DEF TxState
    <3> QED BY <3>1, <3>2
  <2>2. \A v \in Window : (t.orrc[v] - Cardinality(S(v))) % CounterMod \in 0 .. CounterMod - 1
    BY <2>1, CounterType
  <2> HIDE DEF S
  <2>3. [v \in Window |-> (t.orrc[v] - Cardinality(S(v))) % CounterMod]
          \in [Window -> 0 .. CounterMod - 1]
    BY <2>2
  <2> QED BY <2>3 DEF DecrementOutstandingRetransmittedRequestCount, S
<1> QED BY <1>1, <1>2

\* u is t without the PSNs P of window w, which are no longer unacknowledged.
Removed(t, u, w, P) ==
  /\ u \in TxState
  /\ u.base = t.base /\ u.next = t.next /\ u.window = t.window
  /\ u.oow = t.oow /\ u.failed = t.failed /\ u.sent = t.sent
  /\ Unacked(u, w) = Unacked(t, w) \ P
  /\ u.outstanding[w] = t.outstanding[w] \ P
  /\ u.retx[w] = t.retx[w] \ P
  /\ IsFiniteSet(u.contexts[w])
  /\ \A v \in Window \ {w} : /\ u.outstanding[v] = t.outstanding[v]
                             /\ u.retx[v] = t.retx[v]
                             /\ u.contexts[v] = t.contexts[v]

\* Acknowledging unacknowledged PSNs P of a window removes just them from its
\* ledger, and fails no CHECK.
LEMMA EnqueueAckToUlpFacts ==
  ASSUME NEW t, TxInv(t), NEW w \in Window, NEW P, P \subseteq Unacked(t, w)
  PROVE  Removed(t, EnqueueAckToUlp(t, w, P), w, P)
<1> DEFINE acked == {c \in t.contexts[w] : c.psn \in P}
           u == EnqueueAckToUlp(t, w, P)
<1>1. t \in TxState /\ IsFiniteSet(t.contexts[w])
  BY DEF TxInv
<1>2. IsFiniteSet(acked)
  BY <1>1, FiniteCardinality
<1>3. P = {c.psn : c \in acked}
  BY DEF Unacked
<1> DEFINE orc == DecrementOutstandingRequestCount(t, acked)
           orrc == DecrementOutstandingRetransmittedRequestCount(t, w, acked)
<1>4. orc \in [Window -> 0 .. CounterMod - 1] /\ orrc \in [Window -> 0 .. CounterMod - 1]
  BY <1>1, <1>2, DecrementType
<1>5. u = [t EXCEPT !.outstanding[w] = @ \ P, !.retx[w] = @ \ P,
                    !.contexts[w] = @ \ acked, !.orc = orc, !.orrc = orrc,
                    !.failed = @ \cup {}]
  BY <1>3 DEF EnqueueAckToUlp
<1> HIDE DEF orc, orrc, u
<1>6. u \in TxState
  BY <1>1, <1>4, <1>5 DEF TxState
<1>7. /\ u.base = t.base /\ u.next = t.next /\ u.window = t.window
      /\ u.oow = t.oow /\ u.failed = t.failed /\ u.sent = t.sent
      /\ u.outstanding[w] = t.outstanding[w] \ P
      /\ u.retx[w] = t.retx[w] \ P
      /\ u.contexts[w] = t.contexts[w] \ acked
      /\ \A v \in Window \ {w} : /\ u.outstanding[v] = t.outstanding[v]
                                 /\ u.retx[v] = t.retx[v]
                                 /\ u.contexts[v] = t.contexts[v]
  BY <1>1, <1>5 DEF TxState
<1>8. Unacked(u, w) = Unacked(t, w) \ P
  BY <1>7 DEF Unacked
<1>9. IsFiniteSet(u.contexts[w])
  BY <1>1, <1>7, FiniteCardinality
<1> QED BY <1>6, <1>7, <1>8, <1>9 DEF u, Removed

\* What an event that transmits nothing does with a transmitter.
Preserved(t, u) ==
  /\ TxInv(u)
  /\ u.next = t.next /\ u.failed = t.failed
  /\ \A w \in Window : t.base[w] <= u.base[w]

\* Two handlers, one after the other.
LEMMA PreservedTransitive ==
  ASSUME NEW t, NEW u, NEW v, TxInv(t), Preserved(t, u), Preserved(u, v)
  PROVE  Preserved(t, v)
BY DEF Preserved, TxInv, TxState

\* An early return.
LEMMA PreservedReflexive ==
  ASSUME NEW t, TxInv(t)
  PROVE  Preserved(t, t)
BY DEF Preserved, TxInv, TxState

\* A base PSN that the peer sent, which is not above the next PSN, moves the window
\* and acknowledges what it passes.
LEMMA AdvanceBaseFacts ==
  ASSUME NEW t, TxInv(t), NEW w \in Window, NEW own \in BOOLEAN,
         NEW bpsn \in Nat, bpsn <= t.next[w]
  PROVE  LET u == AdvanceBase(t, w, bpsn, own) IN
         /\ Preserved(t, u)
         /\ bpsn >= t.base[w] => u.base[w] = bpsn
         /\ \A v \in Window \ {w} : u.base[v] = t.base[v]
<1>1. CASE bpsn <= t.base[w]
  <2>1. t.base[w] \in Nat
    BY DEF TxInv, TxState
  <2> QED BY <1>1, <2>1, PreservedReflexive DEF AdvanceBase
<1>2. CASE ~(bpsn <= t.base[w])
  <2> DEFINE P == (t.base[w] .. bpsn - 1) \ t.window[w]
             e == EnqueueAckToUlp(t, w, P)
             u == AdvanceBase(t, w, bpsn, own)
  <2>1. t \in TxState /\ WindowLedger(t, w)
    BY DEF TxInv
  <2>2. t.base[w] \in Nat /\ t.next[w] \in Nat
    BY <2>1 DEF TxState
  <2>3. P \subseteq Unacked(t, w)
    BY <2>1, <2>2, <1>2 DEF WindowLedger
  <2> HIDE DEF P
  <2>4. Removed(t, e, w, P)
    BY <2>3, EnqueueAckToUlpFacts
  <2>5. u = [e EXCEPT !.base[w] = bpsn,
                      !.window[w] = {n \in @ : n >= bpsn},
                      !.oow[w] = IF bpsn + Slack >= t.next[w] THEN FALSE ELSE @ \/ own]
    BY <1>2 DEF AdvanceBase, P
  <2> HIDE DEF e, u
  <2>6. u \in TxState
    BY <2>4, <2>5 DEF TxState, Removed
  <2>7. /\ u.next = t.next /\ u.failed = t.failed /\ u.sent = t.sent
        /\ u.contexts = e.contexts /\ u.outstanding = e.outstanding /\ u.retx = e.retx
        /\ u.base[w] = bpsn /\ u.window[w] = {n \in t.window[w] : n >= bpsn}
        /\ \A v \in Window \ {w} : u.base[v] = t.base[v] /\ u.window[v] = t.window[v]
    BY <2>4, <2>5 DEF TxState, Removed
  <2>8. WindowLedger(u, w)
    <3>1. Unacked(u, w) = Unacked(t, w) \ P
      BY <2>4, <2>7 DEF Unacked, Removed
    <3>2. /\ u.outstanding[w] = t.outstanding[w] \ P
          /\ u.retx[w] = t.retx[w] \ P
      BY <2>4, <2>7 DEF Removed
    <3>3. Unacked(u, w) \cup u.window[w] = u.base[w] .. u.next[w] - 1
      BY <3>1, <2>1, <2>2, <2>7, <1>2 DEF P, WindowLedger
    <3> QED BY <3>1, <3>2, <3>3, <2>1, <2>7 DEF WindowLedger
  <2>9. \A v \in Window \ {w} : WindowLedger(u, v) /\ IsFiniteSet(u.contexts[v])
    BY <2>4, <2>7 DEF WindowLedger, Unacked, TxInv, Removed
  <2>10. TxInv(u)
    BY <2>4, <2>6, <2>7, <2>8, <2>9 DEF TxInv, Removed
  <2> QED BY <1>2, <2>1, <2>2, <2>7, <2>10 DEF Preserved, u, TxState
<1> QED BY <1>1, <1>2

\* A piggybacked ACK that is not stale moves both windows to its base PSNs.
LEMMA HandlePiggybackedACKFacts ==
  ASSUME NEW t, TxInv(t), NEW bpsn \in [Window -> Nat], NEW own \in [Window -> BOOLEAN],
         \A w \in Window : bpsn[w] <= t.next[w]
  PROVE  LET u == HandlePiggybackedACK(t, bpsn, own) IN
         /\ Preserved(t, u)
         /\ ~StaleAck(t, bpsn) => u.base = bpsn
<1>1. CASE StaleAck(t, bpsn)
  BY <1>1, PreservedReflexive DEF HandlePiggybackedACK
<1>2. CASE ~StaleAck(t, bpsn)
  <2> DEFINE r == AdvanceBase(t, "request", bpsn["request"], own["request"])
             u == AdvanceBase(r, "data", bpsn["data"], own["data"])
  <2>1. "request" \in Window /\ "data" \in Window /\ Window = {"request", "data"}
    BY DEF Window
  <2>2. t.base \in [Window -> Nat] /\ \A w \in Window : bpsn[w] >= t.base[w]
    BY <1>2 DEF StaleAck, TxInv, TxState
  <2>3. /\ Preserved(t, r)
        /\ r.base["request"] = bpsn["request"] /\ r.base["data"] = t.base["data"]
    BY <2>1, <2>2, AdvanceBaseFacts
  <2>4. TxInv(r) /\ r.next = t.next
    BY <2>3 DEF Preserved
  <2> HIDE DEF r
  <2>5. /\ Preserved(r, u)
        /\ u.base["data"] = bpsn["data"] /\ u.base["request"] = r.base["request"]
    BY <2>1, <2>2, <2>3, <2>4, AdvanceBaseFacts
  <2> HIDE DEF u
  <2>6. Preserved(t, u)
    BY <2>3, <2>5, PreservedTransitive
  <2>7. u.base = bpsn
    BY <2>1, <2>3, <2>5, <2>6 DEF Preserved, TxInv, TxState
  <2> QED BY <1>2, <2>6, <2>7 DEF HandlePiggybackedACK, r, u
<1> QED BY <1>1, <1>2

\* The bitmap of an EACK acknowledges PSNs of the window only.
LEMMA OrAckBitmapFacts ==
  ASSUME NEW t, TxInv(t), NEW w \in Window, NEW bits \in SUBSET Nat,
         \A i \in bits : t.base[w] + i < t.next[w]
  PROVE  LET u == OrAckBitmap(t, w, bits) IN Preserved(t, u) /\ u.base = t.base
<1> DEFINE new == {t.base[w] + i : i \in bits} \ t.window[w]
           e == EnqueueAckToUlp(t, w, new)
           u == OrAckBitmap(t, w, bits)
<1>1. t \in TxState /\ WindowLedger(t, w)
  BY DEF TxInv
<1>2. t.base[w] \in Nat /\ t.next[w] \in Nat
  BY <1>1 DEF TxState
<1>3. new \subseteq Unacked(t, w) /\ new \subseteq Nat
  BY <1>1, <1>2 DEF WindowLedger
<1> HIDE DEF new
<1>4. Removed(t, e, w, new)
  BY <1>3, EnqueueAckToUlpFacts
<1>5. u = [e EXCEPT !.window[w] = @ \cup new]
  BY DEF OrAckBitmap, new
<1> HIDE DEF e, u
<1>6. u \in TxState
  BY <1>3, <1>4, <1>5 DEF TxState, Removed
<1>7. /\ u.next = t.next /\ u.failed = t.failed /\ u.sent = t.sent /\ u.base = t.base
      /\ u.contexts = e.contexts /\ u.outstanding = e.outstanding /\ u.retx = e.retx
      /\ u.window[w] = t.window[w] \cup new
      /\ \A v \in Window \ {w} : u.window[v] = t.window[v]
  BY <1>4, <1>5 DEF TxState, Removed
<1>8. WindowLedger(u, w)
  <2>1. Unacked(u, w) = Unacked(t, w) \ new
    BY <1>4, <1>7 DEF Unacked, Removed
  <2> QED BY <2>1, <1>1, <1>3, <1>4, <1>7 DEF WindowLedger, Removed
<1>9. \A v \in Window \ {w} : WindowLedger(u, v) /\ IsFiniteSet(u.contexts[v])
  BY <1>4, <1>7 DEF WindowLedger, Unacked, TxInv, Removed
<1>10. TxInv(u)
  BY <1>4, <1>6, <1>7, <1>8, <1>9 DEF TxInv, Removed
<1> QED BY <1>7, <1>10, <1>1 DEF Preserved, u, TxState

\* An ACK or EACK whose bitmaps are about PSNs that were sent keeps the ledger.
LEMMA HandleACKFacts ==
  ASSUME NEW t, TxInv(t), NEW bpsn \in [Window -> Nat], NEW own \in [Window -> BOOLEAN],
         NEW eack \in BOOLEAN, NEW bits \in [Window -> SUBSET Nat],
         \A w \in Window : bpsn[w] <= t.next[w],
         \A w \in Window : \A i \in bits[w] : bpsn[w] + i < t.next[w]
  PROVE  Preserved(t, HandleACK(t, bpsn, own, eack, bits))
<1> DEFINE p == HandlePiggybackedACK(t, bpsn, own)
           r == OrAckBitmap(p, "request", bits["request"])
           u == OrAckBitmap(r, "data", bits["data"])
<1>1. Preserved(t, p) /\ (~StaleAck(t, bpsn) => p.base = bpsn)
  BY HandlePiggybackedACKFacts
<1>2. CASE StaleAck(t, bpsn) \/ ~eack
  BY <1>1, <1>2 DEF HandleACK
<1>3. CASE ~(StaleAck(t, bpsn) \/ ~eack)
  <2>1. "request" \in Window /\ "data" \in Window
    BY DEF Window
  <2>2. TxInv(p) /\ p.next = t.next /\ p.base = bpsn
    BY <1>1, <1>3 DEF Preserved
  <2> HIDE DEF p
  <2>3. Preserved(p, r) /\ r.base = p.base
    BY <2>1, <2>2, OrAckBitmapFacts
  <2>4. TxInv(r) /\ r.next = t.next
    BY <2>2, <2>3 DEF Preserved
  <2> HIDE DEF r
  <2>5. Preserved(r, u)
    BY <2>1, <2>2, <2>3, <2>4, OrAckBitmapFacts
  <2> HIDE DEF u
  <2>6. Preserved(t, u)
    BY <1>1, <2>2, <2>3, <2>4, <2>5, PreservedTransitive
  <2> QED BY <1>3, <2>6 DEF HandleACK, p, r, u
<1> QED BY <1>2, <1>3

\* WindowOf is one of the two windows.
LEMMA WindowOfType ==
  ASSUME NEW type
  PROVE  WindowOf(type) \in Window
BY DEF WindowOf, Window

\* An implicit ACK takes one packet out of the window, and shifts the window by
\* one if it was the oldest.
LEMMA HandleImplicitAckFacts ==
  ASSUME NEW t, TxInv(t), NEW p \in Packet
  PROVE  Preserved(t, HandleImplicitAck(t, p))
<1>1. CASE p.type \notin DOMAIN Answers
  BY <1>1, PreservedReflexive DEF HandleImplicitAck
<1>2. CASE p.type \in DOMAIN Answers
  <2> DEFINE q == Pkt(Answers[p.type], p.rsn)
             w == WindowOf(q.type)
             P == {n \in {c.psn : c \in {d \in t.sent : d.pkt = q}} :
                     n >= t.base[w] /\ n \notin t.window[w]}
             e == EnqueueAckToUlp(t, w, P)
             u == HandleImplicitAck(t, p)
  <2>1. t \in TxState /\ w \in Window
    BY WindowOfType DEF TxInv
  <2>2. t.base[w] \in Nat /\ t.next[w] \in Nat /\ WindowLedger(t, w)
    BY <2>1 DEF TxState, TxInv
  <2>3. P \subseteq Unacked(t, w) /\ P \subseteq Nat
    <3> SUFFICES ASSUME NEW n \in P PROVE n \in Unacked(t, w) /\ n \in Nat
      OBVIOUS
    <3>1. PICK c \in t.sent : c.pkt = q /\ c.psn = n
      OBVIOUS
    <3>2. n >= t.base[w] /\ n \notin t.window[w]
      OBVIOUS
    <3>3. c \in Context /\ c.psn < t.next[WindowOf(c.pkt.type)]
      BY <2>1 DEF TxInv, TxState
    <3>4. n \in Nat /\ n < t.next[w]
      BY <3>1, <3>3 DEF Context
    <3> HIDE DEF P, w, q
    <3>5. n \in t.base[w] .. t.next[w] - 1
      BY <3>2, <3>4, <2>2
    <3> QED BY <3>2, <3>4, <3>5, <2>2 DEF WindowLedger
  <2>4. u = [e EXCEPT !.base[w] = IF @ \in P THEN @ + 1 ELSE @,
                      !.window[w] = @ \cup (P \ {t.base[w]})]
    BY <1>2 DEF HandleImplicitAck
  <2> DEFINE base == IF t.base[w] \in P THEN t.base[w] + 1 ELSE t.base[w]
             window == t.window[w] \cup (P \ {t.base[w]})
  <2> HIDE DEF P, w
  <2>5. Removed(t, e, w, P)
    BY <2>1, <2>3, EnqueueAckToUlpFacts
  <2> HIDE DEF e, u
  <2>6. u \in TxState
    <3>1. base \in Nat
      BY <2>2
    <3>2. t.window[w] \in SUBSET Nat
      BY <2>1 DEF TxState
    <3>3. window \in SUBSET Nat
      BY <3>2, <2>3
    <3>4. u = [e EXCEPT !.base[w] = base, !.window[w] = window]
      BY <2>1, <2>4, <2>5 DEF TxState, Removed
    <3> HIDE DEF base, window
    <3> QED BY <3>1, <3>3, <3>4, <2>1, <2>5 DEF TxState, Removed
  <2>7. /\ u.next = t.next /\ u.failed = t.failed /\ u.sent = t.sent
        /\ u.contexts = e.contexts /\ u.outstanding = e.outstanding /\ u.retx = e.retx
        /\ u.base[w] = IF t.base[w] \in P THEN t.base[w] + 1 ELSE t.base[w]
        /\ u.window[w] = t.window[w] \cup (P \ {t.base[w]})
        /\ \A v \in Window \ {w} : u.base[v] = t.base[v] /\ u.window[v] = t.window[v]
    BY <2>1, <2>4, <2>5 DEF TxState, Removed
  <2>8. WindowLedger(u, w)
    <3>1. Unacked(u, w) = Unacked(t, w) \ P
      BY <2>5, <2>7 DEF Unacked, Removed
    <3>2. /\ u.outstanding[w] = t.outstanding[w] \ P
          /\ u.retx[w] = t.retx[w] \ P
      BY <2>5, <2>7 DEF Removed
    <3>3. Unacked(u, w) \cup u.window[w] = u.base[w] .. u.next[w] - 1
      <4>1. CASE t.base[w] \in P
        <5>1. Unacked(u, w) \cup u.window[w] = (t.base[w] .. t.next[w] - 1) \ {t.base[w]}
          BY <4>1, <3>1, <2>2, <2>3, <2>7 DEF WindowLedger
        <5> QED BY <5>1, <4>1, <2>2, <2>7
      <4>2. CASE t.base[w] \notin P
        <5>1. Unacked(u, w) \cup u.window[w] = t.base[w] .. t.next[w] - 1
          BY <4>2, <3>1, <2>2, <2>3, <2>7 DEF WindowLedger
        <5> QED BY <5>1, <4>2, <2>2, <2>7
      <4> QED BY <4>1, <4>2
    <3>4. Unacked(u, w) \cap u.window[w] = {}
      BY <3>1, <2>2, <2>7 DEF WindowLedger
    <3> QED BY <3>1, <3>2, <3>3, <3>4, <2>2 DEF WindowLedger
  <2>9. \A v \in Window \ {w} : WindowLedger(u, v) /\ IsFiniteSet(u.contexts[v])
    BY <2>5, <2>7 DEF WindowLedger, Unacked, TxInv, Removed
  <2>10. u.base[w] <= u.next[w]
    <3>1. t.base[w] \in P => t.base[w] \in t.base[w] .. t.next[w] - 1
      BY <2>2, <2>3 DEF WindowLedger
    <3> QED BY <3>1, <2>1, <2>2, <2>7 DEF TxInv
  <2>11. \A v \in Window : u.base[v] <= u.next[v]
    BY <2>7, <2>10 DEF TxInv
  <2>12. \A c \in u.sent : c.psn < u.next[WindowOf(c.pkt.type)]
    BY <2>7 DEF TxInv
  <2>13. TxInv(u)
    BY <2>1, <2>5, <2>6, <2>7, <2>8, <2>9, <2>11, <2>12 DEF TxInv, Removed
  <2> QED BY <2>1, <2>2, <2>7, <2>13 DEF Preserved, u, TxState
<1> QED BY <1>1, <1>2

\* Outstanding packets that are queued for retransmission stay unacknowledged.
LEMMA InitiateRetransmissionFacts ==
  ASSUME NEW t, TxInv(t), NEW w \in Window, NEW P \in SUBSET t.outstanding[w]
  PROVE  LET u == InitiateRetransmission(t, w, P) IN
         /\ Preserved(t, u)
         /\ u.outstanding = [t.outstanding EXCEPT ![w] = @ \ P]
<1> DEFINE again == {c \in t.contexts[w] : /\ c.psn \in P \ t.retx[w]
                                           /\ c.pkt \in t.retried
                                           /\ c.pkt.type \in CountedTypes}
           count == (t.orrc[w] - Cardinality(again)) % CounterMod
           u == InitiateRetransmission(t, w, P)
<1>1. t \in TxState /\ WindowLedger(t, w) /\ IsFiniteSet(t.contexts[w])
  BY DEF TxInv
<1>2. count \in 0 .. CounterMod - 1
  <2>1. Cardinality(again) \in Nat
    BY <1>1, FiniteCardinality
  <2>2. t.orrc[w] \in Nat
    BY <1>1 DEF TxState
  <2> QED BY <2>1, <2>2, CounterType
<1>3. u = [t EXCEPT !.outstanding[w] = @ \ P, !.retx[w] = @ \cup P, !.orrc[w] = count]
  BY <1>1 DEF InitiateRetransmission, TxState
<1> HIDE DEF u, count
<1>4. u \in TxState
  BY <1>1, <1>2, <1>3 DEF TxState
<1>5. /\ u.next = t.next /\ u.failed = t.failed /\ u.sent = t.sent /\ u.base = t.base
      /\ u.contexts = t.contexts /\ u.window = t.window
      /\ u.outstanding = [t.outstanding EXCEPT ![w] = @ \ P]
      /\ u.outstanding[w] = t.outstanding[w] \ P /\ u.retx[w] = t.retx[w] \cup P
      /\ \A v \in Window \ {w} : /\ u.outstanding[v] = t.outstanding[v]
                                 /\ u.retx[v] = t.retx[v]
  BY <1>1, <1>3 DEF TxState
<1>6. \A v \in Window : WindowLedger(u, v)
  BY <1>1, <1>5 DEF WindowLedger, Unacked, TxInv
<1>7. TxInv(u)
  BY <1>4, <1>5, <1>6 DEF TxInv
<1> QED BY <1>1, <1>5, <1>7 DEF Preserved, TxState, u

\* Every set of PSNs that a timeout, an EACK or a NACK may choose is outstanding.
LEMMA ChosenOutstanding ==
  ASSUME NEW t, NEW w, NEW rcvd, NEW own, NEW limit
  PROVE  /\ Prefixes(t, w, limit) \subseteq SUBSET t.outstanding[w]
         /\ EackRetransmissions(t, w, rcvd, own) \subseteq SUBSET t.outstanding[w]
         /\ NackRetransmissions(t, w) \subseteq SUBSET t.outstanding[w]
<1>1. \A l : Prefixes(t, w, l) \subseteq SUBSET t.outstanding[w]
  BY DEF Prefixes
<1>2. NackRetransmissions(t, w) \subseteq SUBSET t.outstanding[w]
  BY <1>1 DEF NackRetransmissions
<1>3. EackRetransmissions(t, w, rcvd, own) \subseteq SUBSET t.outstanding[w]
  BY DEF EackRetransmissions
<1> QED BY <1>1, <1>2, <1>3

\* A timeout of outstanding packets of one window.
LEMMA ExpireWindowFacts ==
  ASSUME NEW t, TxInv(t), NEW w \in Window, NEW P \in SUBSET t.outstanding[w]
  PROVE  LET u == ExpireWindow(t, w, P) IN
         /\ Preserved(t, u)
         /\ \A v \in Window \ {w} : u.outstanding[v] = t.outstanding[v]
<1> DEFINE i == InitiateRetransmission(t, w, P)
<1>1. t \in TxState /\ P \ t.window[w] = P
  BY DEF TxInv, WindowLedger
<1>2. Preserved(t, i) /\ i.outstanding = [t.outstanding EXCEPT ![w] = @ \ P]
  BY InitiateRetransmissionFacts
<1>3. i \in TxState
  BY <1>2 DEF Preserved, TxInv
<1>4. ExpireWindow(t, w, P) = [i EXCEPT !.outstanding[w] = @ \ P]
  BY <1>1 DEF ExpireWindow
<1> HIDE DEF i
<1>5. i.outstanding[w] \ P = i.outstanding[w]
  BY <1>1, <1>2 DEF TxState
<1>6. [i EXCEPT !.outstanding[w] = @ \ P] = i
  BY <1>3, <1>5 DEF TxState
<1> QED BY <1>1, <1>2, <1>4, <1>6 DEF TxState

\* HandleRetransmitTimeout of outstanding packets of both windows.
LEMMA HandleRetransmitTimeoutFacts ==
  ASSUME NEW t, TxInv(t), NEW P, \A w \in Window : P[w] \in SUBSET t.outstanding[w]
  PROVE  Preserved(t, HandleRetransmitTimeout(t, P))
<1> DEFINE r == ExpireWindow(t, "request", P["request"])
<1>1. "request" \in Window /\ "data" \in Window \ {"request"}
  BY DEF Window
<1>2. Preserved(t, r) /\ r.outstanding["data"] = t.outstanding["data"]
  BY <1>1, ExpireWindowFacts
<1>3. TxInv(r)
  BY <1>2 DEF Preserved
<1> HIDE DEF r
<1>4. Preserved(r, ExpireWindow(r, "data", P["data"]))
  BY <1>1, <1>2, <1>3, ExpireWindowFacts
<1> QED BY <1>2, <1>3, <1>4, PreservedTransitive DEF HandleRetransmitTimeout, r

\* The first transmission of a packet takes the next PSN of its window.
LEMMA TransmitPacketFacts ==
  ASSUME NEW t, TxInv(t), NEW p \in Packet
  PROVE  LET u == TransmitPacket(t, p) IN
         /\ TxInv(u)
         /\ u.base = t.base /\ u.failed = t.failed
         /\ u.next = [t.next EXCEPT ![WindowOf(p.type)] = @ + 1]
<1> DEFINE w == WindowOf(p.type)
           c == [psn |-> t.next[w], pkt |-> p]
           orc == Increment(t.orc, p)
           u == TransmitPacket(t, p)
<1>1. t \in TxState /\ w \in Window
  BY WindowOfType DEF TxInv
<1>2. t.base[w] \in Nat /\ t.next[w] \in Nat /\ WindowLedger(t, w)
  BY <1>1 DEF TxState, TxInv
<1>3. c \in Context /\ c.psn = t.next[w] /\ c.pkt = p
  BY <1>2 DEF Context
<1>4. orc \in [Window -> 0 .. CounterMod - 1]
  <2>1. \A v \in Window : t.orc[v] \in 0 .. CounterMod - 1 /\ t.orc[v] + 1 \in Int
    BY <1>1 DEF TxState
  <2> QED BY <2>1, CounterType DEF Increment
<1>5. u = [t EXCEPT !.next[w] = @ + 1, !.outstanding[w] = @ \cup {c.psn},
                    !.contexts[w] = @ \cup {c}, !.sent = @ \cup {c}, !.orc = orc]
  BY <1>1 DEF TransmitPacket, TxState
<1>6. WindowOf(p.type) = w
  OBVIOUS
<1> HIDE DEF u, orc, c, w
<1>7. u \in TxState
  <2> DEFINE next == t.next[w] + 1
             n == c.psn
  <2>1. n \in Nat /\ next \in Nat
    BY <1>2, <1>3
  <2> DEFINE v == [t EXCEPT !.next[w] = next, !.outstanding[w] = @ \cup {n}]
  <2>2. u = [v EXCEPT !.contexts[w] = @ \cup {c}, !.sent = @ \cup {c}, !.orc = orc]
    BY <1>1, <1>5 DEF TxState
  <2> HIDE DEF next, n
  <2>3. v \in TxState
    BY <2>1, <1>1 DEF TxState
  <2> HIDE DEF v
  <2> QED BY <2>2, <2>3, <1>1, <1>3, <1>4 DEF TxState
<1>8. /\ u.base = t.base /\ u.failed = t.failed /\ u.retx = t.retx /\ u.window = t.window
      /\ u.sent = t.sent \cup {c}
      /\ u.next = [t.next EXCEPT ![w] = @ + 1]
      /\ u.next[w] = t.next[w] + 1
      /\ u.outstanding[w] = t.outstanding[w] \cup {t.next[w]}
      /\ u.contexts[w] = t.contexts[w] \cup {c}
      /\ \A v \in Window \ {w} : /\ u.outstanding[v] = t.outstanding[v]
                                 /\ u.contexts[v] = t.contexts[v]
                                 /\ u.next[v] = t.next[v]
  BY <1>1, <1>3, <1>5 DEF TxState
<1>9. WindowLedger(u, w)
  <2>1. Unacked(u, w) = Unacked(t, w) \cup {t.next[w]}
    BY <1>3, <1>8 DEF Unacked
  <2>2. t.next[w] \notin t.base[w] .. t.next[w] - 1
    BY <1>2
  <2>3. t.base[w] <= t.next[w]
    BY <1>1 DEF TxInv
  <2>4. t.base[w] .. u.next[w] - 1 = (t.base[w] .. t.next[w] - 1) \cup {t.next[w]}
    BY <2>3, <1>2, <1>8
  <2> QED BY <2>1, <2>2, <2>4, <1>2, <1>8 DEF WindowLedger
<1>10. \A v \in Window \ {w} : WindowLedger(u, v)
  BY <1>8 DEF WindowLedger, Unacked, TxInv
<1>11. \A v \in Window : IsFiniteSet(u.contexts[v])
  <2>1. IsFiniteSet(t.contexts[w]) /\ \A v \in Window \ {w} : IsFiniteSet(t.contexts[v])
    BY <1>1 DEF TxInv
  <2>2. IsFiniteSet(t.contexts[w] \cup {c})
    BY <2>1, FS_AddElement
  <2> QED BY <2>1, <2>2, <1>8
<1>12. \A d \in u.sent : d.psn < u.next[WindowOf(d.pkt.type)]
  <2> SUFFICES ASSUME NEW d \in u.sent PROVE d.psn < u.next[WindowOf(d.pkt.type)]
    OBVIOUS
  <2>1. CASE d = c
    BY <2>1, <1>2, <1>3, <1>6, <1>8
  <2>2. CASE d \in t.sent
    <3>1. d.psn \in Nat /\ d.psn < t.next[WindowOf(d.pkt.type)] /\ WindowOf(d.pkt.type) \in Window
      BY <2>2, <1>1, WindowOfType DEF TxInv, TxState, Context
    <3> QED BY <3>1, <1>2, <1>8
  <2> QED BY <2>1, <2>2, <1>8
<1>13. \A v \in Window : u.base[v] <= u.next[v]
  <2>1. \A v \in Window : t.base[v] \in Nat /\ t.next[v] \in Nat /\ t.base[v] <= t.next[v]
    BY <1>1 DEF TxInv, TxState
  <2> QED BY <2>1, <1>8
<1> QED BY <1>6, <1>7, <1>8, <1>9, <1>10, <1>11, <1>12, <1>13 DEF TxInv, u

\* A retransmission keeps its PSN: it goes back from the queue to outstanding.
LEMMA RetransmitPacketFacts ==
  ASSUME NEW t, TxInv(t), NEW c \in RetransmissionCandidates(t)
  PROVE  /\ Preserved(t, RetransmitPacket(t, c))
         /\ c \in Context
         /\ c.psn < t.next[WindowOf(c.pkt.type)]
<1> DEFINE w == WindowOf(c.pkt.type)
           orrc == Increment(t.orrc, c.pkt)
           u == RetransmitPacket(t, c)
<1>1. t \in TxState /\ w \in Window
  BY WindowOfType DEF TxInv
<1>2. t.base[w] \in Nat /\ t.next[w] \in Nat /\ WindowLedger(t, w)
  BY <1>1 DEF TxState, TxInv
<1>3. c \in Context
  <2>1. "request" \in Window /\ "data" \in Window
    BY DEF Window
  <2>2. t.contexts["request"] \subseteq Context /\ t.contexts["data"] \subseteq Context
    BY <1>1, <2>1 DEF TxState
  <2> QED BY <2>2 DEF RetransmissionCandidates
<1>4. c.psn \in Nat /\ c.pkt \in Packet /\ c.psn \in t.retx[w]
  BY <1>3 DEF Context, RetransmissionCandidates
<1>5. c.psn \in t.base[w] .. t.next[w] - 1
  BY <1>2, <1>4 DEF WindowLedger
<1>6. orrc \in [Window -> 0 .. CounterMod - 1]
  <2>1. \A v \in Window : t.orrc[v] \in 0 .. CounterMod - 1 /\ t.orrc[v] + 1 \in Int
    BY <1>1 DEF TxState
  <2> QED BY <2>1, CounterType DEF Increment
<1>7. u = [t EXCEPT !.outstanding[w] = @ \cup {c.psn}, !.retx[w] = @ \ {c.psn},
                    !.retried = @ \cup {c.pkt}, !.orrc = orrc]
  BY <1>1 DEF RetransmitPacket, TxState
<1> HIDE DEF u, orrc, w
<1>8. u \in TxState
  <2> DEFINE O == [t.outstanding EXCEPT ![w] = @ \cup {c.psn}]
             R == [t.retx EXCEPT ![w] = @ \ {c.psn}]
             Q == t.retried \cup {c.pkt}
  <2>1. /\ t.outstanding \in [Window -> SUBSET Nat] /\ t.retx \in [Window -> SUBSET Nat]
        /\ t.retried \in SUBSET Packet
    BY <1>1 DEF TxState
  <2>2. O \in [Window -> SUBSET Nat] /\ R \in [Window -> SUBSET Nat] /\ Q \in SUBSET Packet
    BY <2>1, <1>1, <1>4
  <2>3. u = [t EXCEPT !.outstanding = O, !.retx = R, !.retried = Q, !.orrc = orrc]
    BY <1>1, <1>7 DEF TxState
  <2> HIDE DEF O, R, Q
  <2> QED BY <2>2, <2>3, <1>1, <1>6 DEF TxState
<1>9. /\ u.next = t.next /\ u.failed = t.failed /\ u.sent = t.sent /\ u.base = t.base
      /\ u.contexts = t.contexts /\ u.window = t.window
      /\ u.outstanding[w] = t.outstanding[w] \cup {c.psn}
      /\ u.retx[w] = t.retx[w] \ {c.psn}
      /\ \A v \in Window \ {w} : /\ u.outstanding[v] = t.outstanding[v]
                                 /\ u.retx[v] = t.retx[v]
  BY <1>1, <1>7 DEF TxState
<1>10. \A v \in Window : WindowLedger(u, v)
  BY <1>1, <1>4, <1>9 DEF WindowLedger, Unacked, TxInv
<1>11. TxInv(u)
  BY <1>8, <1>9, <1>10 DEF TxInv
<1> QED BY <1>1, <1>2, <1>3, <1>5, <1>9, <1>11 DEF Preserved, TxState, u, w

\* An RNR NACK changes no window; it may fail the CHECK for its PSN only.
LEMMA HandleRnrNackFacts ==
  ASSUME NEW t, TxInv(t), NEW w \in Window, NEW psn \in Nat
  PROVE  LET u == HandleRnrNack(t, w, psn) IN
         /\ TxInv(u)
         /\ u.next = t.next /\ u.base = t.base
         /\ u.failed \subseteq t.failed \cup {"HandleRnrNack"}
<1> DEFINE nacked == {c \in t.contexts[w] : c.psn = psn}
           pkts == {c.pkt : c \in nacked}
           f == IF nacked = {} /\ psn >= t.base[w] THEN {"HandleRnrNack"} ELSE {}
           u == HandleRnrNack(t, w, psn)
<1>1. t \in TxState
  BY DEF TxInv
<1>2. pkts \in SUBSET Packet
  BY <1>1 DEF TxState, Context
<1>3. f \in SUBSET TxCheck /\ f \subseteq {"HandleRnrNack"}
  BY DEF TxCheck
<1>4. u = [t EXCEPT !.rnr = @ \cup pkts, !.failed = @ \cup f]
  BY DEF HandleRnrNack
<1> HIDE DEF u, f, pkts
<1>5. u \in TxState
  BY <1>1, <1>2, <1>3, <1>4 DEF TxState
<1>6. /\ u.next = t.next /\ u.base = t.base /\ u.sent = t.sent /\ u.contexts = t.contexts
      /\ u.window = t.window /\ u.outstanding = t.outstanding /\ u.retx = t.retx
      /\ u.failed = t.failed \cup f
  BY <1>1, <1>4 DEF TxState
<1>7. TxInv(u)
  BY <1>5, <1>6 DEF TxInv, WindowLedger, Unacked
<1> QED BY <1>3, <1>6, <1>7 DEF u

\* The initial transmitter.
LEMMA InitTxFacts == TxInv(InitTx)
<1>1. InitTx \in TxState
  BY TransmitAssumption DEF InitTx, TxState
<1>2. \A w \in Window : /\ InitTx.base[w] = 0 /\ InitTx.next[w] = 0
                        /\ InitTx.window[w] = {} /\ InitTx.outstanding[w] = {}
                        /\ InitTx.retx[w] = {} /\ InitTx.contexts[w] = {}
  BY DEF InitTx
<1>3. InitTx.sent = {}
  BY DEF InitTx
<1>4. \A w \in Window : WindowLedger(InitTx, w)
  <2>1. \A w \in Window : Unacked(InitTx, w) = {}
    BY <1>2 DEF Unacked
  <2>2. 0 .. 0 - 1 = {}
    OBVIOUS
  <2> QED BY <2>1, <2>2, <1>2 DEF WindowLedger
<1>5. \A w \in Window : IsFiniteSet(InitTx.contexts[w])
  BY <1>2, FS_EmptySet
<1> HIDE DEF InitTx
<1> QED BY <1>1, <1>2, <1>3, <1>4, <1>5 DEF TxInv

=============================================================================
