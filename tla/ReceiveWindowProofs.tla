------------------------ MODULE ReceiveWindowProofs ------------------------
(* What the handlers of the receiver preserve, for every state.              *)
EXTENDS ReceiveWindow, WellFoundedInduction, TLAPS

\* The receiver r of a peer whose next PSNs are next: it holds PSNs of its window
\* that were sent.
RxInv(r, next) ==
  /\ r \in RxState
  /\ \A w \in Window :
       /\ r.base[w] <= next[w]
       /\ \A n \in r.receive[w] \cup r.ack[w] :
            r.base[w] <= n /\ n < next[w] /\ n < r.base[w] + RxWindow

\* A non-empty set of naturals has a minimum.
LEMMA MinFacts ==
  ASSUME NEW S \in SUBSET Nat, S # {}
  PROVE  Min(S) \in S /\ \A y \in S : Min(S) <= y
<1> DEFINE R == OpToRel(<, Nat)
<1>1. \A x, y \in Nat : <<x, y>> \in R <=> x < y
  BY DEF OpToRel
<1>2. IsWellFoundedOn(R, Nat)
  BY NatLessThanWellFounded
<1> HIDE DEF R
<1>3. PICK x \in S : \A y \in S : ~(<<y, x>> \in R)
  <2>1. S \subseteq Nat
    OBVIOUS
  <2> QED BY <1>2, <2>1, WFMin, Zenon
<1>4. \A y \in S : x <= y
  <2>1. \A y \in S : y \in Nat /\ x \in Nat /\ ~(y < x)
    BY <1>1, <1>3, Zenon
  <2> QED BY <2>1
<1>5. \E z \in S : \A y \in S : z <= y
  BY <1>4
<1> QED BY <1>5 DEF Min

\* The initial receiver.
LEMMA InitRxFacts ==
  ASSUME NEW next \in [Window -> Nat]
  PROVE  RxInv(InitRx, next)
BY DEF RxInv, InitRx, RxState

\* A later state of the peer.
LEMMA RxInvMonotone ==
  ASSUME NEW r, NEW next \in [Window -> Nat], NEW later \in [Window -> Nat],
         RxInv(r, next), \A w \in Window : next[w] <= later[w]
  PROVE  RxInv(r, later)
<1>1. r.base \in [Window -> Nat] /\ r.receive \in [Window -> SUBSET Nat]
      /\ r.ack \in [Window -> SUBSET Nat]
  BY DEF RxInv, RxState
<1>2. \A w \in Window : r.base[w] <= later[w]
  BY <1>1 DEF RxInv
<1>3. ASSUME NEW w \in Window, NEW n \in r.receive[w] \cup r.ack[w]
      PROVE  r.base[w] <= n /\ n < later[w] /\ n < r.base[w] + RxWindow
  <2>1. n \in Nat /\ next[w] \in Nat /\ later[w] \in Nat
    BY <1>1
  <2> QED BY <2>1 DEF RxInv
<1> QED BY <1>2, <1>3 DEF RxInv

\* What an event does with a receiver whose peer is at next.
RxPreserved(r, u, next) ==
  /\ RxInv(u, next)
  /\ \A w \in Window : r.base[w] <= u.base[w]

\* The flags of the coalescing engine are not about the windows.
LEMMA SameWindows ==
  ASSUME NEW r, NEW next, RxInv(r, next), NEW u \in RxState,
         u.base = r.base, u.receive = r.receive, u.ack = r.ack
  PROVE  RxPreserved(r, u, next)
BY DEF RxPreserved, RxInv, RxState

\* Two handlers, one after the other.
LEMMA RxTransitive ==
  ASSUME NEW r \in RxState, NEW u, NEW v, NEW next,
         RxPreserved(r, u, next), RxPreserved(u, v, next)
  PROVE  RxPreserved(r, v, next)
<1>1. RxInv(v, next) /\ u \in RxState /\ v \in RxState
  BY DEF RxPreserved, RxInv
<1>2. ASSUME NEW w \in Window
      PROVE  r.base[w] <= v.base[w]
  <2>1. r.base[w] \in Nat /\ u.base[w] \in Nat /\ v.base[w] \in Nat
    BY <1>1 DEF RxState
  <2>2. r.base[w] <= u.base[w] /\ u.base[w] <= v.base[w]
    BY DEF RxPreserved
  <2> QED BY <2>1, <2>2
<1> QED BY <1>1, <1>2 DEF RxPreserved

\* The handlers of the coalescing engine.
LEMMA CoalescingFacts ==
  ASSUME NEW r, NEW next, RxInv(r, next)
  PROVE  /\ RxPreserved(r, r, next)
         /\ RxPreserved(r, GenerateAckOrUpdateCoalescingState(r), next)
         /\ RxPreserved(r, TransmitACK(r), next)
         /\ \A u \in PiggybackAck(r) \cup TransmitNACK(r) : RxPreserved(r, u, next)
         /\ \A w \in Window :
              RxPreserved(r, [GenerateAckOrUpdateCoalescingState(r)
                                EXCEPT !.has_oow_drop[w] = TRUE], next)
<1>1. r \in RxState
  BY DEF RxInv
<1>2. RxPreserved(r, r, next)
  BY <1>1, SameWindows
<1>3. RxPreserved(r, GenerateAckOrUpdateCoalescingState(r), next)
  BY <1>1, SameWindows DEF GenerateAckOrUpdateCoalescingState, RxState
<1>4. RxPreserved(r, TransmitACK(r), next)
  BY <1>1, SameWindows DEF TransmitACK, ClearOowDrops, RxState
<1>5. \A u \in PiggybackAck(r) : /\ u \in RxState
                                 /\ u.base = r.base /\ u.receive = r.receive /\ u.ack = r.ack
  BY <1>1 DEF PiggybackAck, RxState
<1>6. \A u \in PiggybackAck(r) : RxPreserved(r, u, next)
  BY <1>5, SameWindows
<1>7. \A u \in TransmitNACK(r) : RxPreserved(r, u, next)
  <2>1. \A u \in PiggybackAck(r) :
          /\ ClearOowDrops(u) \in RxState
          /\ ClearOowDrops(u).base = r.base /\ ClearOowDrops(u).receive = r.receive
          /\ ClearOowDrops(u).ack = r.ack
    BY <1>5 DEF ClearOowDrops, RxState
  <2>2. \A u \in PiggybackAck(r) : RxPreserved(r, ClearOowDrops(u), next)
    BY <2>1, SameWindows
  <2> QED BY <2>2 DEF TransmitNACK
<1>8. \A w \in Window : RxPreserved(r, [GenerateAckOrUpdateCoalescingState(r)
                                          EXCEPT !.has_oow_drop[w] = TRUE], next)
  <2> SUFFICES ASSUME NEW w \in Window
               PROVE  RxPreserved(r, [GenerateAckOrUpdateCoalescingState(r)
                                        EXCEPT !.has_oow_drop[w] = TRUE], next)
    OBVIOUS
  <2> DEFINE u == [GenerateAckOrUpdateCoalescingState(r) EXCEPT !.has_oow_drop[w] = TRUE]
  <2>1. u \in RxState /\ u.base = r.base /\ u.receive = r.receive /\ u.ack = r.ack
    BY <1>1 DEF GenerateAckOrUpdateCoalescingState, RxState
  <2> HIDE DEF u
  <2>2. RxPreserved(r, u, next)
    BY <2>1, SameWindows
  <2> QED BY <2>2 DEF u
<1> QED BY <1>2, <1>3, <1>4, <1>6, <1>7, <1>8

\* The base of the receiver moves to the oldest PSN that is not acknowledged, and
\* the bitmaps keep only PSNs of the new window.
LEMMA UpdateReceiveAckBitmapFacts ==
  ASSUME NEW next \in [Window -> Nat], NEW r, RxInv(r, next), NEW w \in Window,
         NEW psn \in Nat, psn < next[w], psn < r.base[w] + RxWindow
  PROVE  RxPreserved(r, UpdateReceiveAckBitmap(r, w, psn), next)
<1> DEFINE acked == r.ack[w] \cup {psn}
           S == {n \in psn .. psn + RxWindow : n \notin acked}
           base == IF psn = r.base[w] THEN Min(S) ELSE r.base[w]
           u == UpdateReceiveAckBitmap(r, w, psn)
<1>1. r \in RxState
  BY DEF RxInv
<1>2. r.base[w] \in Nat /\ r.ack[w] \in SUBSET Nat /\ r.receive[w] \in SUBSET Nat
      /\ next[w] \in Nat /\ RxWindow \in Nat
  BY <1>1, RxWindowAssumption DEF RxState
<1>3. \A n \in acked : n \in Nat /\ n < next[w] /\ n < r.base[w] + RxWindow
  BY <1>2 DEF RxInv
<1>4. base \in Nat /\ r.base[w] <= base /\ base <= next[w]
  <2>1. CASE psn = r.base[w]
    <3>1. psn + RxWindow \in S /\ S \in SUBSET Nat
      BY <2>1, <1>2, <1>3
    <3>2. Min(S) \in S /\ \A y \in S : Min(S) <= y
      BY <3>1, MinFacts
    <3> DEFINE m == Min(S)
    <3>3. m \in psn .. psn + RxWindow /\ m \notin acked
      BY <3>2
    <3>4. m - 1 \in acked
      <4>1. m # psn /\ m \in Nat /\ m - 1 \in psn .. psn + RxWindow
        BY <3>3, <1>2
      <4>2. m - 1 \notin S
        <5>1. m - 1 \in S => m <= m - 1
          BY <3>2
        <5> HIDE DEF m, S
        <5> QED BY <4>1, <5>1
      <4> QED BY <4>1, <4>2
    <3>5. m - 1 < next[w] /\ m \in Nat
      BY <3>3, <3>4, <1>2, <1>3
    <3> HIDE DEF m
    <3>6. base = m
      BY <2>1 DEF m
    <3> QED BY <3>3, <3>5, <3>6, <2>1, <1>2
  <2>2. CASE psn # r.base[w]
    BY <2>2, <1>2 DEF RxInv
  <2> QED BY <2>1, <2>2
<1> HIDE DEF base
<1> DEFINE ack == {n \in acked : n >= base}
           receive == {n \in r.receive[w] : n >= base}
<1>5. u = [r EXCEPT !.base[w] = base, !.ack[w] = ack, !.receive[w] = receive]
  BY <1>1 DEF UpdateReceiveAckBitmap, base, RxState
<1>6. ack \in SUBSET Nat /\ receive \in SUBSET Nat
  BY <1>2
<1>7. \A n \in ack \cup receive : base <= n /\ n < next[w] /\ n < base + RxWindow
  BY <1>2, <1>3, <1>4 DEF RxInv
<1> HIDE DEF ack, receive, u
<1>8. u \in RxState
  BY <1>1, <1>4, <1>5, <1>6 DEF RxState
<1>9. /\ u.base[w] = base /\ u.ack[w] = ack /\ u.receive[w] = receive
      /\ \A v \in Window \ {w} : /\ u.base[v] = r.base[v]
                                 /\ u.ack[v] = r.ack[v]
                                 /\ u.receive[v] = r.receive[v]
  BY <1>1, <1>5 DEF RxState
<1>10. \A v \in Window : r.base[v] <= u.base[v]
  BY <1>1, <1>4, <1>9 DEF RxState
<1> QED BY <1>4, <1>7, <1>8, <1>9, <1>10 DEF RxPreserved, RxInv, u

\* A new packet of the window is accepted.
LEMMA AcceptPacketFacts ==
  ASSUME NEW next \in [Window -> Nat], NEW r, RxInv(r, next), NEW type, NEW psn \in Nat,
         psn < next[WindowOf(type)],
         ~IsDuplicate(r, WindowOf(type), psn), ~IsOutOfWindow(r, WindowOf(type), psn)
  PROVE  /\ RxPreserved(r, AcceptPacket(r, type, psn), next)
         /\ psn < r.base[WindowOf(type)] + RxWindow
<1> DEFINE w == WindowOf(type)
           r1 == [GenerateAckOrUpdateCoalescingState(r) EXCEPT !.receive[w] = @ \cup {psn}]
<1>1. r \in RxState /\ w \in Window /\ RxWindow \in Nat
  BY RxWindowAssumption DEF RxInv, WindowOf, Window
<1>2. r.base[w] \in Nat
  BY <1>1 DEF RxState
<1>3. r.base[w] <= psn /\ psn < r.base[w] + RxWindow
  BY <1>1, <1>2 DEF IsDuplicate, IsOutOfWindow
<1>4. AcceptPacket(r, type, psn) = r1
      \/ AcceptPacket(r, type, psn) = UpdateReceiveAckBitmap(r1, w, psn)
  BY DEF AcceptPacket
<1>5. psn < next[w]
  OBVIOUS
<1>6. r1 \in RxState /\ r1.base = r.base /\ r1.ack = r.ack
      /\ r1.receive[w] = r.receive[w] \cup {psn}
      /\ \A v \in Window \ {w} : r1.receive[v] = r.receive[v]
  BY <1>1 DEF GenerateAckOrUpdateCoalescingState, RxState
<1> HIDE DEF w, r1
<1>7. RxInv(r1, next)
  BY <1>3, <1>5, <1>6 DEF RxInv
<1>8. \A v \in Window : r.base[v] <= r1.base[v]
  BY <1>1, <1>6 DEF RxState
<1>9. RxPreserved(r, r1, next)
  BY <1>7, <1>8 DEF RxPreserved
<1>10. RxPreserved(r, UpdateReceiveAckBitmap(r1, w, psn), next)
  <2>1. RxPreserved(r1, UpdateReceiveAckBitmap(r1, w, psn), next)
    BY <1>1, <1>3, <1>5, <1>6, <1>7, UpdateReceiveAckBitmapFacts
  <2> QED BY <2>1, <1>6 DEF RxPreserved
<1> QED BY <1>3, <1>4, <1>9, <1>10 DEF w

=============================================================================
