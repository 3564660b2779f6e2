--------------------------- MODULE ReceiveWindow ---------------------------
(***************************************************************************)
(* The receiver side of gen1/packet_reliability_manager.cc, and the ACKs,  *)
(* EACKs and NACKs that gen1/ack_coalescing_engine.cc makes from it.       *)
(* A bitmap is a set of PSNs.                                              *)
(***************************************************************************)
EXTENDS FalconTypes, FiniteSetsExt

CONSTANT EackTriggerByHole   \* eack_trigger_by_hole_in_rx_bitmap_

ASSUME ReceiveAssumption == EackTriggerByHole \in BOOLEAN

RxState ==
  [base : [Window -> Nat],
   receive : [Window -> SUBSET Nat],   \* receive_window
   ack : [Window -> SUBSET Nat],       \* ack_window
   has_oow_drop : [Window -> BOOLEAN],
   ack_due : BOOLEAN]                  \* an ACK is due: the coalescing timer runs

InitRx ==
  [base |-> [w \in Window |-> 0], receive |-> [w \in Window |-> {}],
   ack |-> [w \in Window |-> {}], has_oow_drop |-> [w \in Window |-> FALSE],
   ack_due |-> FALSE]

\* Mutant: the bitmap is not looked at.
IsBelowWindow(r, w, psn) == psn < r.base[w]

\* The sliding window checks of HandleIncomingPacket.
IsDuplicate(r, w, psn) == psn < r.base[w] \/ psn \in r.receive[w]
IsOutOfWindow(r, w, psn) == psn >= r.base[w] + RxWindow

GenerateAckOrUpdateCoalescingState(r) == [r EXCEPT !.ack_due = TRUE]

\* The base moves up to the oldest PSN that is not acknowledged, and the two
\* bitmaps are shifted with it.
UpdateReceiveAckBitmap(r, w, psn) ==
  LET acked == r.ack[w] \cup {psn}
      base == IF psn = r.base[w]
              THEN Min({n \in psn .. psn + RxWindow : n \notin acked})
              ELSE r.base[w]
  IN  [r EXCEPT !.base[w] = base,
                !.ack[w] = {n \in acked : n >= base},
                !.receive[w] = {n \in @ : n >= base}]

\* Mutant: push data is acknowledged before the ULP has accepted it.
AcknowledgePushDataAtOnce(r, type, psn) ==
  LET w == WindowOf(type) IN
  UpdateReceiveAckBitmap(
    [GenerateAckOrUpdateCoalescingState(r) EXCEPT !.receive[w] = @ \cup {psn}], w, psn)

\* HandleIncomingPacket for a new packet of the window: everything but push
\* data is acknowledged at once, push data when the ULP has accepted it.
AcceptPacket(r, type, psn) ==
  LET w == WindowOf(type)
      r1 == [GenerateAckOrUpdateCoalescingState(r) EXCEPT !.receive[w] = @ \cup {psn}]
  IN  IF type \in PushDataTypes THEN r1 ELSE UpdateReceiveAckBitmap(r1, w, psn)

\* FirstHoleIndex() >= 0
HasHole(r, w) == \E n \in r.receive[w] : \E m \in r.base[w] .. n : m \notin r.receive[w]

\* CreateExplicitAckOrEack.
IsEack(r) ==
  \/ \E w \in Window : r.ack[w] # {} \/ r.has_oow_drop[w]
  \/ IF EackTriggerByHole THEN HasHole(r, "data") ELSE r.receive["data"] # {}

\* Mutant: the bitmap of an EACK begins after the base PSN.
RelativeOffByOne(S, base) == {n - base - 1 : n \in S}

Relative(S, base) == {n - base : n \in S}

\* Mutant: an EACK acknowledges what the ULP has not accepted yet.
AckOfReceived(r) ==
  [kind |-> "ack", bpsn |-> r.base, eack |-> IsEack(r), own |-> r.has_oow_drop,
   ack |-> [w \in Window |-> Relative(r.receive[w], r.base[w])],
   received |-> Relative(r.receive["data"], r.base["data"])]

Ack(r) ==
  [kind |-> "ack", bpsn |-> r.base, eack |-> IsEack(r), own |-> r.has_oow_drop,
   ack |-> [w \in Window |-> Relative(r.ack[w], r.base[w])],
   received |-> Relative(r.receive["data"], r.base["data"])]

Nack(r, w, psn, code) ==
  [kind |-> "nack", bpsn |-> r.base, own |-> r.has_oow_drop,
   window |-> w, psn |-> psn, code |-> code]

ClearOowDrops(r) == [r EXCEPT !.has_oow_drop = [w \in Window |-> FALSE]]

\* The receivers after PiggybackAck.  It stops the coalescing timer if the base
\* PSNs that the packet carries account for the coalescing counter; the counter
\* is left out.
PiggybackAck(r) ==
  IF \E w \in Window : r.has_oow_drop[w] THEN {r} ELSE {r, [r EXCEPT !.ack_due = FALSE]}

\* The receivers after TransmitNACK.
TransmitNACK(r) == {ClearOowDrops(r1) : r1 \in PiggybackAck(r)}

\* The receiver after TransmitACK.  The OWN flags are cleared when an EACK
\* carries them; an ACK that is not an EACK has none to carry.
TransmitACK(r) == [ClearOowDrops(r) EXCEPT !.ack_due = FALSE]

=============================================================================
