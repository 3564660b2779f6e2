---------------------------- MODULE FalconTypes ----------------------------
(***************************************************************************)
(* Packet types, windows and transaction locations shared by the modules   *)
(* of a Falcon connection (gen1/falcon_types.h, gen1/falcon_utils.cc).     *)
(***************************************************************************)
EXTENDS Integers, Sequences, FiniteSets

CONSTANTS
  RxWindow,   \* kRxBitmapWidth, the size of the receiver's bitmaps
  Rsn         \* the request sequence numbers in use

ASSUME RxWindowAssumption == RxWindow \in Nat \ {0}
ASSUME RsnAssumption == Rsn \subseteq Nat

Window == {"request", "data"}
Location == {"initiator", "target"}

RequestTypes == {"PullRequest", "PushRequest"}
PushDataTypes == {"PushSolicitedData", "PushUnsolicitedData"}
PacketType == RequestTypes \cup PushDataTypes \cup {"PullData", "PushGrant"}

\* A packet of a connection is identified by its type and the RSN of its
\* transaction, on the side that sends it.
Packet == [type : PacketType, rsn : Rsn]
Pkt(t, r) == [type |-> t, rsn |-> r]

BelongsToRequestWindow(t) == t \in RequestTypes
WindowOf(t) == IF BelongsToRequestWindow(t) THEN "request" ELSE "data"

\* Mutant: the two directions share their transactions.
GetTransactionLocationMixed(t, incoming) == "initiator"

GetTransactionLocation(t, incoming) ==
  IF (t \in {"PullData", "PushGrant"}) = incoming THEN "initiator" ELSE "target"

OutKey(p) == <<p.rsn, GetTransactionLocation(p.type, FALSE)>>
InKey(p) == <<p.rsn, GetTransactionLocation(p.type, TRUE)>>

\* The packet types that count as outstanding requests when they are sent.
CountedTypes == RequestTypes \cup {"PushUnsolicitedData"}

\* The packet type that the arrival of a packet acknowledges implicitly.
Answers ==
  [t \in {"PullData", "PushGrant", "PushSolicitedData"} |->
     CASE t = "PullData" -> "PullRequest"
       [] t = "PushGrant" -> "PushRequest"
       [] t = "PushSolicitedData" -> "PushGrant"]

=============================================================================
