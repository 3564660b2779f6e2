------------------------- MODULE MCFalconConnection -------------------------
(* The instances of FalconConnection that TLC checks.                        *)
EXTENDS FalconConnection, TLC

CONSTANTS a, b   \* the two hosts

PullThenPush == (a :> <<"Pull", "PushUnsolicited">>) @@ (b :> <<>>)
SolicitedPush == (a :> <<"PushSolicited">>) @@ (b :> <<>>)
TwoPushes == (a :> <<"PushUnsolicited", "PushUnsolicited">>) @@ (b :> <<>>)
TwoPulls == (a :> <<"Pull", "Pull">>) @@ (b :> <<>>)
BothWays == (a :> <<"PushUnsolicited">>) @@ (b :> <<"Pull">>)
OnePull == (a :> <<"Pull">>) @@ (b :> <<>>)

=============================================================================
