------------------------- MODULE TransactionService -------------------------
(***************************************************************************)
(* What a Falcon connection promises to the two ULPs: a transaction that   *)
(* was initiated is executed by the ULP of the peer at most once, and it   *)
(* is completed at its initiator at most once and after its execution.     *)
(***************************************************************************)
EXTENDS Integers, Sequences

CONSTANTS Host, Ops, Rsn

VARIABLES
  next_rsn,   \* next_rsn[h]: how many transactions h has initiated
  execs,      \* execs[h][r]: how often transaction r of h was executed
  dones       \* dones[h][r]: how often it was completed

service == <<next_rsn, execs, dones>>

Init ==
  /\ next_rsn = [h \in Host |-> 0]
  /\ execs = [h \in Host |-> [r \in Rsn |-> 0]]
  /\ dones = [h \in Host |-> [r \in Rsn |-> 0]]

Initiate(h) ==
  /\ next_rsn[h] < Len(Ops[h])
  /\ next_rsn' = [next_rsn EXCEPT ![h] = @ + 1]
  /\ UNCHANGED <<execs, dones>>

Execute(h, r) ==
  /\ r < next_rsn[h] /\ execs[h][r] = 0
  /\ execs' = [execs EXCEPT ![h][r] = 1]
  /\ UNCHANGED <<next_rsn, dones>>

Complete(h, r) ==
  /\ execs[h][r] = 1 /\ dones[h][r] = 0
  /\ dones' = [dones EXCEPT ![h][r] = 1]
  /\ UNCHANGED <<next_rsn, execs>>

Next == \E h \in Host : Initiate(h) \/ \E r \in Rsn : Execute(h, r) \/ Complete(h, r)

Spec == Init /\ [][Next]_service

=============================================================================
