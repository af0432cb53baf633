-------------------------- MODULE MCTenantConsumer --------------------------
EXTENDS TenantConsumer, TLC

CONSTANTS i1, i2, i3, m1

MCMsgOf       == [i \in Items |-> m1]
MCRetryHeader == [i \in Items |-> 0]

(* No item is told from another in the safety run.                            *)
MCSymmetry == Permutations(Items)
=============================================================================
