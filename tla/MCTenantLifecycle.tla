------------------------- MODULE MCTenantLifecycle -------------------------
EXTENDS TenantLifecycle

CONSTANTS t1, t2, c1, c2, u1, u2, d1

(* One tenant that two updates and a delete fight over, and another that is   *)
(* only created. u1 asks for more than the manager's maximum; c2's body has   *)
(* no workers.                                                                *)
MCKind == [r \in Requests |->
  IF r \in {c1, c2} THEN "create" ELSE IF r \in {u1, u2} THEN "update" ELSE "delete"]
MCTarget == [r \in Requests |-> IF r = c2 THEN t2 ELSE t1]
MCAsk == [r \in Requests |->
  CASE r = c1 -> 2 [] r = u1 -> 4 [] r = u2 -> 1 [] OTHER -> 0]
=============================================================================
