--------------------------- MODULE MCProvisioning ---------------------------
(***************************************************************************)
(* Provisioning for TLC, with three bits for int32, six for int and        *)
(* Duration, and three nanoseconds to the millisecond. Of the TTLs, 5      *)
(* becomes negative in int32 and 9 comes round to 1; as Durations -20      *)
(* wraps to one above 0, -21 to one below a millisecond, 20 to a negative  *)
(* one. Of the maxima, -1 and 3 make a capacity that make refuses, -4      *)
(* wraps to one that it takes.                                             *)
(***************************************************************************)
EXTENDS Provisioning

Env(w, max, ttl) == [secret |-> TRUE, expiryParses |-> TRUE, workers |-> w, max |-> max, ttl |-> ttl]

MCEnvs ==
  { Env(Unset, Unset, Unset), Env(Garbage, 0, 0), Env(2, 3, 5), Env(1, -1, 9),
    Env(Unset, -4, -20), Env(Unset, 1, -21), Env(Unset, 1, 20), Env(Unset, 1, -1),
    [Env(Unset, Unset, Unset) EXCEPT !.secret = FALSE],
    [Env(Unset, Unset, Unset) EXCEPT !.expiryParses = FALSE] }
=============================================================================
