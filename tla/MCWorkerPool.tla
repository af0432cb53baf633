---------------------------- MODULE MCWorkerPool ----------------------------
EXTENDS WorkerPool

CONSTANTS i1, i2, i3, m1

(* The items deliver one message again and again; i3 came with a used-up      *)
(* retry count in its x-retry-count header.                                   *)
MCMsgOf       == [i \in Items |-> m1]
MCRetryHeader == [i \in Items |-> IF i = i3 THEN MaxRetry ELSE 0]
=============================================================================
