------------------------------ MODULE MCOutbox ------------------------------
(* Two overlapping accounting dispatches, one plain dispatch_outbox run and  *)
(* one operator, over two rows of which the first is an operational contract.*)
EXTENDS Outbox

CONSTANTS acc1, acc2, plain, oper

MCEvents == 1..2
MCOperational == {1}
MCWorkers == {acc1, acc2, plain}
MCConsumes == {acc1, acc2}
MCScope == [w \in MCWorkers |-> IF w = acc2 THEN {1} ELSE MCEvents]
MCOperators == {oper}

ASSUME BackoffTable == \A n \in 1..12 : Backoff(n) = IF 2^n > 60 THEN 60 ELSE 2^n
=============================================================================
