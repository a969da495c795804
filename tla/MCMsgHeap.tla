------------------------------ MODULE MCMsgHeap ------------------------------
(* One goroutine per operation, two that wait for different messages. *)
EXTENDS MsgHeap
CONSTANTS put, must, tail, pop, popd, ma, mb

MCWant == [p \in Popper |-> IF p = pop THEN {ma} ELSE {mb}]
==============================================================================
