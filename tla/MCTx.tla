--------------------------------- MODULE MCTx ---------------------------------
(* Transactional publishing for TLC: operation slots are interchangeable. *)
EXTENDS TxProtocol, TLC

Symmetry == Permutations(Ops)
=============================================================================
