---------------------------- MODULE MCTxnSession ----------------------------
(* Small instances of TxnSession for TLC.                                   *)
EXTENDS TxnSession, TLC

(* Connections, statements, handles and names are interchangeable; only runs *)
(* that check invariants use it.                                            *)
Symmetry == Permutations(Conns) \cup Permutations(Stmts)
              \cup Permutations(Handles) \cup Permutations(Points)
=============================================================================
