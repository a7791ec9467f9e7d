--------------------------- MODULE MCTransactions ---------------------------
(***************************************************************************)
(* Transactions over two entries, one of which, e1, every cell is derived *)
(* from, one index list and one name.                                      *)
(***************************************************************************)
EXTENDS Transactions

CONSTANTS e1, e2, i1

MCMirror == [c \in {"schema", "d_info", "accesscontrols", "idxmeta"} |-> e1]
=============================================================================
