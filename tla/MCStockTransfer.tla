--------------------------- MODULE MCStockTransfer ---------------------------
(* Instances of StockTransfer for TLC. *)
EXTENDS StockTransfer

\* Two good units and two defective ones everywhere: a return can find units
\* of its own kind that are not its own.
MCOpening == [w \in Warehouses |-> [s \in SKUs |-> [good |-> 2, bad |-> 2]]]

\* A unit is found missing.
MCCorrections == {-1}
=============================================================================
