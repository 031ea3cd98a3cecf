--------------------------- MODULE MCTransferSync ---------------------------
(* Instances of TransferSync for TLC. *)
EXTENDS TransferSync, StockTransferRefinement

CONSTANTS wa, wb, out, in1, in2

MCOpening == [w \in Warehouses |-> [s \in SKUs |-> [good |-> 2, bad |-> 1]]]

\* The centre at wa assembles, the one at wb accepts.
MCWarehouseOf == [r \in Requests |-> IF r \in Outbound THEN wa ELSE wb]
=============================================================================
