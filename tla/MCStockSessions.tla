--------------------------- MODULE MCStockSessions ---------------------------
(* Instances of StockSessions for TLC. *)
EXTENDS StockSessions

CONSTANTS ship, gone, rec, recd, s1, s2, p1, p2

\* One line per place: a shipment's to send, a receipt's to expect; the second
\* line of a receipt already says what has come.
MCLines == [d \in Docs |-> [k \in {0} \X Places |->
    [sku      |-> IF k[2] = p1 THEN s1 ELSE s2,
     expected |-> IF d \in Shipments THEN 0 ELSE 1,
     actual   |-> IF d \in Shipments \/ k[2] # p1 THEN 1 ELSE 0,
     bad      |-> 0]]]

MCOpening == [s \in SKUs |-> [part \in Balances |-> 1]]
=============================================================================
