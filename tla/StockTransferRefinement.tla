----------------------- MODULE StockTransferRefinement -----------------------
(***************************************************************************)
(* StockTransfer implements Haulage: place is read off the status, and     *)
(* what has landed off the journal of the receiver.  It does so as long as *)
(* nobody changes the route of a transfer that has already travelled       *)
(* (RerouteAfterTrip = FALSE); see NeverOverPlan for what happens if not.  *)
(***************************************************************************)
EXTENDS StockTransfer

LandedOf(t) == [s \in SKUs |-> Landed(t, doc[t].to, s)]

PlaceOf(t) ==
    CASE doc[t].status = "SHIPPED"   -> "road"
      [] doc[t].status = "DELIVERED" -> "there"
      [] doc[t].status = "CLOSED"    -> IF LandedOf(t) = Nothing THEN "home" ELSE "there"
      [] OTHER                       -> "home"

Packed      == [t \in Transfers |-> doc[t].items]
Whereabouts == [t \in Transfers |-> PlaceOf(t)]
Landings    == [t \in Transfers |-> LandedOf(t)]

H == INSTANCE Haulage WITH
        Loads    <- Transfers,
        Goods    <- SKUs,
        MaxUnits <- MaxQty,
        load     <- Packed,
        place    <- Whereabouts,
        landed   <- Landings

\* Every step of a transfer, whichever handler takes it, packs,
\* sends off, lands or recalls the load, or changes nothing a counter sees.
HaulageSpec == H!Spec
=============================================================================
