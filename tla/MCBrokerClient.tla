--------------------------- MODULE MCBrokerClient ---------------------------
(***************************************************************************)
(* A cycle that places an order, the pre-close cancel of another one and   *)
(* the open order inquiry of the poll share the rate limiter.              *)
(***************************************************************************)
EXTENDS BrokerClient

OneSubmit == {"cycle"}
OneCancel == {"cancel"}
OneInquiry == {"poll"}
AllCalls == Operations \X Attempts \X Legs
=============================================================================
