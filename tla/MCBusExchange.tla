--------------------------- MODULE MCBusExchange ---------------------------
(* Two registers, for the checks of BusExchange. *)
EXTENDS BusExchange

CONSTANTS fan, mode

MCRegisters == {fan, mode}
=============================================================================
