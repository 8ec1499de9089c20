------------------------- MODULE MCDurableSlotLedger -------------------------
(* Small instances of DurableSlotLedger for TLC. *)
EXTENDS DurableSlotLedger

CONSTANT MaxNow   \* how often the clock moves

ClockBound == now <= MaxNow
=============================================================================
