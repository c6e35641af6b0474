------------------------------ MODULE MCSdCard ------------------------------
(* SdCard with the bounds that SdCard*.cfg give it.                         *)
EXTENDS SdCard
===============================================================================
