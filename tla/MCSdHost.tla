------------------------------ MODULE MCSdHost ------------------------------
(* SdHost with the bounds that SdHost*.cfg give it.                        *)
EXTENDS SdHost
=============================================================================
