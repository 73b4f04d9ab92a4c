--------------------------- MODULE MCJtagController ---------------------------
(* Instances of JtagController for TLC.                                    *)
EXTENDS JtagController, TLC

CONSTANTS bit, bin, elf

ImageSuffix == (bit :> ".bit") @@ (bin :> ".bin") @@ (elf :> ".elf")
=============================================================================
