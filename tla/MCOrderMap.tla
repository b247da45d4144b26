------------------------------ MODULE MCOrderMap ------------------------------
(* Small instances of OrderMap for TLC.                                    *)
EXTENDS OrderMap

=============================================================================
