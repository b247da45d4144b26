----------------------------- MODULE MCSPSCQueue -----------------------------
(* A small instance of SPSCQueue for TLC.                                  *)
EXTENDS SPSCQueue

=============================================================================
