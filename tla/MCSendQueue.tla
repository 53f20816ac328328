---------------------------- MODULE MCSendQueue ----------------------------
(* SendQueue with one or two descriptors to pass.                          *)
EXTENDS SendQueue

CONSTANTS c1, c2
=============================================================================
