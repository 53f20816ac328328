--------------------------- MODULE MCSocketBuffer ---------------------------
(* SocketBuffer with two bytes and separators of one to three of them.     *)
EXTENDS SocketBuffer

CONSTANTS a, b

MCSeps == {<<a>>, <<a, b>>, <<a, b, b>>}
MCStarOne == <<a, b>>
=============================================================================
