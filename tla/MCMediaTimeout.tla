--------------------------- MODULE MCMediaTimeout ---------------------------
(* Values for the constants of MediaTimeout that a .cfg cannot express. *)
EXTENDS MediaTimeout

\* An initial window longer than the general one, as in the code (30 s, 15 s).
PortOptions  == <<3, 1>>
PortDefaults == <<3, 2>>

\* The late ACK's SetTimeout, with a shorter initial window; and a zero.
PortChanges  == {<<2, 2>>, <<0, 0>>}
=============================================================================
