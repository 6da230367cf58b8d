----------------------------- MODULE MCOptions ------------------------------
(***************************************************************************)
(* Options for TLC: addresses of two octets with values 0 to 3, of which   *)
(* 5 to 11 are multicast addresses, 8 ports, 4 interface indices, and      *)
(* buffers of less than 32 bytes.                                          *)
(***************************************************************************)
EXTENDS Options

MCPorts == {1, 2, 5, 10}
MCRates == {-1, 0, 1, 3, 9}
MCNics == {0, 1, 3, 5, 6, 7}
MCAdapters == {1, 3, 5, 6}
=============================================================================
