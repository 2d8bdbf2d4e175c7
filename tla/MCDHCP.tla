------------------------------- MODULE MCDHCP -------------------------------
(* Two clients and a pool with an address for each.                        *)
EXTENDS DHCP, TLC

CONSTANTS c1, c2
=============================================================================
