------------------------------ MODULE MmuMapMC -------------------------------
(* Values for the constants of MmuMap in its TLC runs: pages of two bytes, *)
(* an address space of eight pages, one entry for low memory.              *)
EXTENDS MmuMap

MCEntry(v, l, a) == [virt |-> v, phys |-> v, len |-> l, attr |-> a]

\* Page zero, video memory, the kernel's and the application's memory.
MCStatic == <<MCEntry(0, 2, "os"), MCEntry(2, 2, "io"), MCEntry(4, 2, "os"),
              MCEntry(6, 4, "application")>>

MCBehind == MCEntry(8, 0, "os")

MCSegments == [usable : {TRUE}, addr : {0, 4, 8, 9, 10, 16}, len : {2, 4, 6}]
                \cup [usable : {FALSE}, addr : {8}, len : {4}]

MCDevices == [addr : Addresses, len : {1, 2, 4, 6}]

ASSUME MCBoardIsSane == SaneBoard
=============================================================================
