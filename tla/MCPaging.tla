------------------------------ MODULE MCPaging ------------------------------
(* Tables of four entries.  As with 512 entries, the APIC's page (0xFEE00000: *)
(* indices 0, 3, 503, 0) has its level 2 index in the upper half of a         *)
(* lower-half table, and the ACPI page has not.  The heap's pages share their *)
(* level 4 entry and differ at level 1, then at level 2.                      *)
EXTENDS Paging

MCHeapPages == <<<<2, 0, 1, 0>>, <<2, 0, 1, 3>>, <<2, 0, 2, 0>>>>
MCAcpiPage == <<0, 0, 0, 1>>
MCLapicPage == <<0, 1, 3, 0>>
=============================================================================
