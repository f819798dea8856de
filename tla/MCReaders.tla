----------------------------- MODULE MCReaders ------------------------------
(***************************************************************************)
(* The readers of data the kernel does not make itself: escape sequences   *)
(* and the firmware's tables.  They do not interact; each is checked while *)
(* the other has ended.                                                    *)
(***************************************************************************)
EXTENDS EscapeParser, AcpiTables

NoTokens == /\ eaten = <<>> /\ look = End /\ place = "tokens"
            /\ open = <<>> /\ attrs = <<>> /\ ttes = <<>> /\ outcome = "Ok"
NoTables == /\ rsdt = <<>> /\ records = <<>>
            /\ beyond = [k \in 1 .. 2 |-> [entry_type |-> IOApic, length |-> 0]]
            /\ walk = [NoTable EXCEPT !.at = "panic"]

Init == (ParserInit /\ NoTables) \/ (AcpiInit /\ NoTokens)
Next == \/ ParserNext /\ UNCHANGED acpi
        \/ AcpiNext /\ UNCHANGED parser

vars == <<parser, acpi>>

\* Both are loops that nothing stops.
Spec == Init /\ [][Next]_vars /\ WF_vars(Next)
=============================================================================
