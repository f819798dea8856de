----------------------------- MODULE AcpiTables -----------------------------
(***************************************************************************)
(* Looking up the I/O APIC in the firmware's tables when the kernel boots: *)
(* the table "APIC" in the RSDT, then the first record of type 1 in that   *)
(* table (kernel/src/arch/x86_64/acpi.rs, interrupts/apic.rs).             *)
(*                                                                         *)
(* The tables are the firmware's, any the constants allow.  Behind the     *)
(* records lies other memory, which the walk takes for records when no     *)
(* record has the type it looks for.                                       *)
(***************************************************************************)
EXTENDS Integers, Sequences, SequencesExt, FiniteSetsExt

CONSTANTS Signatures, Types, Lengths, \* of tables and of records
          MaxEntries, MaxRecords      \* bounds: entries of the RSDT, records

\* Bound on i: nth(i) is behind the records, or stays at one that is 0 bytes long.
MaxLook == MaxRecords + 4

MADT == "APIC"
IOApic == 1        \* the record type get_io_apic_addr asks for
HeaderSize == 44   \* size_of::<MADT>()

ASSUME AcpiAssumption == /\ MADT \in Signatures /\ IOApic \in Types
                         /\ Lengths \subseteq Nat \ {0}
                         /\ MaxEntries \in Nat /\ MaxRecords \in Nat

Record == [entry_type : Types, length : Lengths]

\* Any bytes: also a record that says it is 0 bytes long.
Beyond == [entry_type : Types, length : Lengths \cup {0}]

VARIABLES rsdt,     \* signatures of the tables the RSDT lists
          records,  \* the records of the MADT
          beyond,   \* what follows them in memory
          walk      \* where the lookup is: i, the offset last seen, the result

acpi == <<rsdt, records, beyond, walk>>

NoTable == [at |-> "rsdt", i |-> 0, offset |-> 0, found |-> 0]

AcpiInit ==
  /\ rsdt \in SeqOf(Signatures, MaxEntries)
  /\ records \in SeqOf(Record, MaxRecords)
  /\ beyond \in [1 .. 2 -> Beyond]
  /\ walk = NoTable

Memory == records \o beyond
OffsetOf(k) == HeaderSize + FoldLeft(LAMBDA n, r : n + r.length, 0, SubSeq(Memory, 1, k - 1))
TableLen == OffsetOf(Len(records) + 1)

\* get_entry_of_signatrue: an entry of the RSDT at a time.
FindTable ==
  /\ walk.at = "rsdt" /\ walk.i < Len(rsdt)
  /\ walk' = IF rsdt[walk.i + 1] = MADT
             THEN [walk EXCEPT !.at = "madt", !.i = 0]
             ELSE [walk EXCEPT !.i = @ + 1]
  /\ UNCHANGED <<rsdt, records, beyond>>

\* unwrap() of None.
NoSuchTable ==
  /\ walk.at = "rsdt" /\ walk.i = Len(rsdt)
  /\ walk' = [walk EXCEPT !.at = "panic"]
  /\ UNCHANGED <<rsdt, records, beyond>>

\* From a record to the next by its length.  The walk ends before it could leave
\* the two records behind the table.
Follow(k) == IF Memory[k].length = 0 \/ k = Len(Memory) THEN k ELSE k + 1

\* How many records nth(n) goes on after the second: 1 .. n - 1 in the code, so
\* that n = 1 and n = 2 give the same; and a mutant that skips the second.
SkipOne(n) == n
Skips(n) == IF n < 2 THEN 0 ELSE n - 2

\* The record nth(n) returns.
nth(n) ==
  IF n = 0 THEN 1
  ELSE FoldLeft(LAMBDA k, step : Follow(k), Follow(1), [step \in 1 .. Skips(n) |-> step])

\* An iteration of get_record_of_type.
FindRecord ==
  /\ walk.at = "madt" /\ walk.offset <= TableLen
  /\ walk' = LET k == nth(walk.i)
             IN IF Memory[k].entry_type = IOApic
                THEN [walk EXCEPT !.at = "found", !.found = k]
                ELSE [walk EXCEPT !.i = Min({@ + 1, MaxLook}), !.offset = OffsetOf(k)]
  /\ UNCHANGED <<rsdt, records, beyond>>

\* The loop ends, and get_io_apic_addr unwraps None.
NoSuchRecord ==
  /\ walk.at = "madt" /\ walk.offset > TableLen
  /\ walk' = [walk EXCEPT !.at = "panic"]
  /\ UNCHANGED <<rsdt, records, beyond>>

AcpiNext == FindTable \/ NoSuchTable \/ FindRecord \/ NoSuchRecord
-----------------------------------------------------------------------------
IOApics == {k \in DOMAIN records : records[k].entry_type = IOApic}

\* The walk finds the first record of its type, if the firmware's tables have
\* one: nth visits the second record twice and leaves none out, and neither the
\* end of the loop, which looks at the offset of the record before, nor the
\* memory behind the table comes first.  If they have none, get_record_of_type
\* may take the memory behind the table for a record, or never end.
IOApicFound ==
  Contains(rsdt, MADT) /\ IOApics # {} ~>
    walk.at = "found" /\ walk.found \in IOApics /\ \A k \in IOApics : walk.found <= k
=============================================================================
