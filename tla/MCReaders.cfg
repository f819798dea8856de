CONSTANTS
  MaxTokens = 11
  Signatures = {"FACP", "APIC"}
  Types = {0, 1}
  Lengths = {8, 12}
  MaxEntries = 2
  MaxRecords = 3
SPECIFICATION Spec
INVARIANTS ParsedIsRead FormatIsParsed
PROPERTIES ParserEnds IOApicFound
CHECK_DEADLOCK FALSE
