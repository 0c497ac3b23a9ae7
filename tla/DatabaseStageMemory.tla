------------------------ MODULE DatabaseStageMemory ------------------------
(***************************************************************************)
(* The memory of one stage (database_stage_memory.v): a counter that runs  *)
(* through the addresses of a ROM and starts again at the last, and the    *)
(* ROM, whose output register is one clock behind the word it has read.    *)
(*                                                                         *)
(* A memory m is a record: the counter, the word last read, the output.    *)
(***************************************************************************)
EXTENDS Naturals

MemoryType(size, words) == [address : 0 .. size - 1, word : words, data : words]

PoweredUp == [address |-> 0, word |-> 0, data |-> 0]

\* A fault for LoadTypeOK: the counter runs one word past its last.
NextAddressPast(address, size) == IF address = size THEN 0 ELSE address + 1

\* A fault for LoadEnds: the counter stops at its last.
NextAddressStops(address, size) == IF address = size - 1 THEN address ELSE address + 1

NextAddress(address, size) == IF address = size - 1 THEN 0 ELSE address + 1

\* counter.v at a clock edge; cleared says that its asynchronous reset is up before
\* the edge or after it.
Counter(ctr, size, enable, cleared) ==
  IF cleared THEN 0 ELSE IF enable THEN NextAddress(ctr, size) ELSE ctr

\* The memory at a clock edge; ren is the read enable.
Read(m, contents, size, ren, cleared) ==
  [address |-> Counter(m.address, size, ren, cleared),
   word    |-> IF ren THEN contents[m.address] ELSE m.word,
   data    |-> m.word]

=============================================================================
