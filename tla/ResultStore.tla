---------------------------- MODULE ResultStore ----------------------------
(***************************************************************************)
(* The result store of result.v: a counter that steps through the words of *)
(* a result, and a FIFO of words.  Words are not told apart here: the FIFO *)
(* is its length.                                                          *)
(***************************************************************************)
EXTENDS Naturals, Verilog

CONSTANTS
  NumVariable,   \* NUM_VARIABLE
  NumWords       \* lpm_numwords of the FIFO

ASSUME StoreAssumption == NumVariable \in Nat /\ NumWords \in Nat \ {0}

VARIABLES
  index_write,         \* index_enable_write_result, the counter's value
  words,               \* number of words in the FIFO
  ready_send_result,
  result_empty

ResultStorevars == <<index_write, words, ready_send_result, result_empty>>

ResultStoreTypeOK ==
  /\ index_write \in 0 .. NumVariable
  /\ words \in 0 .. NumWords
  /\ ready_send_result \in BOOLEAN
  /\ result_empty \in BOOLEAN

ResultStoreInit ==
  /\ index_write = 0
  /\ words = 0
  /\ ready_send_result = FALSE
  /\ result_empty = FALSE

write_result_end == index_write = NumVariable

\* usedw has as many bits as an address: a full FIFO reports 0.
result_size(n) == n % NumWords

\* A fault for TypeOK: the counter does not wrap at its last word.
CounterEdgeUnwrapped(reset, resetting, write_result) ==
  index_write' =
    IF reset \/ resetting THEN 0
    ELSE IF write_result THEN index_write + 1 ELSE index_write

\* The counter has an asynchronous reset: resetting is the value of the reset
\* after the edge.
CounterEdge(reset, resetting, write_result) ==
  index_write' =
    IF reset \/ resetting THEN 0
    ELSE IF ~write_result THEN index_write
    ELSE IF write_result_end THEN 0 ELSE index_write + 1

\* scfifo with overflow and underflow checking on.
FifoEdge(rdreq, wrreq) ==
  words' = words + (IF wrreq /\ words < NumWords THEN 1 ELSE 0)
                 - (IF rdreq /\ words > 0 THEN 1 ELSE 0)

\* The block on result_size runs in the instant of the clocked blocks' assignments,
\* before them or after.
StoreFlags(reset, result_sent) ==
  LET resized == result_size(words') # result_size(words) IN
  /\ ready_send_result' \in Driven(ready_send_result,
       When(resized, TRUE) \cup When(reset \/ result_sent, FALSE))
  /\ result_empty' \in Driven(result_empty,
       When(resized /\ result_size(words') = 0, TRUE) \cup When(reset, FALSE))

ResultStoreEdge(reset, resetting, write_result, trig_send_result, result_sent) ==
  /\ CounterEdge(reset, resetting, write_result)
  /\ FifoEdge(trig_send_result, write_result)
  /\ StoreFlags(reset, result_sent)

=============================================================================
