----------------------------- MODULE AsyncBuffer -----------------------------
(***************************************************************************)
(* The byte buffer of the asynchronous logger (AsyncBuffer.hpp).  A buffer *)
(* is a record: cap is buffer_.size(), write is write_pos_, and msgs lists *)
(* the messages whose bytes lie in the first `write' positions.  read_pos_ *)
(* stays 0: nothing in the program calls MoveReadPos, so it is left out.   *)
(***************************************************************************)
EXTENDS Integers, Sequences

CONSTANTS
  BufferSize,    \* g_conf_data->buffer_size, the capacity a buffer starts with
  Threshold,     \* g_conf_data->threshold: triple below it, add above it
  LinearGrowth,  \* g_conf_data->linear_growth
  IntSpan,       \* stands for 2^32, the number of values of an int
  MaxCapacity    \* the largest size vector::resize can give without throwing

ASSUME BufferAssumption ==
  /\ BufferSize \in Nat \ {0}
  /\ Threshold \in Nat
  /\ LinearGrowth \in Nat
  /\ IntSpan \in Nat \ {0, 1}
  /\ MaxCapacity \in Nat
  /\ BufferSize <= MaxCapacity

NewBuffer == [cap |-> BufferSize, write |-> 0, msgs |-> <<>>]

IsEmpty(b) == b.write = 0

\* Fault: forgets what is already written.
WholeSize(b) == b.cap
WriteableSize(b) == b.cap - b.write

\* Fault: the flushed bytes stay in the buffer.
NoReset(b) == b
Reset(b) == [cap |-> b.cap, write |-> 0, msgs |-> <<>>]

\* `int buffersize = buffer_.size()': the low bits, read as a signed number.
ToInt(n) ==
  LET low == n % IntSpan
  IN  IF low >= IntSpan \div 2 THEN low - IntSpan ELSE low

\* The size ToBeEnough asks resize for.  A negative sum is a huge size_t.
Grown(b) ==
  IF b.cap < Threshold THEN 2 * b.cap + ToInt(b.cap)
                       ELSE LinearGrowth + ToInt(b.cap)

\* The test of ToBeEnough: an exact fit grows the buffer too.
MustGrow(b, len) == len >= WriteableSize(b)

\* resize throws (length_error or bad_alloc): nothing is written.
GrowthThrows(b, len) == MustGrow(b, len) /\ Grown(b) \notin 0 .. MaxCapacity

\* The buffer after ToBeEnough(len); it grows at most once.
ToBeEnough(b, len) == IF MustGrow(b, len) THEN [b EXCEPT !.cap = Grown(b)] ELSE b

\* The buffer after Push of message m: the copy moves write_pos_ on whatever
\* room there is.
BufferPush(b, m) ==
  [ToBeEnough(b, m.len) EXCEPT !.write = b.write + m.len,
                               !.msgs = Append(b.msgs, m)]
=============================================================================
