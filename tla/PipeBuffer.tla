----------------------------- MODULE PipeBuffer -----------------------------
(***************************************************************************)
(* The contents of one pipe of gemOS (Assignment2, gemOS/src/pipe.c): the   *)
(* buffer, its two positions, and reads and writes of any length that the   *)
(* processes holding its ends make in any order.  read_pos stays 0: a read  *)
(* moves the rest of the buffer to its beginning.  FileTable has the life   *)
(* of the ends; here an end is open or closed for good.                     *)
(***************************************************************************)
EXTENDS Integers, Sequences

CONSTANTS Bytes, PIPE_MAX_SIZE     \* 4096

ASSUME PipeAssumption == PIPE_MAX_SIZE \in Nat \ {0}

VARIABLES pipe_buff,       \* the page
          write_pos, buffer_offset,
          is_ropen, is_wopen,
          buff             \* what the last successful read gave its caller

pipeVars == <<pipe_buff, write_pos, buffer_offset, is_ropen, is_wopen, buff>>

Positions == 0 .. PIPE_MAX_SIZE - 1
\* Lengths up to one more than can ever fit.  With one so near 2^32 that the sum
\* of pipe_write wraps the loop fills the rest of the pipe: to the queue that is a
\* write of so many bytes.
Lengths   == 0 .. PIPE_MAX_SIZE + 1

\* create_pipe does not clear the page.
PipeInit == /\ pipe_buff \in [Positions -> Bytes]
            /\ write_pos = 0
            /\ buffer_offset = 0
            /\ is_ropen = 1
            /\ is_wopen = 1
            /\ buff = <<>>

\* The two loops: copy out, then shift what is left by count.
Taken(count) == [i \in 1 .. count |-> pipe_buff[i - 1]]
\* Mutant: the last byte is not moved.
Shifted_short(count) == [i \in Positions |-> IF i + count + 1 < buffer_offset THEN pipe_buff[i + count]
                                                                             ELSE pipe_buff[i]]

Shifted(count) == [i \in Positions |-> IF i + count < buffer_offset THEN pipe_buff[i + count]
                                                                    ELSE pipe_buff[i]]

pipe_read(count) ==
  /\ is_ropen = 1
  /\ count <= buffer_offset
  /\ buff' = Taken(count)
  /\ pipe_buff' = Shifted(count)
  /\ buffer_offset' = buffer_offset - count
  /\ write_pos' = write_pos - count
  /\ UNCHANGED <<is_ropen, is_wopen>>

pipe_write(data) ==
  /\ is_wopen = 1
  /\ write_pos + Len(data) <= PIPE_MAX_SIZE
  /\ pipe_buff' = [i \in Positions |->
                     IF i >= write_pos /\ i < write_pos + Len(data) THEN data[i - write_pos + 1]
                                                                    ELSE pipe_buff[i]]
  /\ buffer_offset' = buffer_offset + Len(data)
  /\ write_pos' = write_pos + Len(data)
  /\ UNCHANGED <<is_ropen, is_wopen, buff>>

\* generic_close of the last descriptor of an end.
close_read  == is_ropen = 1 /\ is_ropen' = 0 /\ UNCHANGED <<pipe_buff, write_pos, buffer_offset, is_wopen, buff>>
close_write == is_wopen = 1 /\ is_wopen' = 0 /\ UNCHANGED <<pipe_buff, write_pos, buffer_offset, is_ropen, buff>>

PipeNext == \/ \E count \in Lengths : pipe_read(count)
            \/ \E count \in Lengths : \E data \in [1 .. count -> Bytes] : pipe_write(data)
            \/ close_read \/ close_write

-----------------------------------------------------------------------------
(***************************************************************************)
(* Properties                                                               *)
(***************************************************************************)
PipeTypeOK == /\ pipe_buff \in [Positions -> Bytes]
              /\ write_pos \in 0 .. PIPE_MAX_SIZE
              /\ buffer_offset \in 0 .. PIPE_MAX_SIZE
              /\ is_ropen \in {0, 1} /\ is_wopen \in {0, 1}
              /\ buff \in Seq(Bytes)

\* The reader is limited by buffer_offset and the writer by write_pos, updated
\* in different ways by pipe_read and pipe_write: they never drift apart, so
\* no byte is read that was not written and none is overwritten unread.
PositionsAgree == PipeTypeOK /\ write_pos = buffer_offset

\* Readers get the bytes in the order in which the writers put them, each
\* once, however reads and writes of different lengths alternate.
Abs == INSTANCE ByteQueue WITH
         Capacity <- PIPE_MAX_SIZE,
         queue <- [i \in 1 .. buffer_offset |-> pipe_buff[i - 1]],
         out <- buff

Fifo == Abs!Spec
=============================================================================
