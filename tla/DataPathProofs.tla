--------------------------- MODULE DataPathProofs ---------------------------
(***************************************************************************)
(* Proofs about bytes on their way through a program: the data path of read *)
(* and write (PipeBuffer, RegularFile), for any page and file size, any     *)
(* number of inodes, file objects and names, and transfers of any length;   *)
(* the pipelines of Assignment 1 (Pipeline), for any output and any size of *)
(* a pipe; and the file that threads hash block by block (BlockHash), for   *)
(* every non-empty set of threads, every file size and every block size     *)
(* that is a multiple of the word size.                                     *)
(***************************************************************************)
EXTENDS MCFileIO, Pipeline, BlockHash, FiniteSetTheorems, SequenceTheorems, WellFoundedInduction, TLAPS

-----------------------------------------------------------------------------
(***************************************************************************)
(* The pipe                                                                 *)
(***************************************************************************)

\* The two positions of the pipe and its buffer keep their meaning.
LEMMA PipeStep == PositionsAgree /\ (PipeNext \/ UNCHANGED pipeVars) => PositionsAgree'
<1> SUFFICES ASSUME PositionsAgree, PipeNext \/ UNCHANGED pipeVars PROVE PositionsAgree'
  OBVIOUS
<1> USE PipeAssumption
<1>1. ASSUME NEW count \in Lengths, pipe_read(count) PROVE PositionsAgree'
  <2>1. count \in 0 .. buffer_offset /\ buffer_offset \in 0 .. PIPE_MAX_SIZE
    BY <1>1 DEF pipe_read, Lengths, PositionsAgree, PipeTypeOK
  <2>2. buff' \in Seq(Bytes)
    <3>1. Taken(count) \in [1 .. count -> Bytes]
      BY <2>1 DEF Taken, Positions, PositionsAgree, PipeTypeOK
    <3> QED BY <1>1, <2>1, <3>1, SeqDef DEF pipe_read
  <2>3. pipe_buff' \in [Positions -> Bytes]
    BY <1>1, <2>1 DEF pipe_read, Shifted, Positions, PositionsAgree, PipeTypeOK
  <2> QED BY <1>1, <2>1, <2>2, <2>3 DEF pipe_read, PositionsAgree, PipeTypeOK
<1>2. ASSUME NEW count \in Lengths, NEW data \in [1 .. count -> Bytes], pipe_write(data)
      PROVE  PositionsAgree'
  <2>1. count \in Nat /\ data \in Seq(Bytes) /\ Len(data) = count
    BY SeqDef, LenProperties DEF Lengths
  <2>2. pipe_buff' \in [Positions -> Bytes]
    BY <1>2, <2>1 DEF pipe_write, Positions, PositionsAgree, PipeTypeOK
  <2> QED BY <1>2, <2>1, <2>2 DEF pipe_write, PositionsAgree, PipeTypeOK
<1>3. CASE close_read
  BY <1>3 DEF close_read, PositionsAgree, PipeTypeOK
<1>4. CASE close_write
  BY <1>4 DEF close_write, PositionsAgree, PipeTypeOK
<1>5. CASE UNCHANGED pipeVars
  BY <1>5 DEF pipeVars, PositionsAgree, PipeTypeOK
<1> QED
  BY <1>1, <1>2, <1>3, <1>4, <1>5 DEF PipeNext

\* A new pipe is empty.
LEMMA PipeStart == PipeInit => PositionsAgree
BY PipeAssumption DEF PipeInit, PositionsAgree, PipeTypeOK

-----------------------------------------------------------------------------
(***************************************************************************)
(* The pipe implements the queue                                            *)
(***************************************************************************)

\* The bytes of a buffer up to a position, as a sequence.
Queue(b, n) == [i \in 1 .. n |-> b[i - 1]]

\* The sequence has the bytes of the buffer.
LEMMA QueueIsSeq ==
  ASSUME NEW b \in [Positions -> Bytes], NEW n \in 0 .. PIPE_MAX_SIZE
  PROVE  Queue(b, n) \in Seq(Bytes) /\ Len(Queue(b, n)) = n
<1>1. Queue(b, n) \in [1 .. n -> Bytes]
  BY PipeAssumption DEF Queue, Positions
<1> QED
  BY <1>1, SeqDef, PipeAssumption

\* A read takes the oldest bytes and leaves the others in their order.
LEMMA ReadReceives ==
  ASSUME PositionsAgree, NEW count \in Lengths, pipe_read(count)
  PROVE  /\ count \in 0 .. buffer_offset
         /\ buff' = SubSeq(Queue(pipe_buff, buffer_offset), 1, count)
         /\ Queue(pipe_buff', buffer_offset') =
              SubSeq(Queue(pipe_buff, buffer_offset), count + 1, buffer_offset)
<1> DEFINE q == Queue(pipe_buff, buffer_offset)
           r == Queue(pipe_buff', buffer_offset')
<1> USE PipeAssumption
<1>1. /\ count \in 0 .. buffer_offset /\ buffer_offset \in 0 .. PIPE_MAX_SIZE
      /\ buffer_offset' = buffer_offset - count /\ buff' = Taken(count) /\ pipe_buff' = Shifted(count)
      /\ pipe_buff \in [Positions -> Bytes]
  BY DEF pipe_read, Lengths, PositionsAgree, PipeTypeOK
<1>2. q \in Seq(Bytes) /\ Len(q) = buffer_offset /\ \A i \in 1 .. buffer_offset : q[i] = pipe_buff[i - 1] /\ q[i] \in Bytes
  <2>1. q \in Seq(Bytes) /\ Len(q) = buffer_offset
    BY <1>1, QueueIsSeq
  <2> QED BY <1>1, <2>1, ElementOfSeq DEF Queue
<1>3. pipe_buff' \in [Positions -> Bytes]
  BY <1>1 DEF Shifted, Positions
<1>4. r \in Seq(Bytes) /\ Len(r) = buffer_offset - count
  <2>1. buffer_offset' \in 0 .. PIPE_MAX_SIZE
    BY <1>1
  <2>2. r \in Seq(Bytes) /\ Len(r) = buffer_offset'
    BY <1>3, <2>1, QueueIsSeq
  <2> QED BY <1>1, <2>2
<1>5. buff' \in Seq(Bytes) /\ Len(buff') = count /\ \A i \in 1 .. count : buff'[i] = pipe_buff[i - 1]
  <2>1. Taken(count) = Queue(pipe_buff, count)
    BY DEF Taken, Queue
  <2>2. count \in 0 .. PIPE_MAX_SIZE
    BY <1>1
  <2>3. Queue(pipe_buff, count) \in Seq(Bytes) /\ Len(Queue(pipe_buff, count)) = count
    BY <1>1, <2>2, QueueIsSeq
  <2>4. \A i \in 1 .. count : Queue(pipe_buff, count)[i] = pipe_buff[i - 1]
    BY DEF Queue
  <2> QED BY <1>1, <2>1, <2>3, <2>4
<1>6. \A i \in 1 .. buffer_offset - count : r[i] = q[count + i]
  <2> SUFFICES ASSUME NEW i \in 1 .. buffer_offset - count PROVE r[i] = q[count + i]
    OBVIOUS
  <2>1. r[i] = Shifted(count)[i - 1]
    BY <1>1 DEF Queue
  <2>2. i - 1 \in Positions /\ (i - 1) + count < buffer_offset
    BY <1>1 DEF Positions
  <2>3. Shifted(count)[i - 1] = pipe_buff[(i - 1) + count]
    BY <2>2 DEF Shifted
  <2>4. count + i \in 1 .. buffer_offset /\ (count + i) - 1 = (i - 1) + count
    BY <1>1
  <2> QED BY <1>2, <2>1, <2>3, <2>4
<1> HIDE DEF q, r
<1>7. /\ SubSeq(q, 1, count) \in Seq(Bytes) /\ Len(SubSeq(q, 1, count)) = count
      /\ \A i \in 1 .. count : SubSeq(q, 1, count)[i] = q[i]
  <2>1. \A i \in 1 .. count : q[i] \in Bytes
    BY <1>1, <1>2
  <2> QED BY <1>1, <2>1, SubSeqProperties
<1>8. /\ SubSeq(q, count + 1, buffer_offset) \in Seq(Bytes)
      /\ Len(SubSeq(q, count + 1, buffer_offset)) = buffer_offset - count
      /\ \A i \in 1 .. buffer_offset - count : SubSeq(q, count + 1, buffer_offset)[i] = q[count + i]
  <2>1. \A i \in count + 1 .. buffer_offset : q[i] \in Bytes
    BY <1>1, <1>2
  <2> QED BY <1>1, <2>1, SubSeqProperties
<1>9. buff' = SubSeq(q, 1, count)
  <2>1. ASSUME NEW i \in 1 .. count PROVE buff'[i] = SubSeq(q, 1, count)[i]
    <3>1. i \in 1 .. buffer_offset
      BY <1>1
    <3>2. q[i] = pipe_buff[i - 1]
      BY <1>2, <3>1
    <3>3. buff'[i] = pipe_buff[i - 1]
      BY <1>5
    <3>4. SubSeq(q, 1, count)[i] = q[i]
      BY <1>7
    <3> QED BY <3>2, <3>3, <3>4
  <2> QED BY <1>5, <1>7, <2>1, SeqEqual
<1>10. r = SubSeq(q, count + 1, buffer_offset)
  BY <1>4, <1>6, <1>8, SeqEqual
<1> QED
  BY <1>1, <1>9, <1>10 DEF q, r

\* A write puts its bytes behind those that are there.
LEMMA WriteSends ==
  ASSUME PositionsAgree, NEW count \in Lengths, NEW data \in [1 .. count -> Bytes], pipe_write(data)
  PROVE  /\ data \in Abs!Messages
         /\ buffer_offset + Len(data) <= PIPE_MAX_SIZE
         /\ Queue(pipe_buff', buffer_offset') = Queue(pipe_buff, buffer_offset) \o data
<1> DEFINE q == Queue(pipe_buff, buffer_offset)
           r == Queue(pipe_buff', buffer_offset')
<1> USE PipeAssumption
<1>1. count \in Nat /\ data \in Seq(Bytes) /\ Len(data) = count
  BY SeqDef, LenProperties DEF Lengths
<1>2. /\ buffer_offset \in 0 .. PIPE_MAX_SIZE /\ write_pos = buffer_offset
      /\ buffer_offset + count <= PIPE_MAX_SIZE /\ buffer_offset' = buffer_offset + count
      /\ pipe_buff' = [i \in Positions |->
                     IF i >= buffer_offset /\ i < buffer_offset + count THEN data[i - buffer_offset + 1]
                                                                        ELSE pipe_buff[i]]
      /\ pipe_buff \in [Positions -> Bytes]
  BY <1>1 DEF pipe_write, PositionsAgree, PipeTypeOK
<1>3. pipe_buff' \in [Positions -> Bytes]
  BY <1>1, <1>2 DEF Positions
<1>4. /\ q \in Seq(Bytes) /\ Len(q) = buffer_offset
      /\ r \in Seq(Bytes) /\ Len(r) = buffer_offset + count
  <2>1. buffer_offset' \in 0 .. PIPE_MAX_SIZE
    BY <1>1, <1>2
  <2>2. r \in Seq(Bytes) /\ Len(r) = buffer_offset'
    BY <1>3, <2>1, QueueIsSeq
  <2>3. q \in Seq(Bytes) /\ Len(q) = buffer_offset
    BY <1>2, QueueIsSeq
  <2> QED BY <1>2, <2>2, <2>3
<1>5. \A i \in 1 .. buffer_offset + count :
         r[i] = IF i <= buffer_offset THEN q[i] ELSE data[i - buffer_offset]
  <2> SUFFICES ASSUME NEW i \in 1 .. buffer_offset + count
               PROVE  r[i] = IF i <= buffer_offset THEN q[i] ELSE data[i - buffer_offset]
    OBVIOUS
  <2>1. r[i] = pipe_buff'[i - 1] /\ i - 1 \in Positions
    BY <1>2 DEF Queue, Positions
  <2>2. CASE i <= buffer_offset
    <3>1. q[i] = pipe_buff[i - 1]
      BY <1>2, <2>2 DEF Queue
    <3> QED BY <1>2, <2>1, <2>2, <3>1
  <2>3. CASE ~(i <= buffer_offset)
    <3>1. (i - 1) - buffer_offset + 1 = i - buffer_offset
      BY <1>2
    <3> QED BY <1>2, <2>1, <2>3, <3>1
  <2> QED BY <2>2, <2>3
<1> HIDE DEF q, r
<1>6. /\ q \o data \in Seq(Bytes) /\ Len(q \o data) = buffer_offset + count
      /\ \A i \in 1 .. buffer_offset + count :
           (q \o data)[i] = IF i <= buffer_offset THEN q[i] ELSE data[i - buffer_offset]
  BY <1>1, <1>4, ConcatProperties
<1>7. r = q \o data
  BY <1>4, <1>5, <1>6, SeqEqual
<1>8. data \in Abs!Messages
  <2>1. count \in 0 .. PIPE_MAX_SIZE
    BY <1>1, <1>2
  <2> QED BY <2>1 DEF Abs!Messages
<1> QED
  BY <1>1, <1>2, <1>7, <1>8 DEF q, r

\* Readers get the bytes in the order in which the writers put them, each
\* once: the pipe, with the bytes up to buffer_offset as its contents, is a
\* bounded queue.
THEOREM PipeIsFifo == MCSpec => Fifo
<1> DEFINE q == Queue(pipe_buff, buffer_offset)
<1>1. MCInit => PositionsAgree /\ Abs!Init
  <2> SUFFICES ASSUME MCInit PROVE PositionsAgree /\ Abs!Init
    OBVIOUS
  <2>1. PositionsAgree
    BY PipeStart DEF MCInit
  <2>2. [i \in 1 .. buffer_offset |-> pipe_buff[i - 1]] = <<>> /\ buff = <<>>
    BY DEF MCInit, PipeInit
  <2> QED BY <2>1, <2>2 DEF Abs!Init
<1>2. PositionsAgree /\ [MCNext]_<<part, pipeVars, fileVars>> => PositionsAgree'
  BY PipeStep DEF MCNext, pipeVars
<1>3. PositionsAgree /\ [MCNext]_<<part, pipeVars, fileVars>>
        => [Abs!Next]_<<[i \in 1 .. buffer_offset |-> pipe_buff[i - 1]], buff>>
  <2> SUFFICES ASSUME PositionsAgree, PipeNext \/ UNCHANGED pipeVars
               PROVE  Abs!Next \/ (q' = q /\ buff' = buff)
    BY DEF MCNext, pipeVars, Queue
  <2>1. Len(q) = buffer_offset /\ buffer_offset \in Nat
    BY QueueIsSeq, PipeAssumption DEF PositionsAgree, PipeTypeOK
  <2>2. ASSUME NEW count \in Lengths, pipe_read(count) PROVE Abs!Next
    <3>1. /\ count \in 0 .. buffer_offset
          /\ buff' = SubSeq(q, 1, count) /\ q' = SubSeq(q, count + 1, buffer_offset)
      BY <2>2, ReadReceives DEF Queue
    <3> HIDE DEF q
    <3>2. count \in 0 .. Len(q) /\ buff' = SubSeq(q, 1, count) /\ q' = SubSeq(q, count + 1, Len(q))
      BY <2>1, <3>1
    <3> QED BY <3>2 DEF q, Queue, Abs!Next, Abs!Receive
  <2>3. ASSUME NEW count \in Lengths, NEW data \in [1 .. count -> Bytes], pipe_write(data) PROVE Abs!Next
    <3>1. data \in Abs!Messages /\ Len(q) + Len(data) <= PIPE_MAX_SIZE /\ q' = q \o data /\ buff' = buff
      BY <2>1, <2>3, WriteSends DEF Queue, pipe_write
    <3> QED BY <3>1 DEF Queue, Abs!Next, Abs!Send
  <2>4. CASE close_read \/ close_write \/ UNCHANGED pipeVars
    BY <2>4 DEF close_read, close_write, pipeVars, Queue
  <2> QED BY <2>2, <2>3, <2>4 DEF PipeNext
<1> QED
  BY <1>1, <1>2, <1>3, PTL DEF MCSpec, Fifo, Abs!Spec

-----------------------------------------------------------------------------
(***************************************************************************)
(* Regular files                                                            *)
(***************************************************************************)

\* The runs of pages alloc_inodes takes follow one another: PagesTaken, which
\* is defined by recursion, is the function that says so.
LEMMA StorePositions ==
  ASSUME NEW i \in Inodes
  PROVE  s_pos(i) \in Int /\ e_pos(i) = s_pos(i) + FILE_SIZE /\ (i = 0 => s_pos(i) = 0)
<1> DEFINE run(g, k) == IF k = 0 THEN get_contigous_pages(1, NumPages - 1)
                        ELSE get_contigous_pages(g[k - 1].next, NumPages)
           f == [k \in Inodes |-> [first |-> k + 1, next |-> k + 2]]
           Bad == {k \in Inodes : PagesTaken[k] # f[k]}
<1> USE FileAssumption
<1>1. Inodes \subseteq Nat /\ \A k \in Inodes : k # 0 => k - 1 \in Inodes
  BY DEF Inodes
<1>2. \A x : get_contigous_pages(x, 0) = [first |-> x, next |-> x + 1]
             /\ get_contigous_pages(x, 1) = [first |-> x, next |-> x + 1]
  <2>1. Max({1, 0}) = 1 /\ Max({1, 1}) = 1
    BY DEF Max
  <2> QED BY <2>1 DEF get_contigous_pages
<1>3. \A k \in Inodes : f[k] = run(f, k)
  BY <1>1, <1>2 DEF NumPages
<1>4. f = [k \in Inodes |-> run(f, k)]
  BY <1>3
<1>5. PagesTaken = [k \in Inodes |-> run(PagesTaken, k)]
  <2> HIDE DEF f
  <2> QED BY <1>4 DEF PagesTaken
<1>6. ASSUME Bad # {} PROVE FALSE
  <2>1. PICK k \in Bad : \A m \in Bad : ~(<<m, k>> \in OpToRel(<, Nat))
    BY <1>1, <1>6, NatLessThanWellFounded, WFMin
  <2>2. \A m \in Bad : ~(m < k)
    BY <1>1, <2>1, Zenon DEF OpToRel
  <2>3. PagesTaken[k] = run(PagesTaken, k) /\ f[k] = run(f, k)
    BY <1>3, <1>5
  <2>4. k # 0 => PagesTaken[k - 1] = f[k - 1]
    BY <1>1, <2>2
  <2> QED BY <2>3, <2>4
<1>7. StorePages[i] \in Int /\ (i = 0 => StorePages[i] = 0)
  BY <1>1, <1>6 DEF StorePages
<1> QED
  BY <1>7 DEF s_pos, e_pos

InodeRecords  == [is_valid : BOOLEAN, filename : Names \cup {""}, mode : Modes, file_size : 0 .. FILE_SIZE]
HandleRecords == [inode : Inodes \cup {NUM_FILES}, mode : Modes, offp : 0 .. U32 - 1]
Transfers     == [kind : {"none", "read", "write", "runaway"}, i : Inodes, from : Int, len : Int, size : Nat]

Valid(t) == {i \in Inodes : t[i].is_valid}

\* The inode table t is right: no name is there twice, and what is not in use
\* is empty.
TableSound(t, n) ==
  /\ t \in [Inodes -> InodeRecords]
  /\ \A i, j \in Valid(t) : t[i].filename = t[j].filename => i = j
  /\ \A i \in Inodes \ Valid(t) : t[i].file_size = 0
  /\ n = Cardinality(Valid(t))

\* The file objects f are on inodes of t that are in use, within their mode.
HandlesSound(t, f) ==
  /\ f \in [Handles -> HandleRecords]
  /\ \A h \in Handles : f[h] # NULL => /\ f[h].inode \in Valid(t)
                                       /\ f[h].mode \subseteq t[f[h].inode].mode

FileIInv == TableSound(inode, num_files) /\ HandlesSound(inode, file) /\ transfer \in Transfers

\* Inode 0 exists, and the number of no inode stands for none.
LEMMA InodeNumbers == Inodes \subseteq Nat /\ 0 \in Inodes /\ NUM_FILES \notin Inodes
BY FileAssumption DEF Inodes

\* The inodes can be counted.
LEMMA ValidFinite ==
  ASSUME NEW t
  PROVE  IsFiniteSet(Valid(t)) /\ Cardinality(Valid(t)) \in Nat
<1>1. IsFiniteSet(Inodes)
  BY FileAssumption, FS_Interval DEF Inodes
<1>2. Valid(t) \in SUBSET Inodes
  BY DEF Valid
<1> QED
  BY <1>1, <1>2, FS_Subset, FS_CardinalityType

\* The smallest and the largest of two numbers.
LEMMA MinMax ==
  ASSUME NEW a \in Int, NEW b \in Int
  PROVE  /\ Min({a, b}) = IF a <= b THEN a ELSE b
         /\ Max({a, b}) = IF a <= b THEN b ELSE a
<1>1. CASE a <= b
  BY <1>1 DEF Min, Max
<1>2. CASE ~(a <= b)
  BY <1>2 DEF Min, Max
<1> QED
  BY <1>1, <1>2

\* The result of get_free_inode.
LEMMA FreeInode ==
  ASSUME get_free_inode # {}
  PROVE  Min(get_free_inode) \in get_free_inode
<1>1. get_free_inode \in SUBSET Nat
  BY InodeNumbers DEF get_free_inode
<1>2. PICK x \in get_free_inode : \A y \in get_free_inode : ~(<<y, x>> \in OpToRel(<, Nat))
  BY <1>1, NatLessThanWellFounded, WFMin
<1>3. \A y \in get_free_inode : ~(y < x)
  BY <1>1, <1>2, Zenon DEF OpToRel
<1>4. \A y \in get_free_inode : x <= y
  BY <1>1, <1>3
<1> QED
  BY <1>4 DEF Min

\* A file object that is opened on a file that exists.
LEMMA NewHandleSound ==
  ASSUME NEW t, NEW f, NEW n, TableSound(t, n), HandlesSound(t, f),
         NEW h \in Handles, NEW i \in Valid(t), NEW flags \in Modes, flags \subseteq t[i].mode
  PROVE  HandlesSound(t, [f EXCEPT ![h] = [inode |-> i, mode |-> flags, offp |-> 0]])
<1> DEFINE r == [inode |-> i, mode |-> flags, offp |-> 0]
           g == [f EXCEPT ![h] = r]
<1>1. r \in HandleRecords /\ r.inode = i /\ r.mode = flags
  BY FileAssumption DEF HandleRecords, Valid
<1> HIDE DEF r
<1>2. g \in [Handles -> HandleRecords] /\ \A k \in Handles : g[k] = IF k = h THEN r ELSE f[k]
  BY <1>1 DEF HandlesSound
<1> QED
  BY <1>1, <1>2 DEF HandlesSound, r

\* A new file: a name that was not there, in an inode that was not in use.
LEMMA CreateSound ==
  ASSUME FileIInv, NEW name \in Names, NEW m \in Modes, create_inode(name, m)
  PROVE  /\ TableSound(inode', num_files') /\ HandlesSound(inode', file)
         /\ Min(get_free_inode) \in Valid(inode')
         /\ inode'[Min(get_free_inode)].mode = m
         /\ \A i \in Inodes : inode'[i].file_size = inode[i].file_size
<1> DEFINE x == Min(get_free_inode)
           r == [is_valid |-> TRUE, filename |-> name, mode |-> m, file_size |-> 0]
<1>1. x \in Inodes /\ x \notin Valid(inode)
  BY FreeInode DEF create_inode, get_free_inode, Valid
<1>2. inode' = [inode EXCEPT ![x] = r] /\ num_files' = num_files + 1 /\ lookup_inode(name) = {}
  BY DEF create_inode
<1>3. r \in InodeRecords /\ r.is_valid /\ r.filename = name /\ r.mode = m /\ r.file_size = 0
  <2>1. 0 \in 0 .. FILE_SIZE
    BY FileAssumption
  <2>2. r.is_valid
    BY Zenon
  <2>3. r \in InodeRecords
    BY <2>1, Zenon DEF InodeRecords
  <2> QED BY <2>2, <2>3
<1> HIDE DEF x, r
<1>4. inode' \in [Inodes -> InodeRecords] /\ \A i \in Inodes : inode'[i] = IF i = x THEN r ELSE inode[i]
  BY <1>1, <1>2, <1>3 DEF FileIInv, TableSound
<1>5. Valid(inode') = Valid(inode) \cup {x}
  BY <1>1, <1>3, <1>4 DEF Valid
<1>6. num_files' = Cardinality(Valid(inode'))
  BY <1>1, <1>2, <1>5, ValidFinite, FS_AddElement DEF FileIInv, TableSound
<1>7. \A i \in Valid(inode) : inode[i].filename # name
  BY <1>2 DEF lookup_inode, Valid
<1>8. \A i, j \in Valid(inode') : inode'[i].filename = inode'[j].filename => i = j
  <2> SUFFICES ASSUME NEW i \in Valid(inode'), NEW j \in Valid(inode'),
                      inode'[i].filename = inode'[j].filename
               PROVE  i = j
    OBVIOUS
  <2>1. CASE i = x
    BY <1>1, <1>3, <1>4, <1>5, <1>7, <2>1 DEF Valid
  <2>2. CASE j = x
    BY <1>1, <1>3, <1>4, <1>5, <1>7, <2>2 DEF Valid
  <2>3. CASE i # x /\ j # x
    <3>1. i \in Valid(inode) /\ j \in Valid(inode) /\ inode[i].filename = inode[j].filename
      BY <1>4, <1>5, <2>3 DEF Valid
    <3> QED BY <3>1 DEF FileIInv, TableSound
  <2> QED BY <2>1, <2>2, <2>3
<1>9. HandlesSound(inode', file)
  <2>1. ASSUME NEW h \in Handles, file[h] # NULL
        PROVE  file[h].inode \in Valid(inode') /\ file[h].mode \subseteq inode'[file[h].inode].mode
    <3>1. file[h].inode \in Valid(inode) /\ file[h].mode \subseteq inode[file[h].inode].mode
      BY <2>1 DEF FileIInv, HandlesSound
    <3>2. file[h].inode \in Inodes /\ file[h].inode # x
      BY <1>1, <3>1 DEF Valid
    <3> QED BY <1>4, <1>5, <3>1, <3>2
  <2> QED BY <2>1 DEF FileIInv, HandlesSound
<1>10. \A i \in Inodes : inode'[i].file_size = inode[i].file_size
  BY <1>1, <1>3, <1>4 DEF FileIInv, TableSound
<1>11. \A i \in Inodes \ Valid(inode') : inode'[i].file_size = 0
  BY <1>5, <1>10 DEF FileIInv, TableSound
<1>12. TableSound(inode', num_files')
  BY <1>4, <1>6, <1>8, <1>11 DEF TableSound
<1> QED
  BY <1>1, <1>3, <1>4, <1>5, <1>9, <1>10, <1>12 DEF x

Moved(f, h, o)   == [f EXCEPT ![h].offp = o]
Resized(t, i, s) == [t EXCEPT ![i].file_size = s]

\* Reading, writing and seeking move the offset of a file object, nothing else.
LEMMA MovedSound ==
  ASSUME NEW t, NEW f, HandlesSound(t, f), NEW h \in Handles, NEW o \in 0 .. U32 - 1
  PROVE  /\ f[h] # NULL => HandlesSound(t, Moved(f, h, o))
         /\ \A k \in Handles : Moved(f, h, o)[k].offp = IF k = h THEN o ELSE f[k].offp
<1> DEFINE g == Moved(f, h, o)
           r == [f[h] EXCEPT !.offp = o]
<1>1. f[h] \in HandleRecords
  BY DEF HandlesSound
<1>2. r \in HandleRecords /\ r.inode = f[h].inode /\ r.mode = f[h].mode /\ r.offp = o
  BY <1>1 DEF HandleRecords
<1>3. g \in [Handles -> HandleRecords] /\ \A k \in Handles : g[k] = IF k = h THEN r ELSE f[k]
  BY <1>2 DEF HandlesSound, Moved
<1> HIDE DEF r, g
<1>4. f[h] # NULL => HandlesSound(t, g)
  BY <1>2, <1>3 DEF HandlesSound
<1> QED
  BY <1>2, <1>3, <1>4 DEF g

\* The size of a file after a write through it.
LEMMA ResizedSound ==
  ASSUME NEW t, NEW f, NEW n, TableSound(t, n), HandlesSound(t, f),
         NEW i \in Valid(t), NEW s \in 0 .. FILE_SIZE
  PROVE  /\ TableSound(Resized(t, i, s), n)
         /\ HandlesSound(Resized(t, i, s), f)
         /\ \A j \in Inodes : Resized(t, i, s)[j].file_size = IF j = i THEN s ELSE t[j].file_size
<1> DEFINE u == Resized(t, i, s)
           r == [t[i] EXCEPT !.file_size = s]
<1>1. t[i] \in InodeRecords /\ i \in Inodes
  BY DEF TableSound, Valid
<1>2. /\ r \in InodeRecords /\ r.is_valid = t[i].is_valid /\ r.filename = t[i].filename
      /\ r.mode = t[i].mode /\ r.file_size = s
  BY <1>1 DEF InodeRecords
<1>3. u \in [Inodes -> InodeRecords] /\ \A k \in Inodes : u[k] = IF k = i THEN r ELSE t[k]
  BY <1>1, <1>2 DEF TableSound, Resized
<1> HIDE DEF r, u
<1>4. Valid(u) = Valid(t) /\ \A k \in Inodes : u[k].filename = t[k].filename /\ u[k].mode = t[k].mode
  BY <1>2, <1>3 DEF Valid
<1>5. TableSound(u, n)
  <2>1. \A j, k \in Valid(u) : u[j].filename = u[k].filename => j = k
    <3>1. \A j \in Valid(u) : j \in Valid(t) /\ u[j].filename = t[j].filename
      BY <1>4 DEF Valid
    <3> QED BY <3>1 DEF TableSound
  <2>2. \A j \in Inodes \ Valid(u) : u[j].file_size = 0
    <3>1. \A j \in Inodes \ Valid(u) : j \in Inodes \ Valid(t) /\ j # i
      BY <1>4
    <3> QED BY <1>3, <3>1 DEF TableSound
  <2>3. n = Cardinality(Valid(u))
    BY <1>4 DEF TableSound
  <2> QED BY <1>3, <2>1, <2>2, <2>3 DEF TableSound
<1>6. HandlesSound(u, f)
  BY <1>4 DEF HandlesSound, Valid
<1> QED
  BY <1>2, <1>3, <1>5, <1>6 DEF u

-----------------------------------------------------------------------------
\* A size changes only to where a write ended, and upwards.
Grows ==
  \A i \in Inodes :
     inode'[i].file_size # inode[i].file_size =>
        /\ transfer'.kind = "write" /\ transfer'.i = i
        /\ s_pos(i) + inode'[i].file_size = transfer'.from + transfer'.len
        /\ inode'[i].file_size > inode[i].file_size

\* The offsets are inside the files, or at the end of the largest possible one.
OffsetsInside(f) == \A h \in Handles : f[h].offp \in 0 .. FILE_SIZE

\* A number in 32 bits, without and with sign.
LEMMA Bits32 ==
  ASSUME NEW n \in Int
  PROVE  /\ Unsigned(n) \in 0 .. U32 - 1
         /\ n \in 0 .. U32 - 1 => Unsigned(n) = n
         /\ Signed(n) \in Int
         /\ n \in 0 .. FILE_SIZE => Signed(n) = n
         /\ n \in 0 .. U32 \div 2 - 1 => n \in 0 .. U32 - 1 /\ Signed(n) = n
         /\ Signed(n) >= 0 /\ n \in 0 .. U32 - 1 => Signed(n) = n
<1> USE FileAssumption
<1>1. U32 \in Nat \ {0} /\ U32 \div 2 > 2 * FILE_SIZE - 1 /\ U32 \div 2 \in Int
  OBVIOUS
<1>2. n % U32 \in 0 .. U32 - 1
  BY <1>1
<1>3. n \in 0 .. U32 - 1 => n % U32 = n
  BY <1>1
<1>4. n \in 0 .. FILE_SIZE => ~(n >= U32 \div 2)
  <2>1. 2 * (U32 \div 2) >= U32 - 1
    BY <1>1
  <2> QED BY <1>1, <2>1
<1>5. n \in 0 .. U32 \div 2 - 1 => n \in 0 .. U32 - 1 /\ ~(n >= U32 \div 2)
  BY <1>1
<1>6. n \in 0 .. U32 - 1 => n - U32 < 0 /\ n - U32 \in Int
  BY <1>1
<1> QED
  BY <1>1, <1>2, <1>3, <1>4, <1>5, <1>6 DEF Unsigned, Signed

\* open, of a file that exists or with O_CREAT.
LEMMA OpenStep ==
  ASSUME FileIInv, NEW h \in Handles, NEW name \in Names, do_file_open(h, name)
  PROVE  FileIInv' /\ Grows /\ transfer' = transfer /\ (OffsetsInside(file) => OffsetsInside(file'))
<1>1. PICK flags \in Modes : open_existing(h, name, flags) \/ \E m \in Modes : open_create(h, name, flags, m)
  BY DEF do_file_open
<1>2. ASSUME NEW i, NewHandle(h, i, flags)
      PROVE  OffsetsInside(file) => OffsetsInside(file')
  <2>1. \A k \in Handles : file'[k] = IF k = h THEN [inode |-> i, mode |-> flags, offp |-> 0] ELSE file[k]
    BY <1>2 DEF NewHandle, FileIInv, HandlesSound
  <2> QED BY <2>1, FileAssumption DEF OffsetsInside
<1>3. CASE open_existing(h, name, flags)
  <2>1. PICK i \in lookup_inode(name) : flags \subseteq inode[i].mode /\ NewHandle(h, i, flags)
    BY <1>3 DEF open_existing
  <2>2. i \in Valid(inode)
    BY DEF lookup_inode, Valid
  <2>3. UNCHANGED <<inode, num_files, transfer>>
    BY <1>3 DEF open_existing
  <2>4. HandlesSound(inode, file')
    BY <2>1, <2>2, NewHandleSound DEF NewHandle, FileIInv
  <2> QED BY <1>2, <2>1, <2>3, <2>4 DEF FileIInv, Grows
<1>4. ASSUME NEW m \in Modes, open_create(h, name, flags, m)
      PROVE  FileIInv' /\ Grows /\ transfer' = transfer /\ (OffsetsInside(file) => OffsetsInside(file'))
  <2> DEFINE x == Min(get_free_inode)
  <2>1. /\ TableSound(inode', num_files') /\ HandlesSound(inode', file)
        /\ x \in Valid(inode') /\ inode'[x].mode = m
        /\ \A i \in Inodes : inode'[i].file_size = inode[i].file_size
    BY <1>4, CreateSound DEF open_create
  <2>2. (flags \subseteq m /\ NewHandle(h, x, flags)) \/ UNCHANGED file
    BY <1>4 DEF open_create
  <2>3. transfer' = transfer
    BY <1>4 DEF open_create
  <2> HIDE DEF x
  <2>4. HandlesSound(inode', file')
    <3>1. CASE flags \subseteq m /\ NewHandle(h, x, flags)
      BY <2>1, <3>1, NewHandleSound DEF NewHandle
    <3>2. CASE UNCHANGED file
      BY <2>1, <3>2
    <3> QED BY <2>2, <3>1, <3>2
  <2>5. OffsetsInside(file) => OffsetsInside(file')
    BY <1>2, <2>2
  <2> QED BY <2>1, <2>3, <2>4, <2>5 DEF FileIInv, Grows
<1> QED
  BY <1>1, <1>3, <1>4

\* close.
LEMMA CloseStep ==
  ASSUME FileIInv, NEW h \in Handles, do_close(h)
  PROVE  FileIInv' /\ Grows /\ transfer' = transfer /\ (OffsetsInside(file) => OffsetsInside(file'))
<1>1. NULL \in HandleRecords /\ NULL.offp = 0
  BY FileAssumption DEF NULL, HandleRecords, Modes
<1>2. file' \in [Handles -> HandleRecords] /\ \A k \in Handles : file'[k] = IF k = h THEN NULL ELSE file[k]
  BY <1>1 DEF do_close, FileIInv, HandlesSound
<1>3. UNCHANGED <<inode, num_files, transfer>>
  BY DEF do_close
<1>4. HandlesSound(inode, file')
  BY <1>2 DEF FileIInv, HandlesSound
<1>5. OffsetsInside(file) => OffsetsInside(file')
  BY <1>1, <1>2, FileAssumption DEF OffsetsInside
<1> QED
  BY <1>3, <1>4, <1>5 DEF FileIInv, Grows

\* What an open file object says.
LEMMA OpenHandle ==
  ASSUME FileIInv, NEW h \in Handles, file[h] # NULL
  PROVE  /\ file[h].inode \in Valid(inode) /\ file[h].inode \in Inodes
         /\ file[h].offp \in Int /\ file[h].offp \in 0 .. U32 - 1
         /\ inode[file[h].inode].file_size \in 0 .. FILE_SIZE
<1>1. file[h] \in HandleRecords /\ file[h].inode \in Valid(inode)
  BY DEF FileIInv, HandlesSound
<1>2. file[h].inode \in Inodes
  BY <1>1 DEF Valid
<1>3. inode[file[h].inode] \in InodeRecords
  BY <1>2 DEF FileIInv, TableSound
<1>4. inode[file[h].inode].file_size \in 0 .. FILE_SIZE
  BY <1>3 DEF InodeRecords
<1>5. file[h].offp \in 0 .. U32 - 1
  BY <1>1 DEF HandleRecords
<1>6. \A x \in 0 .. U32 - 1 : x \in Int
  BY FileAssumption
<1> QED
  BY <1>1, <1>2, <1>4, <1>5, <1>6

\* The bytes a transfer is said to have touched.
LEMMA TouchedIs ==
  ASSUME NEW kind \in {"read", "write"}, NEW i \in Inodes, NEW o \in Int, NEW n \in Int,
         inode[i].file_size \in Nat, Touched(kind, i, o, n)
  PROVE  /\ transfer' \in Transfers
         /\ transfer'.kind = (IF n < 0 THEN "runaway" ELSE kind)
         /\ transfer'.i = i /\ transfer'.from = s_pos(i) + o
         /\ transfer'.len = n /\ transfer'.size = inode[i].file_size
<1>1. s_pos(i) \in Int
  BY StorePositions
<1> DEFINE x == s_pos(i)
           k == IF n < 0 THEN "runaway" ELSE kind
<1>2. k \in {"none", "read", "write", "runaway"}
  OBVIOUS
<1>3. transfer' = [kind |-> k, i |-> i, from |-> x + o, len |-> n, size |-> inode[i].file_size]
  BY DEF Touched
<1> HIDE DEF x, k
<1>4. x + o \in Int
  BY <1>1 DEF x
<1>5. transfer' \in Transfers
  BY <1>2, <1>3, <1>4 DEF Transfers
<1> QED
  BY <1>3, <1>5 DEF x, k

\* The offset after a transfer of n bytes.
After(o, n) == IF n < 0 THEN o ELSE Unsigned(o + n)

\* It is a u32, and where the transfer ended when that is in the space of a file.
LEMMA AfterIs ==
  ASSUME NEW o \in 0 .. U32 - 1, NEW n \in Int
  PROVE  /\ After(o, n) \in 0 .. U32 - 1
         /\ o \in 0 .. FILE_SIZE /\ o + n <= FILE_SIZE => After(o, n) \in 0 .. FILE_SIZE
<1>1. o \in Int /\ o + n \in Int /\ Unsigned(o + n) \in 0 .. U32 - 1
  <2>1. o \in Int /\ o + n \in Int
    BY FileAssumption
  <2> QED BY <2>1, Bits32
<1>2. ASSUME o \in 0 .. FILE_SIZE, o + n <= FILE_SIZE, ~(n < 0)
      PROVE  Unsigned(o + n) \in 0 .. FILE_SIZE
  <2>1. o + n \in 0 .. FILE_SIZE /\ o + n \in 0 .. U32 - 1
    BY <1>2, FileAssumption
  <2>2. Unsigned(o + n) = o + n
    BY <1>1, <2>1, Bits32
  <2> QED BY <2>1, <2>2
<1> QED
  BY <1>1, <1>2 DEF After

\* Moving the offset of an open file object on.
LEMMA AdvanceIs ==
  ASSUME NEW h \in Handles, NEW n, HandlesSound(inode, file), Advance(h, n)
  PROVE  file' = Moved(file, h, After(file[h].offp, n))
BY DEF Advance, After, Moved, HandlesSound

\* A read that starts inside the file stays inside it, or runs away.
LEMMA ReadStep ==
  ASSUME FileIInv, NEW h \in Handles, NEW count \in Counts, do_file_read(h, count)
  PROVE  /\ FileIInv' /\ Grows
         /\ OffsetsInside(file) => OffsetsInside(file') /\ TransferInFile'
<1> DEFINE i == file[h].inode
           o == file[h].offp
           fs == inode[i].file_size
           c == Signed(count)
           bytes == flat_read(i, c, Signed(o))
<1>1. /\ i \in Valid(inode) /\ i \in Inodes /\ o \in Int /\ o \in 0 .. U32 - 1 /\ fs \in 0 .. FILE_SIZE
      /\ file[h] # NULL /\ count \in Int
  BY OpenHandle, FileAssumption DEF do_file_read
<1>2. /\ Touched("read", i, Signed(o), bytes)
      /\ Advance(h, bytes)
      /\ UNCHANGED <<inode, num_files>>
  BY DEF do_file_read, do_read_regular
<1>3. Signed(o) \in Int /\ c \in Int
  BY <1>1, Bits32
<1> HIDE DEF c
<1>4. bytes \in Int /\ (bytes = 0 \/ Signed(o) + bytes <= fs)
  <2> DEFINE s == Signed(o)
             left == fs - s
  <2> HIDE DEF i, o, fs
  <2>1. s \in Int /\ fs \in Int /\ left \in Int
    BY <1>1, <1>3, FileAssumption
  <2>2. bytes = IF left <= 0 THEN 0 ELSE Min({c, left})
    BY DEF flat_read, fs
  <2> HIDE DEF s, bytes
  <2>3. CASE left <= 0
    BY <2>1, <2>2, <2>3
  <2>4. CASE ~(left <= 0)
    <3>1. Min({c, left}) = IF c <= left THEN c ELSE left
      BY <1>3, <2>1, MinMax
    <3> QED BY <1>3, <2>1, <2>2, <2>4, <3>1 DEF s
  <2> QED BY <2>3, <2>4
<1> HIDE DEF bytes, fs
<1>5. After(o, bytes) \in 0 .. U32 - 1
  BY <1>1, <1>4, AfterIs
<1>6. file' = Moved(file, h, After(o, bytes))
  BY <1>2, AdvanceIs DEF FileIInv
<1>7. /\ HandlesSound(inode, file')
      /\ \A k \in Handles : file'[k].offp = IF k = h THEN After(o, bytes) ELSE file[k].offp
  BY <1>1, <1>5, <1>6, MovedSound DEF FileIInv
<1>8. /\ transfer' \in Transfers /\ transfer'.kind \in {"read", "runaway"} /\ transfer'.i = i
      /\ transfer'.from = s_pos(i) + Signed(o) /\ transfer'.len = bytes /\ transfer'.size = fs
  <2>1. inode[i].file_size \in Nat
    BY <1>1, FileAssumption DEF fs
  <2> QED BY <1>1, <1>2, <1>3, <1>4, <2>1, TouchedIs DEF fs
<1>9. ASSUME OffsetsInside(file) PROVE OffsetsInside(file') /\ TransferInFile'
  <2>1. o \in 0 .. FILE_SIZE
    BY <1>9 DEF OffsetsInside
  <2> HIDE DEF o
  <2>2. Signed(o) = o
    BY <1>1, <2>1, FileAssumption, Bits32
  <2>3. o + bytes <= FILE_SIZE
    BY <1>1, <1>4, <2>1, <2>2, FileAssumption
  <2>4. After(o, bytes) \in 0 .. FILE_SIZE
    BY <1>1, <1>4, <2>1, <2>3, AfterIs
  <2>5. OffsetsInside(file')
    BY <1>7, <1>9, <2>4 DEF OffsetsInside
  <2>6. s_pos(i) \in Int
    BY <1>1, StorePositions
  <2>7. TransferInFile'
    <3>1. /\ transfer'.from >= s_pos(i)
          /\ transfer'.from + transfer'.len <= s_pos(i) + fs \/ transfer'.len = 0
      BY <1>1, <1>4, <1>8, <2>1, <2>2, <2>6, FileAssumption
    <3> QED BY <1>8, <3>1 DEF TransferInFile, s_pos, e_pos
  <2> QED BY <2>5, <2>7
<1>10. UNCHANGED <<inode, num_files>>
  BY <1>2
<1> QED
  BY <1>7, <1>8, <1>9, <1>10 DEF FileIInv, Grows

\* A write that starts inside the inode's page stays inside it, and the size
\* follows it, or it runs away.
LEMMA WriteStep ==
  ASSUME FileIInv, NEW h \in Handles, NEW count \in Counts, do_file_write(h, count)
  PROVE  /\ FileIInv' /\ Grows
         /\ OffsetsInside(file) => OffsetsInside(file') /\ TransferInFile'
<1> DEFINE i == file[h].inode
           o == file[h].offp
           fs == inode[i].file_size
           s == Signed(o)
           c == Signed(count)
           new == IF c < 0 THEN fs ELSE Max({fs, s + c})
<1>1. /\ i \in Valid(inode) /\ i \in Inodes /\ o \in Int /\ o \in 0 .. U32 - 1 /\ fs \in 0 .. FILE_SIZE
      /\ file[h] # NULL /\ count \in Int
  BY OpenHandle, FileAssumption DEF do_file_write
<1>2. /\ c <= e_pos(i) - s - s_pos(i)
      /\ Touched("write", i, s, c)
      /\ inode' = Resized(inode, i, new)
      /\ Advance(h, c)
      /\ num_files' = num_files
  BY DEF do_file_write, do_write_regular, flat_write, Resized
<1> HIDE DEF fs
<1>3. s \in Int /\ c \in Int /\ s_pos(i) \in Int /\ e_pos(i) = s_pos(i) + FILE_SIZE /\ fs \in Int
  BY <1>1, Bits32, StorePositions, FileAssumption
<1>4. /\ new = IF c < 0 THEN fs ELSE IF fs <= s + c THEN s + c ELSE fs
      /\ s + c <= FILE_SIZE
  <2> HIDE DEF s, i, c
  <2>1. s + c \in Int
    BY <1>3
  <2>2. Max({fs, s + c}) = IF fs <= s + c THEN s + c ELSE fs
    BY <1>3, <2>1, MinMax
  <2>3. s + c <= FILE_SIZE
    BY <1>2, <1>3, FileAssumption
  <2> QED BY <2>2, <2>3
<1> HIDE DEF s, c, new
<1>5. new \in 0 .. FILE_SIZE
  BY <1>1, <1>3, <1>4, FileAssumption
<1>6. /\ TableSound(inode', num_files) /\ HandlesSound(inode', file)
      /\ \A j \in Inodes : inode'[j].file_size = IF j = i THEN new ELSE inode[j].file_size
  BY <1>1, <1>2, <1>5, ResizedSound DEF FileIInv
<1>7. After(o, c) \in 0 .. U32 - 1 /\ file' = Moved(file, h, After(o, c))
  BY <1>1, <1>2, <1>3, AfterIs, AdvanceIs DEF FileIInv
<1>8. /\ HandlesSound(inode', file')
      /\ \A k \in Handles : file'[k].offp = IF k = h THEN After(o, c) ELSE file[k].offp
  BY <1>1, <1>6, <1>7, MovedSound
<1>9. /\ transfer' \in Transfers /\ transfer'.i = i
      /\ transfer'.kind = (IF c < 0 THEN "runaway" ELSE "write")
      /\ transfer'.from = s_pos(i) + s /\ transfer'.len = c
  <2>1. inode[i].file_size \in Nat
    BY <1>1, FileAssumption DEF fs
  <2> QED BY <1>1, <1>2, <1>3, <2>1, TouchedIs
<1>10. Grows
  <2>1. ASSUME NEW j \in Inodes, inode'[j].file_size # inode[j].file_size
        PROVE  j = i /\ new > fs /\ new = s + c /\ ~(c < 0)
    <3>1. j = i /\ inode'[j].file_size = new /\ new # fs
      BY <1>6, <2>1 DEF fs
    <3> QED BY <1>3, <1>4, <3>1
  <2>2. s_pos(i) + (s + c) = (s_pos(i) + s) + c
    BY <1>3
  <2> QED BY <1>1, <1>6, <1>9, <2>1, <2>2 DEF Grows, fs
<1>11. ASSUME OffsetsInside(file) PROVE OffsetsInside(file') /\ TransferInFile'
  <2>1. o \in 0 .. FILE_SIZE
    BY <1>11 DEF OffsetsInside
  <2> HIDE DEF o
  <2>2. s = o
    BY <1>1, <2>1, Bits32 DEF s
  <2>3. After(o, c) \in 0 .. FILE_SIZE
    BY <1>1, <1>3, <1>4, <2>1, <2>2, AfterIs
  <2>4. OffsetsInside(file')
    BY <1>8, <1>11, <2>3 DEF OffsetsInside
  <2>5. transfer'.from >= s_pos(i) /\ transfer'.from + transfer'.len <= e_pos(i)
    BY <1>3, <1>4, <1>9, <2>1, <2>2, FileAssumption
  <2>6. transfer'.kind # "read"
    BY <1>9
  <2>7. TransferInFile'
    BY <1>9, <2>5, <2>6 DEF TransferInFile, s_pos, e_pos
  <2> QED BY <2>4, <2>7
<1> QED
  BY <1>2, <1>6, <1>8, <1>9, <1>10, <1>11 DEF FileIInv

\* The arguments of lseek that cannot leave a file by its start: neither negative
\* nor so large that the sum with an offset or a size is negative as an int.
Forward == 0 .. U32 \div 2 - 1 - FILE_SIZE

\* lseek: only a result below FILE_SIZE is taken, and it is not negative when
\* the argument points forward.
LEMMA SeekStep ==
  ASSUME FileIInv, NEW h \in Handles, NEW offset \in Offsets,
         NEW whence \in {"SEEK_SET", "SEEK_CUR", "SEEK_END"}, do_lseek(h, offset, whence)
  PROVE  /\ FileIInv' /\ Grows /\ transfer' = transfer
         /\ Offsets \subseteq Forward /\ OffsetsInside(file) => OffsetsInside(file')
<1> DEFINE i == file[h].inode
           o == file[h].offp
           fs == inode[i].file_size
           sum == CASE whence = "SEEK_SET" -> offset
                    [] whence = "SEEK_CUR" -> Signed(o) + offset
                    [] whence = "SEEK_END" -> fs + offset
           new == Signed(Unsigned(sum))
<1>1. /\ i \in Valid(inode) /\ i \in Inodes /\ o \in Int /\ o \in 0 .. U32 - 1 /\ fs \in 0 .. FILE_SIZE
      /\ file[h] # NULL
  BY OpenHandle DEF do_lseek
<1>2. offset \in Int /\ Signed(o) \in Int /\ fs \in Nat
  BY <1>1, Bits32, FileAssumption
<1>3. /\ new < FILE_SIZE
      /\ file' = Moved(file, h, Unsigned(new))
      /\ UNCHANGED <<inode, num_files, transfer>>
  BY DEF do_lseek, do_lseek_regular, Moved
<1>4. sum \in {offset, Signed(o) + offset, fs + offset}
  OBVIOUS
<1> HIDE DEF sum, fs
<1>5. sum \in Int /\ Unsigned(sum) \in Int /\ new \in Int
  <2>1. sum \in Int
    BY <1>2, <1>4
  <2>2. Unsigned(sum) \in 0 .. U32 - 1
    BY <2>1, Bits32
  <2>3. Unsigned(sum) \in Int
    BY <2>2, FileAssumption
  <2> QED BY <2>1, <2>3, Bits32
<1> HIDE DEF new
<1>6. Unsigned(new) \in 0 .. U32 - 1
  BY <1>5, Bits32
<1>7. /\ HandlesSound(inode, file')
      /\ \A k \in Handles : file'[k].offp = IF k = h THEN Unsigned(new) ELSE file[k].offp
  BY <1>1, <1>3, <1>6, MovedSound DEF FileIInv
<1>8. ASSUME Offsets \subseteq Forward, OffsetsInside(file) PROVE OffsetsInside(file')
  <2>1. o \in 0 .. FILE_SIZE /\ offset \in Forward
    BY <1>8 DEF OffsetsInside
  <2> HIDE DEF o
  <2>2. Signed(o) = o
    BY <1>1, <2>1, Bits32
  <2>3. sum \in 0 .. U32 \div 2 - 1
    <3>1. \A a \in 0 .. FILE_SIZE : a + offset \in 0 .. U32 \div 2 - 1 /\ offset \in 0 .. U32 \div 2 - 1
      BY <2>1, FileAssumption DEF Forward
    <3> QED BY <1>1, <1>4, <2>1, <2>2, <3>1
  <2>4. new = sum
    BY <1>5, <2>3, Bits32 DEF new
  <2>5. new \in 0 .. FILE_SIZE /\ new \in 0 .. U32 - 1
    BY <1>3, <1>5, <2>3, <2>4, FileAssumption
  <2>6. Unsigned(new) = new
    BY <1>5, <2>5, Bits32
  <2> QED BY <1>7, <1>8, <2>5, <2>6 DEF OffsetsInside
<1> QED
  BY <1>3, <1>7, <1>8 DEF FileIInv, Grows

-----------------------------------------------------------------------------
\* No file exists.
LEMMA FileStart == FileInit => FileIInv /\ OffsetsInside(file) /\ TransferInFile
<1> SUFFICES ASSUME FileInit PROVE FileIInv /\ OffsetsInside(file) /\ TransferInFile
  OBVIOUS
<1> USE FileAssumption
<1>1. EmptyInode \in InodeRecords /\ EmptyInode.is_valid = FALSE /\ EmptyInode.file_size = 0
  <2>1. 0 \in 0 .. FILE_SIZE /\ {} \in Modes
    BY DEF Modes
  <2> QED BY <2>1, Zenon DEF EmptyInode, InodeRecords
<1>2. Valid(inode) = {}
  BY <1>1 DEF FileInit, Valid
<1>3. TableSound(inode, num_files)
  BY <1>1, <1>2, FS_EmptySet DEF FileInit, TableSound
<1>4. NULL \in HandleRecords /\ NULL.offp = 0
  BY DEF NULL, HandleRecords, Modes
<1>5. HandlesSound(inode, file) /\ OffsetsInside(file)
  BY <1>4 DEF FileInit, HandlesSound, OffsetsInside
<1>6. transfer \in Transfers /\ transfer.kind = "none" /\ transfer.i = 0 /\ transfer.from = 0
  BY InodeNumbers DEF FileInit, NoTransfer, Transfers
<1>7. TransferInFile
  BY <1>6, StorePositions, InodeNumbers DEF TransferInFile
<1> QED
  BY <1>3, <1>5, <1>6, <1>7 DEF FileIInv

\* Every call keeps the table and the file objects right, lets a file only
\* grow, and, when all seeks point forward, keeps the offsets and transfers inside.
LEMMA FileStep ==
  ASSUME FileIInv, FileNext
  PROVE  /\ FileIInv' /\ Grows
         /\ Offsets \subseteq Forward /\ OffsetsInside(file) /\ TransferInFile
              => OffsetsInside(file') /\ TransferInFile'
<1>1. PICK h \in Handles :
        \/ \E name \in Names : do_file_open(h, name)
        \/ \E count \in Counts : do_file_read(h, count) \/ do_file_write(h, count)
        \/ \E offset \in Offsets, whence \in {"SEEK_SET", "SEEK_CUR", "SEEK_END"} :
             do_lseek(h, offset, whence)
        \/ do_close(h)
  BY DEF FileNext
<1>2. transfer' = transfer /\ TransferInFile => TransferInFile'
  BY DEF TransferInFile, s_pos, e_pos
<1>3. ASSUME NEW name \in Names, do_file_open(h, name)
      PROVE  FileIInv' /\ Grows /\ transfer' = transfer /\ (OffsetsInside(file) => OffsetsInside(file'))
  BY <1>3, OpenStep
<1>4. ASSUME NEW count \in Counts, do_file_read(h, count) \/ do_file_write(h, count)
      PROVE  FileIInv' /\ Grows /\ (OffsetsInside(file) => OffsetsInside(file') /\ TransferInFile')
  BY <1>4, ReadStep, WriteStep
<1>5. ASSUME NEW offset \in Offsets, NEW whence \in {"SEEK_SET", "SEEK_CUR", "SEEK_END"},
             do_lseek(h, offset, whence)
      PROVE  /\ FileIInv' /\ Grows /\ transfer' = transfer
             /\ Offsets \subseteq Forward /\ OffsetsInside(file) => OffsetsInside(file')
  BY <1>5, SeekStep
<1>6. CASE do_close(h)
  BY <1>2, <1>6, CloseStep
<1> QED
  BY <1>1, <1>2, <1>3, <1>4, <1>5, <1>6

\* The inode table, the file objects and the last transfer are consistent in
\* every state.
THEOREM FilesInductive == MCSpec => []FileIInv
<1>1. MCInit => FileIInv
  BY FileStart DEF MCInit
<1>2. FileIInv /\ [MCNext]_<<part, pipeVars, fileVars>> => FileIInv'
  BY FileStep DEF MCNext, fileVars, FileIInv
<1> QED
  BY <1>1, <1>2, PTL DEF MCSpec

\* A name is at one inode at most, the files are counted right, and a file
\* object is on a file that exists and never has more rights than it.
THEOREM NamesUnique == MCSpec => []OneInodePerName
<1>1. FileIInv => OneInodePerName
  <2> SUFFICES ASSUME FileIInv PROVE OneInodePerName
    OBVIOUS
  <2>1. FileTypeOK
    <3>1. \A i \in Inodes : inode[i] \in InodeRecords
      BY DEF FileIInv, TableSound
    <3>2. \A h \in Handles : file[h] \in HandleRecords
      BY DEF FileIInv, HandlesSound
    <3>3. transfer.kind \in {"none", "read", "write", "runaway"}
      BY DEF FileIInv, Transfers
    <3>4. \A i \in Inodes : inode[i].mode \in Modes /\ inode[i].file_size \in 0 .. FILE_SIZE
      BY <3>1 DEF InodeRecords
    <3>5. \A h \in Handles : file[h].inode \in Inodes \cup {NUM_FILES} /\ file[h].offp \in 0 .. U32 - 1
      BY <3>2 DEF HandleRecords
    <3> QED BY <3>3, <3>4, <3>5 DEF FileTypeOK
  <2>2. ASSUME NEW name \in Names
        PROVE  Cardinality({i \in Inodes : inode[i].is_valid /\ inode[i].filename = name}) <= 1
    <3> DEFINE S == {i \in Inodes : inode[i].is_valid /\ inode[i].filename = name}
    <3>1. \A i, j \in S : i = j
      BY DEF FileIInv, TableSound, Valid
    <3>2. CASE S = {}
      BY <3>2, FS_EmptySet
    <3>3. CASE S # {}
      <4>1. PICK i \in S : TRUE
        BY <3>3
      <4>2. S = {i}
        BY <3>1, <4>1
      <4>3. Cardinality(S) = 1
        BY <4>2, FS_Singleton
      <4> QED BY <4>3
    <3> QED BY <3>2, <3>3
  <2>3. num_files = Cardinality({i \in Inodes : inode[i].is_valid})
    BY DEF FileIInv, TableSound, Valid
  <2>4. \A h \in Handles : file[h] # NULL => /\ inode[file[h].inode].is_valid
                                             /\ file[h].mode \subseteq inode[file[h].inode].mode
    BY DEF FileIInv, HandlesSound, Valid
  <2> QED BY <2>1, <2>2, <2>3, <2>4 DEF OneInodePerName
<1> QED
  BY <1>1, FilesInductive, PTL

\* A file never shrinks, and grows only to where a write ended, whichever file
\* object it went through.
THEOREM SizesFollow == MCSpec => SizeFollowsWrites
<1>1. FileIInv /\ [MCNext]_<<part, pipeVars, fileVars>> => Grows \/ UNCHANGED fileVars
  BY FileStep DEF MCNext, fileVars
<1>2. Grows => \A i \in Inodes :
                 LET old == inode[i].file_size
                     new == inode'[i].file_size
                 IN  new # old => /\ transfer'.kind = "write" /\ transfer'.i = i
                                  /\ s_pos(i) + new = transfer'.from + transfer'.len
                                  /\ new > old
  BY DEF Grows
<1> QED
  BY <1>1, <1>2, FilesInductive, PTL DEF MCSpec, SizeFollowsWrites

\* No read or write of a pipe or of a file that comes back leaves the bytes it
\* may touch, for every length that fits a u32, the ones that are negative as an
\* int included, up to the first transfer that runs away over one; as long as
\* every seek points forward: a negative result is not refused.
THEOREM StayInPlace ==
  ASSUME Offsets \subseteq Forward
  PROVE  MCSpec => []TransfersInPlace
<1> DEFINE J == FileIInv /\ PositionsAgree /\ OffsetsInside(file) /\ TransferInFile
<1>1. MCInit => J
  BY FileStart, PipeStart DEF MCInit
<1>2. J /\ [MCNext]_<<part, pipeVars, fileVars>> => J'
  <2> SUFFICES ASSUME J, [MCNext]_<<part, pipeVars, fileVars>> PROVE J'
    OBVIOUS
  <2>1. PositionsAgree'
    BY PipeStep DEF MCNext, pipeVars
  <2>2. CASE FileNext
    BY <2>1, <2>2, FileStep
  <2>3. CASE UNCHANGED fileVars
    BY <2>1, <2>3 DEF fileVars, FileIInv, OffsetsInside, TransferInFile, s_pos, e_pos
  <2> QED BY <2>2, <2>3 DEF MCNext
<1>3. J => TransfersInPlace
  BY DEF TransfersInPlace
<1> QED
  BY <1>1, <1>2, <1>3, PTL DEF MCSpec

-----------------------------------------------------------------------------
(***************************************************************************)
(* The pipelines of Assignment 1                                            *)
(***************************************************************************)

\* The places of the three processes of part2.
MainStarts  == {"pipe", "fork", "close", "newpipe", "newfork", "newclose", "exec"}
TeeWorks    == {"born", "open", "read", "file", "write"}
Places      == MainStarts \cup TeeWorks \cup Ends \cup {"unborn"}
PlacesFit ==
  /\ mode \in {"@", "$"}
  /\ at \in [Procs -> Places]
  /\ at["main"] \in MainStarts \cup {"pipeerror", "forkerror", "exit", "stopped"}
  /\ at["grep"] \in {"unborn", "born", "exec", "exit", "SIGPIPE"}
  /\ at["tee"] \in {"unborn", "exit", "SIGPIPE"} \cup TeeWorks
  /\ at["main"] \in {"newpipe", "newfork", "newclose"} => mode = "$"
  /\ at["main"] \in MainStarts => (at["grep"] = "unborn" <=> at["main"] \in {"pipe", "fork"})
  /\ mode = "@" => at["tee"] = "unborn"
  /\ at["tee"] # "unborn" => at["grep"] # "unborn"
  /\ at["main"] \in MainStarts /\ mode = "$" =>
       (at["tee"] = "unborn" <=> at["main"] \notin {"newclose", "exec"})

\* Who holds which end: what main held when it forked, less what was closed.
EndsTyped == rd \in [Pipes -> SUBSET Procs] /\ wr \in [Pipes -> SUBSET Procs]
FirstPipe ==
  /\ "main" \in rd["fd"] <=> at["main"] \in MainStarts \ {"pipe"}
  /\ "grep" \in rd["fd"] <=> at["grep"] = "born"
  /\ "tee"  \in rd["fd"] <=> at["tee"] \in TeeWorks
  /\ "main" \in wr["fd"] <=> at["main"] \in {"fork", "close"}
  /\ "grep" \in wr["fd"] <=> at["grep"] \in {"born", "exec"}
  /\ "tee"  \notin wr["fd"]
SecondPipe ==
  /\ "main" \in rd["newfd"] <=> (at["main"] \in {"newfork", "newclose"} \/ (at["main"] = "exec" /\ mode = "$"))
  /\ "tee"  \in rd["newfd"] <=> at["tee"] = "born"
  /\ "main" \in wr["newfd"] <=> at["main"] \in {"newfork", "newclose"}
  /\ "tee"  \in wr["newfd"] <=> at["tee"] \in TeeWorks
  /\ "grep" \notin rd["newfd"] \cup wr["newfd"]
NoReader ==
  /\ at["grep"] = "SIGPIPE" => rd["fd"] = {}
  /\ at["tee"] = "SIGPIPE" => rd["newfd"] = {}
EndsHeld == EndsTyped /\ FirstPipe /\ SecondPipe /\ NoReader

\* What grep has sent is in the first pipe, with the tee process, or where the
\* first pipe leads to; and the file has what the tee process has dealt with.
Text == Seq(STRING)
InHand(places) == IF at["tee"] \in places THEN tee_char ELSE None
Handled == received \o (pipe["newfd"] \o InHand({"write", "SIGPIPE"}))
BytesFlow ==
  /\ sent \in 0 .. Len(Output)
  /\ tee_char \in Text /\ Len(tee_char) <= 1
  /\ outfile \in Text /\ received \in Text
  /\ outfd \in {"unopened", "opened", "bad"} /\ missed \in BOOLEAN
  /\ pipe \in [Pipes -> Text]
  /\ \A q \in Pipes : Len(pipe[q]) <= PIPE_SIZE
  /\ mode = "@" => outfile = None /\ SubSeq(Output, 1, sent) = received \o pipe["fd"]
  /\ mode = "$" => /\ SubSeq(Output, 1, sent) = (Handled \o InHand({"file"})) \o pipe["fd"]
                   /\ ~missed => outfile = Handled

EndsComplete ==
  /\ at["grep"] = "exit" => sent = Len(Output)
  /\ at["main"] = "exit" => received = Output
  /\ at["tee"] = "exit" => at["grep"] = "exit" /\ pipe["fd"] = <<>>

PipeIInv == PlacesFit /\ EndsHeld /\ BytesFlow /\ EndsComplete

\* Putting sequences of bytes together.
LEMMA TextFacts ==
  /\ <<>> \in Text /\ Len(<<>>) = 0 /\ Output \in Text
  /\ \A s \in Text : /\ Len(s) \in Nat /\ s \o <<>> = s /\ <<>> \o s = s
                     /\ SubSeq(s, 1, Len(s)) = s /\ SubSeq(s, 1, 0) = <<>>
  /\ \A s, t \in Text : s \o t \in Text /\ Len(s \o t) = Len(s) + Len(t)
<1> USE DEF Text
<1>1. <<>> \in Text /\ Len(<<>>) = 0 /\ Output \in Text
  BY EmptySeq, PipelineAssumption
<1>2. ASSUME NEW s \in Text
      PROVE  /\ Len(s) \in Nat /\ s \o <<>> = s /\ <<>> \o s = s
             /\ SubSeq(s, 1, Len(s)) = s /\ SubSeq(s, 1, 0) = <<>>
  BY LenProperties, ConcatEmptySeq, SubSeqFull, SubSeqEmpty
<1>3. ASSUME NEW s \in Text, NEW t \in Text
      PROVE  s \o t \in Text /\ Len(s \o t) = Len(s) + Len(t)
  BY ConcatProperties
<1> QED BY <1>1, <1>2, <1>3

\* It does not matter where three sequences are cut.
LEMMA Regroup == \A s, t, u \in Text : (s \o t) \o u = s \o (t \o u)
BY ConcatAssociative DEF Text

\* At the start main has made no pipe and nothing is sent.
LEMMA PipelineStart == PipelineInit => PipeIInv
<1> SUFFICES ASSUME PipelineInit PROVE PipeIInv
  OBVIOUS
<1>1. PlacesFit
  BY DEF PipelineInit, PlacesFit, Procs, MainStarts, TeeWorks, Places, Ends
<1>2. EndsHeld
  BY DEF PipelineInit, EndsHeld, EndsTyped, FirstPipe, SecondPipe, NoReader, Procs, Pipes, MainStarts, TeeWorks, Places, Ends
<1>3. BytesFlow
  <2>1. Len(Output) \in Nat /\ PIPE_SIZE \in Nat
    BY TextFacts, PipelineAssumption
  <2>2. SubSeq(Output, 1, 0) = <<>> /\ <<>> \in Text /\ Len(<<>>) = 0 /\ <<>> \o <<>> = <<>>
    BY TextFacts
  <2>3. /\ sent = 0 /\ tee_char = <<>> /\ received = <<>> /\ outfile = <<>> /\ outfd = "unopened" /\ missed = FALSE
        /\ pipe = [q \in Pipes |-> <<>>] /\ pipe["fd"] = <<>> /\ pipe["newfd"] = <<>>
    BY DEF PipelineInit, None, Pipes
  <2>4. \A places : InHand(places) = <<>>
    BY <2>3 DEF InHand, None
  <2>5. Handled = <<>>
    BY <2>2, <2>3, <2>4 DEF Handled
  <2>6. pipe \in [Pipes -> Text] /\ \A q \in Pipes : Len(pipe[q]) <= PIPE_SIZE
    BY <2>1, <2>2, <2>3, PipelineAssumption
  <2>7. sent \in 0 .. Len(Output) /\ Len(tee_char) <= 1
    BY <2>1, <2>2, <2>3
  <2>8. SubSeq(Output, 1, sent) = received \o pipe["fd"] /\ outfile = None
    BY <2>2, <2>3 DEF None
  <2>9. SubSeq(Output, 1, sent) = (Handled \o InHand({"file"})) \o pipe["fd"]
    BY <2>2, <2>3, <2>4, <2>5
  <2> QED BY <2>2, <2>3, <2>5, <2>6, <2>7, <2>8, <2>9 DEF BytesFlow
<1>4. EndsComplete
  BY DEF PipelineInit, EndsComplete, Procs
<1> QED
  BY <1>1, <1>2, <1>3, <1>4 DEF PipeIInv

\* A process that ends gives back every end it held.
LEMMA EndingKeepsEnds ==
  ASSUME PlacesFit, EndsHeld, mode' = mode, NEW p \in Procs, NEW l, Exits(p, l),
         p = "main" => at[p] \in MainStarts /\ l \in {"pipeerror", "forkerror", "exit", "stopped"},
         p = "grep" => at[p] = "exec" /\ (l = "exit" \/ (l = "SIGPIPE" /\ rd["fd"] = {})),
         p = "tee"  => at[p] \in TeeWorks /\ (l = "exit" \/ (l = "SIGPIPE" /\ rd["newfd"] = {}))
  PROVE  PlacesFit' /\ EndsHeld'
<1>1. at' = [at EXCEPT ![p] = l] /\ at'[p] = l /\ \A r \in Procs \ {p} : at'[r] = at[r]
  BY DEF Exits, MoveTo, PlacesFit
<1>2. PlacesFit'
  BY <1>1 DEF PlacesFit, Procs, MainStarts, TeeWorks, Places, Ends
<1>3. EndsTyped'
  BY DEF Exits, EndsHeld, EndsTyped
<1>4. \A q \in Pipes : rd'[q] = rd[q] \ {p} /\ wr'[q] = wr[q] \ {p}
  BY DEF Exits
<1>5. rd'["fd"] = rd["fd"] \ {p} /\ wr'["fd"] = wr["fd"] \ {p} /\ rd'["newfd"] = rd["newfd"] \ {p} /\ wr'["newfd"] = wr["newfd"] \ {p}
  BY <1>4 DEF Pipes
<1>6. FirstPipe'
  BY <1>1, <1>5 DEF EndsHeld, FirstPipe, PlacesFit, Procs, MainStarts, TeeWorks
<1>7. SecondPipe'
  BY <1>1, <1>5 DEF EndsHeld, SecondPipe, PlacesFit, Procs, MainStarts, TeeWorks
<1>8. NoReader'
  BY <1>1, <1>5 DEF EndsHeld, NoReader, Procs
<1>9. EndsHeld'
  BY <1>3, <1>6, <1>7, <1>8 DEF EndsHeld
<1> QED BY <1>2, <1>9

\* Whatever a process does, the ends are held by those the places say.
LEMMA EndsStep == PlacesFit /\ EndsHeld /\ PipelineNext => PlacesFit' /\ EndsHeld'
<1> SUFFICES ASSUME PlacesFit, EndsHeld, PipelineNext PROVE PlacesFit' /\ EndsHeld'
  OBVIOUS
<1> USE DEF Procs, Pipes
<1>1. ASSUME NEW l \in {"pipe", "newpipe"}, NEW q \in Pipes, NEW next, new_pipe(l, q, next),
             \/ l = "pipe" /\ q = "fd" /\ next = "fork"
             \/ l = "newpipe" /\ q = "newfd" /\ next = "newfork" /\ mode = "$"
      PROVE  PlacesFit' /\ EndsHeld'
  <2>1. CASE Exits("main", "pipeerror")
    BY <1>1, <2>1, EndingKeepsEnds DEF new_pipe, MainStarts
  <2>2. CASE /\ rd' = [rd EXCEPT ![q] = {"main"}]
             /\ wr' = [wr EXCEPT ![q] = {"main"}]
             /\ MoveTo("main", next)
    <3>1. PlacesFit'
      BY <1>1, <2>2 DEF new_pipe, MoveTo, PlacesFit, MainStarts, TeeWorks, Places, Ends
    <3>2. /\ at'["main"] = next /\ at'["grep"] = at["grep"] /\ at'["tee"] = at["tee"] /\ at["main"] = l /\ mode' = mode
          /\ rd'[q] = {"main"} /\ wr'[q] = {"main"}
          /\ \A r \in Pipes \ {q} : rd'[r] = rd[r] /\ wr'[r] = wr[r]
      BY <1>1, <2>2 DEF new_pipe, MoveTo, PlacesFit, EndsHeld, EndsTyped
    <3>3. EndsTyped'
      BY <2>2 DEF EndsHeld, EndsTyped
    <3>4. FirstPipe'
      BY <1>1, <3>2 DEF EndsHeld, FirstPipe, PlacesFit, MainStarts, TeeWorks
    <3>5. SecondPipe'
      BY <1>1, <3>2 DEF EndsHeld, SecondPipe, PlacesFit, MainStarts, TeeWorks
    <3>6. NoReader'
      BY <1>1, <3>2 DEF EndsHeld, NoReader, FirstPipe, PlacesFit, MainStarts
    <3> QED BY <3>1, <3>3, <3>4, <3>5, <3>6 DEF EndsHeld
  <2> QED BY <1>1, <2>1, <2>2 DEF new_pipe
<1>2. ASSUME NEW l \in {"fork", "newfork"}, NEW c \in Procs, NEW next, fork(l, c, next),
             \/ l = "fork" /\ c = "grep" /\ next = "close"
             \/ l = "newfork" /\ c = "tee" /\ next = "newclose" /\ mode = "$"
      PROVE  PlacesFit' /\ EndsHeld'
  <2> DEFINE inherit(ends) == [q \in Pipes |-> IF "main" \in ends[q] THEN ends[q] \cup {c} ELSE ends[q]]
  <2>1. CASE Exits("main", "forkerror")
    BY <1>2, <2>1, EndingKeepsEnds DEF fork, MainStarts
  <2>2. CASE /\ at' = [at EXCEPT !["main"] = next, ![c] = "born"]
             /\ rd' = inherit(rd) /\ wr' = inherit(wr)
    <3>1. PlacesFit'
      BY <1>2, <2>2 DEF fork, PlacesFit, MainStarts, TeeWorks, Places, Ends
    <3>2. /\ at'["main"] = next /\ at'[c] = "born" /\ at["main"] = l /\ mode' = mode
          /\ at'["grep"] = (IF c = "grep" THEN "born" ELSE at["grep"])
          /\ at'["tee"] = (IF c = "tee" THEN "born" ELSE at["tee"])
      BY <1>2, <2>2 DEF fork, PlacesFit
    <3>3. /\ rd'["fd"] = (IF "main" \in rd["fd"] THEN rd["fd"] \cup {c} ELSE rd["fd"])
          /\ wr'["fd"] = (IF "main" \in wr["fd"] THEN wr["fd"] \cup {c} ELSE wr["fd"])
          /\ rd'["newfd"] = (IF "main" \in rd["newfd"] THEN rd["newfd"] \cup {c} ELSE rd["newfd"])
          /\ wr'["newfd"] = (IF "main" \in wr["newfd"] THEN wr["newfd"] \cup {c} ELSE wr["newfd"])
      BY <2>2
    <3>4. EndsTyped'
      BY <2>2 DEF EndsHeld, EndsTyped
    <3>5. FirstPipe'
      BY <1>2, <3>2, <3>3 DEF EndsHeld, FirstPipe, PlacesFit, MainStarts, TeeWorks
    <3>6. SecondPipe'
      BY <1>2, <3>2, <3>3 DEF EndsHeld, SecondPipe, PlacesFit, MainStarts, TeeWorks
    <3>7. NoReader'
      BY <1>2, <3>2 DEF EndsHeld, NoReader, FirstPipe, PlacesFit, MainStarts
    <3> QED BY <3>1, <3>4, <3>5, <3>6, <3>7 DEF EndsHeld
  <2> QED BY <1>2, <2>1, <2>2 DEF fork
<1>3. ASSUME NEW l \in {"close", "newclose"}, NEW q \in Pipes, NEW next, close_output("main", l, q, next),
             \/ l = "close" /\ q = "fd" /\ ((next = "exec" /\ mode = "@") \/ (next = "newpipe" /\ mode = "$"))
             \/ l = "newclose" /\ q = "newfd" /\ next = "exec" /\ mode = "$"
      PROVE  PlacesFit' /\ EndsHeld'
  <2>1. PlacesFit'
    BY <1>3 DEF close_output, MoveTo, PlacesFit, MainStarts, TeeWorks, Places, Ends
  <2>2. /\ at'["main"] = next /\ at["main"] = l /\ mode' = mode
        /\ at'["grep"] = at["grep"] /\ at'["tee"] = at["tee"]
    BY <1>3 DEF close_output, MoveTo, PlacesFit
  <2>3. wr'[q] = wr[q] \ {"main"} /\ (\A r \in Pipes \ {q} : wr'[r] = wr[r]) /\ rd' = rd
    BY <1>3 DEF close_output, EndsHeld, EndsTyped
  <2>6. EndsTyped'
    BY <1>3 DEF close_output, EndsHeld, EndsTyped
  <2>7. FirstPipe'
    BY <1>3, <2>2, <2>3 DEF EndsHeld, FirstPipe, PlacesFit, MainStarts, TeeWorks
  <2>8. SecondPipe'
    BY <1>3, <2>2, <2>3 DEF EndsHeld, SecondPipe, PlacesFit, MainStarts, TeeWorks
  <2>9. NoReader'
    BY <2>2, <2>3 DEF EndsHeld, NoReader
  <2> QED BY <2>1, <2>6, <2>7, <2>8, <2>9 DEF EndsHeld
<1>4. CASE grep_start
  <2>1. PlacesFit'
    BY <1>4 DEF grep_start, close_input, MoveTo, PlacesFit, MainStarts, TeeWorks, Places, Ends
  <2>2. /\ at'["grep"] = "exec" /\ at["grep"] = "born" /\ mode' = mode
        /\ at'["main"] = at["main"] /\ at'["tee"] = at["tee"]
    BY <1>4 DEF grep_start, close_input, MoveTo, PlacesFit
  <2>3. rd'["fd"] = rd["fd"] \ {"grep"} /\ rd'["newfd"] = rd["newfd"] /\ wr' = wr
    BY <1>4 DEF grep_start, close_input, EndsHeld, EndsTyped
  <2>6. EndsTyped'
    BY <1>4 DEF grep_start, close_input, EndsHeld, EndsTyped
  <2>7. FirstPipe'
    BY <1>4, <2>2, <2>3 DEF EndsHeld, FirstPipe, PlacesFit, MainStarts, TeeWorks
  <2>8. SecondPipe'
    BY <1>4, <2>2, <2>3 DEF EndsHeld, SecondPipe, PlacesFit, MainStarts, TeeWorks
  <2>9. NoReader'
    BY <2>2, <2>3 DEF EndsHeld, NoReader
  <2> QED BY <2>1, <2>6, <2>7, <2>8, <2>9 DEF EndsHeld
<1>5. CASE tee_start
  <2>1. PlacesFit'
    BY <1>5 DEF tee_start, close_input, MoveTo, PlacesFit, MainStarts, TeeWorks, Places, Ends
  <2>2. /\ at'["tee"] = "open" /\ at["tee"] = "born" /\ mode' = mode
        /\ at'["main"] = at["main"] /\ at'["grep"] = at["grep"]
    BY <1>5 DEF tee_start, close_input, MoveTo, PlacesFit
  <2>3. rd'["newfd"] = rd["newfd"] \ {"tee"} /\ rd'["fd"] = rd["fd"] /\ wr' = wr
    BY <1>5 DEF tee_start, close_input, EndsHeld, EndsTyped
  <2>6. EndsTyped'
    BY <1>5 DEF tee_start, close_input, EndsHeld, EndsTyped
  <2>7. FirstPipe'
    BY <1>5, <2>2, <2>3 DEF EndsHeld, FirstPipe, PlacesFit, MainStarts, TeeWorks
  <2>8. SecondPipe'
    BY <1>5, <2>2, <2>3 DEF EndsHeld, SecondPipe, PlacesFit, MainStarts, TeeWorks
  <2>9. NoReader'
    BY <2>2, <2>3 DEF EndsHeld, NoReader
  <2> QED BY <2>1, <2>6, <2>7, <2>8, <2>9 DEF EndsHeld
<1>6. ASSUME UNCHANGED <<mode, at, rd, wr>> PROVE PlacesFit' /\ EndsHeld'
  BY <1>6 DEF PlacesFit, EndsHeld, EndsTyped, FirstPipe, SecondPipe, NoReader
<1>7. CASE grep_write \/ grep_end
  <2>1. CASE Exits("grep", "SIGPIPE") /\ rd["fd"] = {}
    BY <1>7, <2>1, EndingKeepsEnds DEF grep_write, grep_end
  <2>2. CASE Exits("grep", "exit")
    BY <1>7, <2>2, EndingKeepsEnds DEF grep_write, grep_end
  <2> QED BY <1>6, <1>7, <2>1, <2>2 DEF grep_write, grep_end
<1>8. ASSUME NEW l \in {"read", "file", "write"}, at["tee"] \in {"open", "read", "file", "write"},
             UNCHANGED <<mode, rd, wr>>, MoveTo("tee", l)
      PROVE  PlacesFit' /\ EndsHeld'
  <2>1. PlacesFit'
    BY <1>8 DEF MoveTo, PlacesFit, MainStarts, TeeWorks, Places, Ends
  <2>2. EndsHeld'
    <3>1. at'["tee"] = l /\ at'["main"] = at["main"] /\ at'["grep"] = at["grep"]
      BY <1>8 DEF MoveTo, PlacesFit
    <3>2. EndsTyped'
      BY <1>8 DEF EndsHeld, EndsTyped
    <3>3. FirstPipe'
      BY <1>8, <3>1 DEF EndsHeld, FirstPipe, TeeWorks
    <3>4. SecondPipe'
      BY <1>8, <3>1 DEF EndsHeld, SecondPipe, TeeWorks
    <3>5. NoReader'
      BY <1>8, <3>1 DEF EndsHeld, NoReader
    <3> QED BY <3>2, <3>3, <3>4, <3>5 DEF EndsHeld
  <2> QED BY <2>1, <2>2
<1>9. CASE tee_open \/ tee_read \/ tee_file \/ tee_write
  <2>1. CASE Exits("tee", "SIGPIPE") /\ rd["newfd"] = {} /\ at["tee"] = "write"
    BY <1>9, <2>1, EndingKeepsEnds DEF tee_open, tee_read, tee_file, tee_write, TeeWorks
  <2>2. CASE Exits("tee", "exit") /\ at["tee"] = "read"
    BY <1>9, <2>2, EndingKeepsEnds DEF tee_open, tee_read, tee_file, tee_write, TeeWorks
  <2> QED BY <1>8, <1>9, <2>1, <2>2 DEF tee_open, tee_read, tee_file, tee_write
<1>10. CASE cmd_read \/ cmd_stop
  <2>1. CASE Exits("main", "exit") /\ at["main"] = "exec"
    BY <1>10, <2>1, EndingKeepsEnds DEF cmd_read, cmd_stop, MainStarts
  <2>2. CASE Exits("main", "stopped") /\ at["main"] = "exec"
    BY <1>10, <2>2, EndingKeepsEnds DEF cmd_read, cmd_stop, MainStarts
  <2> QED BY <1>6, <1>10, <2>1, <2>2 DEF cmd_read, cmd_stop
<1>11. CASE main_count
  BY <1>1, <1>2, <1>3, <1>11 DEF main_count
<1>12. CASE main_tee
  BY <1>1, <1>2, <1>3, <1>12 DEF main_tee
<1> QED
  BY <1>4, <1>5, <1>7, <1>9, <1>10, <1>11, <1>12 DEF PipelineNext, GrepStep, TeeStep, MainStep

\* Taking the first element from one sequence and putting it behind another one
\* leaves the two together as they were.
LEMMA HeadMoves ==
  ASSUME NEW s \in Text, NEW t \in Text, t # <<>>
  PROVE  /\ Head(t) \in STRING /\ Tail(t) \in Text /\ <<Head(t)>> \in Text
         /\ Len(Tail(t)) <= Len(t)
         /\ Append(s, Head(t)) = s \o <<Head(t)>> /\ Append(s, Head(t)) \in Text
         /\ (s \o <<Head(t)>>) \o Tail(t) = s \o t
<1> USE DEF Text
<1>1. Head(t) \in STRING /\ Tail(t) \in Text /\ Len(Tail(t)) = Len(t) - 1 /\ Len(t) \in Nat
  BY HeadTailProperties, LenProperties
<1>2. <<Head(t)>> \in Text
  BY <1>1
<1>3. Append(s, Head(t)) = s \o <<Head(t)>> /\ Append(s, Head(t)) \in Text
  BY <1>1, AppendIsConcat, AppendProperties
<1>4. t = <<Head(t)>> \o Tail(t)
  <2>1. Len(t) >= 1 /\ 1 \in 1 .. Len(t) /\ Len(t) \in 1 .. Len(t)
    BY <1>1, EmptySeq
  <2>2. SubSeq(t, 1, Len(t)) = <<t[1]>> \o SubSeq(t, 2, Len(t))
    BY <2>1, SubSeqRecursiveFirst
  <2>3. SubSeq(t, 1, Len(t)) = t /\ Tail(t) = SubSeq(t, 2, Len(t)) /\ Head(t) = t[1]
    BY <2>1, SubSeqFull, TailIsSubSeq, HeadTailOfSubSeq
  <2> QED BY <2>2, <2>3
<1>5. (s \o <<Head(t)>>) \o Tail(t) = s \o t
  BY <1>1, <1>2, <1>4, ConcatAssociative
<1> QED BY <1>1, <1>2, <1>3, <1>5

\* What grep has sent grows by the byte it puts into the pipe.
LEMMA SendsOne ==
  ASSUME NEW s \in Text, NEW t \in Text, NEW n \in 0 .. Len(Output) - 1,
         SubSeq(Output, 1, n) = s \o t
  PROVE  /\ Append(t, Output[n + 1]) \in Text /\ Len(Append(t, Output[n + 1])) = Len(t) + 1
         /\ SubSeq(Output, 1, n + 1) = s \o Append(t, Output[n + 1])
<1> USE DEF Text
<1>1. Output \in Text /\ Len(Output) \in Nat
  BY PipelineAssumption
<1>2. Output[n + 1] \in STRING /\ <<Output[n + 1]>> \in Text
  BY <1>1, ElementOfSeq
<1>3. Append(t, Output[n + 1]) = t \o <<Output[n + 1]>>
  BY <1>2, AppendIsConcat
<1>4. SubSeq(Output, 1, n + 1) = SubSeq(Output, 1, n) \o <<Output[n + 1]>>
  <2>1. 1 \in 1 .. Len(Output) /\ n + 1 \in 1 .. Len(Output) /\ (n + 1) - 1 = n
    BY <1>1
  <2> QED BY <1>1, <2>1, SubSeqRecursiveSecond
<1>5. (s \o t) \o <<Output[n + 1]>> = s \o (t \o <<Output[n + 1]>>)
  BY <1>2, ConcatAssociative
<1> QED BY <1>2, <1>3, <1>4, <1>5, AppendProperties

\* The processes together lose no byte, and add or reorder none.
LEMMA FlowStep == PlacesFit /\ BytesFlow /\ PipelineNext => BytesFlow'
<1> SUFFICES ASSUME PlacesFit, BytesFlow, PipelineNext PROVE BytesFlow'
  OBVIOUS
<1> USE DEF Procs, Pipes, None, outVars
<1>1. /\ Output \in Text /\ Len(Output) \in Nat /\ PIPE_SIZE \in Nat
      /\ <<>> \in Text /\ Len(<<>>) = 0
      /\ \A s \in Text : s \o <<>> = s /\ Len(s) \in Nat
  BY PipelineAssumption, TextFacts
<1>2. \A places : InHand(places) \in Text
  BY <1>1 DEF InHand, BytesFlow
<1>3. pipe["fd"] \in Text /\ pipe["newfd"] \in Text
  BY DEF BytesFlow
<1>h. Handled \in Text
  <2>1. received \in Text /\ pipe["newfd"] \in Text /\ InHand({"write", "SIGPIPE"}) \in Text
    BY <1>2, <1>3 DEF BytesFlow
  <2> QED BY <2>1, TextFacts DEF Handled
<1>4. ASSUME UNCHANGED <<mode, pipe, sent, tee_char, outVars, received>>,
             InHand({"file"})' = InHand({"file"}),
             InHand({"write", "SIGPIPE"})' = InHand({"write", "SIGPIPE"})
      PROVE  BytesFlow'
  <2>1. Handled' = Handled
    BY <1>4 DEF Handled
  <2> QED BY <1>4, <2>1 DEF BytesFlow
<1>5. ASSUME UNCHANGED tee_char, at'["tee"] = at["tee"]
      PROVE  /\ InHand({"file"})' = InHand({"file"})
             /\ InHand({"write", "SIGPIPE"})' = InHand({"write", "SIGPIPE"})
  BY <1>5 DEF InHand
<1>6. CASE grep_start \/ grep_end \/ cmd_stop
  <2>1. UNCHANGED <<mode, pipe, sent, tee_char, outVars, received>> /\ at'["tee"] = at["tee"]
    BY <1>6 DEF grep_start, grep_end, cmd_stop, close_input, Exits, MoveTo, PlacesFit
  <2> QED BY <1>4, <1>5, <2>1
<1>7. CASE main_count \/ main_tee
  <2>1. ASSUME NEW l, NEW q, NEW next, new_pipe(l, q, next) PROVE BytesFlow'
    <3>1. UNCHANGED <<mode, pipe, sent, tee_char, outVars, received>> /\ at'["tee"] = at["tee"]
      BY <2>1 DEF new_pipe, Exits, MoveTo, PlacesFit
    <3> QED BY <1>4, <1>5, <3>1
  <2>2. ASSUME NEW l, NEW q, NEW next, close_output("main", l, q, next) PROVE BytesFlow'
    <3>1. UNCHANGED <<mode, pipe, sent, tee_char, outVars, received>> /\ at'["tee"] = at["tee"]
      BY <2>2 DEF close_output, MoveTo, PlacesFit
    <3> QED BY <1>4, <1>5, <3>1
  <2>3. ASSUME NEW l \in {"fork", "newfork"}, NEW c \in {"grep", "tee"}, NEW next, fork(l, c, next),
               c = "tee" => l = "newfork"
        PROVE  BytesFlow'
    <3>1. UNCHANGED <<mode, pipe, sent, tee_char, outVars, received>>
      BY <2>3 DEF fork
    <3>2. at'["tee"] = at["tee"] \/ (at["tee"] = "unborn" /\ at'["tee"] = "born")
      BY <2>3 DEF fork, Exits, MoveTo, PlacesFit, MainStarts
    <3>3. InHand({"file"})' = InHand({"file"}) /\ InHand({"write", "SIGPIPE"})' = InHand({"write", "SIGPIPE"})
      BY <3>1, <3>2 DEF InHand
    <3> QED BY <1>4, <3>1, <3>3
  <2> QED BY <1>7, <2>1, <2>2, <2>3 DEF main_count, main_tee
<1>8. CASE grep_write
  <2>1. CASE rd["fd"] = {} /\ Exits("grep", "SIGPIPE") /\ UNCHANGED <<pipe, sent>>
    <3>1. UNCHANGED <<mode, pipe, sent, tee_char, outVars, received>> /\ at'["tee"] = at["tee"]
      BY <1>8, <2>1 DEF grep_write, Exits, MoveTo, PlacesFit
    <3> QED BY <1>4, <1>5, <3>1
  <2>2. CASE /\ CanWrite("fd")
             /\ pipe' = [pipe EXCEPT !["fd"] = Append(@, Output[sent + 1])]
             /\ sent' = sent + 1
             /\ UNCHANGED <<at, rd, wr>>
    <3> DEFINE s == IF mode = "@" THEN received ELSE Handled \o InHand({"file"})
    <3>1. s \in Text
      BY <1>2, <1>h, TextFacts DEF BytesFlow
    <3>2. sent \in 0 .. Len(Output) - 1 /\ SubSeq(Output, 1, sent) = s \o pipe["fd"]
      <4>1. sent \in 0 .. Len(Output) /\ sent < Len(Output)
        BY <1>8 DEF BytesFlow, grep_write
      <4>2. sent \in 0 .. Len(Output) - 1
        BY <1>1, <4>1
      <4>3. mode = "@" => SubSeq(Output, 1, sent) = received \o pipe["fd"]
        BY DEF BytesFlow
      <4>4. mode = "$" => SubSeq(Output, 1, sent) = (Handled \o InHand({"file"})) \o pipe["fd"]
        BY DEF BytesFlow
      <4>5. mode = "@" \/ mode = "$"
        BY DEF PlacesFit
      <4> QED BY <4>2, <4>3, <4>4, <4>5
    <3> HIDE DEF s
    <3>3. /\ pipe'["fd"] = Append(pipe["fd"], Output[sent + 1]) /\ pipe'["newfd"] = pipe["newfd"]
          /\ pipe'["fd"] \in Text /\ Len(pipe'["fd"]) = Len(pipe["fd"]) + 1
          /\ SubSeq(Output, 1, sent') = s \o pipe'["fd"]
      BY <1>3, <2>2, <3>1, <3>2, SendsOne DEF BytesFlow
    <3>4. pipe' \in [Pipes -> Text] /\ sent' \in 0 .. Len(Output)
      BY <1>1, <2>2, <3>2, <3>3 DEF BytesFlow
    <3>5. \A q \in Pipes : Len(pipe'[q]) <= PIPE_SIZE
      BY <1>1, <1>3, <2>2, <3>3 DEF BytesFlow, CanWrite
    <3>6. InHand({"file"})' = InHand({"file"}) /\ InHand({"write", "SIGPIPE"})' = InHand({"write", "SIGPIPE"})
      BY <1>5, <1>8, <2>2 DEF grep_write
    <3>7. UNCHANGED <<mode, tee_char, outVars, received>>
      BY <1>8 DEF grep_write
    <3>8. Handled' = Handled
      BY <3>3, <3>6, <3>7 DEF Handled
    <3> QED BY <3>3, <3>4, <3>5, <3>6, <3>7, <3>8 DEF s, BytesFlow
  <2> QED BY <1>8, <2>1, <2>2 DEF grep_write
<1>9. CASE tee_start
  <2>1. UNCHANGED <<mode, pipe, sent, tee_char, outVars, received>> /\ at["tee"] = "born" /\ at'["tee"] = "open"
    BY <1>9 DEF tee_start, close_input, MoveTo, PlacesFit
  <2> QED BY <1>4, <2>1 DEF InHand
<1>o. CASE tee_open
  <2>1. UNCHANGED <<mode, pipe, sent, tee_char, outfile, missed, received>> /\ at["tee"] = "open" /\ at'["tee"] = "read"
    BY <1>o DEF tee_open, MoveTo, PlacesFit
  <2>2. InHand({"file"})' = InHand({"file"}) /\ InHand({"write", "SIGPIPE"})' = InHand({"write", "SIGPIPE"})
    BY <2>1 DEF InHand
  <2>3. Handled' = Handled
    BY <2>1, <2>2 DEF Handled
  <2>4. outfd' \in {"unopened", "opened", "bad"}
    BY <1>o DEF tee_open
  <2> QED BY <2>1, <2>2, <2>3, <2>4 DEF BytesFlow
<1>10. CASE tee_read
  <2>0. mode = "$"
    BY <1>10 DEF tee_read, PlacesFit
  <2>1. CASE AtEnd("fd") /\ Exits("tee", "exit") /\ UNCHANGED <<pipe, tee_char>>
    <3>1. UNCHANGED <<mode, pipe, sent, tee_char, outVars, received>> /\ at["tee"] = "read" /\ at'["tee"] = "exit"
      BY <1>10, <2>1 DEF tee_read, Exits, MoveTo, PlacesFit
    <3> QED BY <1>4, <3>1 DEF InHand
  <2>2. CASE /\ CanRead("fd")
             /\ tee_char' = <<Head(pipe["fd"])>>
             /\ pipe' = [pipe EXCEPT !["fd"] = Tail(@)]
             /\ MoveTo("tee", "file")
             /\ UNCHANGED <<rd, wr>>
    <3>1. at["tee"] = "read" /\ at'["tee"] = "file"
      BY <1>10, <2>2 DEF tee_read, MoveTo, PlacesFit
    <3>2. InHand({"file"}) = <<>> /\ InHand({"write", "SIGPIPE"}) = <<>>
      BY <3>1 DEF InHand
    <3>3. InHand({"file"})' = <<Head(pipe["fd"])>> /\ InHand({"write", "SIGPIPE"})' = <<>>
      BY <2>2, <3>1 DEF InHand
    <3>4. Handled \in Text /\ pipe["fd"] # <<>>
      BY <1>h, <2>2 DEF CanRead
    <3>5. /\ Tail(pipe["fd"]) \in Text /\ <<Head(pipe["fd"])>> \in Text
          /\ Len(Tail(pipe["fd"])) <= Len(pipe["fd"])
          /\ (Handled \o <<Head(pipe["fd"])>>) \o Tail(pipe["fd"]) = Handled \o pipe["fd"]
      BY <1>3, <3>4, HeadMoves
    <3>6. /\ pipe' \in [Pipes -> Text] /\ pipe'["fd"] = Tail(pipe["fd"]) /\ pipe'["newfd"] = pipe["newfd"]
          /\ \A q \in Pipes : Len(pipe'[q]) <= PIPE_SIZE
      BY <1>1, <1>3, <2>2, <3>5 DEF BytesFlow
    <3>7. SubSeq(Output, 1, sent) = (Handled \o InHand({"file"})') \o pipe'["fd"]
      BY <1>1, <2>0, <3>2, <3>3, <3>4, <3>5, <3>6 DEF BytesFlow
    <3>8. tee_char' \in Text /\ Len(tee_char') <= 1
      BY <2>2, <3>5
    <3>10. UNCHANGED <<mode, sent, outVars, received>>
      BY <1>10 DEF tee_read
    <3>9. Handled' = Handled
      BY <3>2, <3>3, <3>6, <3>10 DEF Handled
    <3> QED BY <2>0, <3>6, <3>7, <3>8, <3>9, <3>10 DEF BytesFlow
  <2> QED BY <1>10, <2>1, <2>2 DEF tee_read
<1>11. CASE tee_file
  <2>1. mode = "$" /\ at["tee"] = "file" /\ at'["tee"] = "write"
    BY <1>11 DEF tee_file, MoveTo, PlacesFit
  <2>2. tee_char \in Text /\ outfile \in Text /\ received \in Text
    BY DEF BytesFlow
  <2>3. /\ UNCHANGED <<mode, pipe, sent, tee_char, outfd, received>>
        /\ (outfile' = outfile \o tee_char /\ missed' = missed) \/ (outfile' = outfile /\ missed' = TRUE)
    BY <1>11 DEF tee_file
  <2>4. /\ InHand({"file"}) = tee_char /\ InHand({"write", "SIGPIPE"}) = <<>>
        /\ InHand({"file"})' = <<>> /\ InHand({"write", "SIGPIPE"})' = tee_char
    BY <2>1, <2>3 DEF InHand
  <2>5. Handled = received \o pipe["newfd"]
    BY <1>1, <1>3, <2>4 DEF Handled
  <2>6. Handled' = Handled \o tee_char
    <3>1. (received \o pipe["newfd"]) \o tee_char = received \o (pipe["newfd"] \o tee_char)
      <4>1. received \in Text /\ pipe["newfd"] \in Text /\ tee_char \in Text
        BY <1>3, <2>2
      <4> QED BY <4>1, Regroup
    <3>2. Handled' = received' \o (pipe'["newfd"] \o InHand({"write", "SIGPIPE"})')
      BY DEF Handled
    <3> QED BY <2>3, <2>4, <2>5, <3>1, <3>2
  <2>7. outfile' \in Text /\ missed' \in BOOLEAN /\ (~missed' => outfile' = Handled')
    <3>1. outfile \o tee_char \in Text
      BY <2>2, TextFacts
    <3>2. missed \in BOOLEAN /\ (~missed => outfile = Handled)
      BY <2>1 DEF BytesFlow
    <3> QED BY <2>2, <2>3, <2>6, <3>1, <3>2
  <2>8. SubSeq(Output, 1, sent) = (Handled' \o InHand({"file"})') \o pipe["fd"]
    <3>1. Handled' \in Text
      BY <1>h, <2>2, <2>6, TextFacts
    <3>2. Handled' \o <<>> = Handled'
      BY <1>1, <3>1
    <3>3. SubSeq(Output, 1, sent) = (Handled \o tee_char) \o pipe["fd"]
      BY <2>1, <2>4 DEF BytesFlow
    <3> QED BY <2>4, <2>6, <3>2, <3>3
  <2> QED BY <2>1, <2>3, <2>7, <2>8 DEF BytesFlow
<1>12. CASE tee_write
  <2>1. mode = "$" /\ at["tee"] = "write"
    BY <1>12 DEF tee_write, PlacesFit
  <2>2. CASE rd["newfd"] = {} /\ Exits("tee", "SIGPIPE") /\ UNCHANGED <<pipe, tee_char>>
    <3>1. UNCHANGED <<mode, pipe, sent, tee_char, outVars, received>> /\ at'["tee"] = "SIGPIPE"
      BY <1>12, <2>2 DEF tee_write, Exits, MoveTo, PlacesFit
    <3> QED BY <1>4, <2>1, <3>1 DEF InHand
  <2>3. CASE /\ CanWrite("newfd")
             /\ pipe' = [pipe EXCEPT !["newfd"] = @ \o tee_char]
             /\ tee_char' = None
             /\ MoveTo("tee", "read")
             /\ UNCHANGED <<rd, wr>>
    <3>1. at'["tee"] = "read"
      BY <2>3 DEF MoveTo, PlacesFit
    <3>2. /\ InHand({"file"}) = <<>> /\ InHand({"write", "SIGPIPE"}) = tee_char
          /\ InHand({"file"})' = <<>> /\ InHand({"write", "SIGPIPE"})' = <<>>
      BY <2>1, <3>1 DEF InHand
    <3>3. tee_char \in Text /\ Len(tee_char) \in Nat /\ Len(tee_char) <= 1 /\ Len(pipe["newfd"]) \in Nat
      BY <1>1, <1>3 DEF BytesFlow
    <3>4. /\ pipe["newfd"] \o tee_char \in Text
          /\ Len(pipe["newfd"] \o tee_char) = Len(pipe["newfd"]) + Len(tee_char)
      BY <1>3, <3>3, TextFacts
    <3>5. pipe' \in [Pipes -> Text] /\ pipe'["fd"] = pipe["fd"] /\ pipe'["newfd"] = pipe["newfd"] \o tee_char
      BY <2>3, <3>4 DEF BytesFlow
    <3>6. \A q \in Pipes : Len(pipe'[q]) <= PIPE_SIZE
      BY <1>1, <2>3, <3>3, <3>4, <3>5 DEF BytesFlow, CanWrite
    <3>8. UNCHANGED <<mode, sent, outVars, received>>
      BY <1>12 DEF tee_write
    <3>7. Handled' = Handled
      <4>1. pipe'["newfd"] \o <<>> = pipe["newfd"] \o tee_char
        BY <1>1, <3>4, <3>5
      <4> QED BY <3>2, <3>8, <4>1 DEF Handled
    <3>9. tee_char' = <<>>
      BY <2>3
    <3>10. tee_char' \in Text /\ Len(tee_char') <= 1
      BY <1>1, <3>9
    <3>11. SubSeq(Output, 1, sent') = (Handled' \o InHand({"file"})') \o pipe'["fd"]
      BY <2>1, <3>2, <3>5, <3>7, <3>8 DEF BytesFlow
    <3> QED BY <2>1, <3>5, <3>6, <3>7, <3>8, <3>10, <3>11 DEF BytesFlow
  <2> QED BY <1>12, <2>2, <2>3 DEF tee_write
<1>13. CASE cmd_read
  <2>1. CASE AtEnd(Stdin) /\ Exits("main", "exit") /\ UNCHANGED <<pipe, received>>
    <3>1. UNCHANGED <<mode, pipe, sent, tee_char, outVars, received>> /\ at'["tee"] = at["tee"]
      BY <1>13, <2>1 DEF cmd_read, Exits, MoveTo, PlacesFit
    <3> QED BY <1>4, <1>5, <3>1
  <2>2. CASE /\ CanRead(Stdin)
             /\ received' = Append(received, Head(pipe[Stdin]))
             /\ pipe' = [pipe EXCEPT ![Stdin] = Tail(@)]
             /\ UNCHANGED <<at, rd, wr>>
    <3>1. UNCHANGED <<mode, sent, tee_char, outVars>>
      BY <1>13 DEF cmd_read
    <3>2. InHand({"file"})' = InHand({"file"}) /\ InHand({"write", "SIGPIPE"})' = InHand({"write", "SIGPIPE"})
      BY <1>5, <2>2, <3>1
    <3>3. Stdin \in Pipes /\ pipe[Stdin] \in Text /\ pipe[Stdin] # <<>> /\ received \in Text
      BY <1>3, <2>2 DEF Stdin, CanRead, BytesFlow
    <3> DEFINE s == pipe[Stdin]
    <3>s. s \in Text /\ s # <<>> /\ received' = Append(received, Head(s))
      BY <2>2, <3>3
    <3>t. /\ mode = "@" => SubSeq(Output, 1, sent) = received \o s
          /\ Len(s) <= PIPE_SIZE
      BY <3>3 DEF BytesFlow, Stdin
    <3>u. mode = "$" => Handled = received \o (s \o InHand({"write", "SIGPIPE"}))
      BY DEF Handled, Stdin
    <3>v. \A q \in Pipes : pipe'[q] = IF q = Stdin THEN Tail(s) ELSE pipe[q]
      BY <2>2, <3>3 DEF BytesFlow
    <3> HIDE DEF s
    <3>4. /\ Head(s) \in STRING /\ Tail(s) \in Text /\ <<Head(s)>> \in Text
          /\ Len(Tail(s)) <= Len(s)
          /\ received' = received \o <<Head(s)>> /\ received' \in Text
          /\ received' \o Tail(s) = received \o s
      <4>1. received \in Text
        BY <3>3
      <4>2. /\ Head(s) \in STRING /\ Tail(s) \in Text /\ <<Head(s)>> \in Text
            /\ Len(Tail(s)) <= Len(s)
            /\ Append(received, Head(s)) = received \o <<Head(s)>> /\ Append(received, Head(s)) \in Text
            /\ (received \o <<Head(s)>>) \o Tail(s) = received \o s
        BY <3>s, <4>1, HeadMoves
      <4> QED BY <3>s, <4>2
    <3>5. pipe' \in [Pipes -> Text]
      BY <2>2, <3>3, <3>4 DEF s, BytesFlow
    <3>6. \A q \in Pipes : Len(pipe'[q]) <= PIPE_SIZE
      <4>1. Len(Tail(s)) <= PIPE_SIZE
        BY <1>1, <3>4, <3>s, <3>t
      <4> QED BY <3>v, <4>1 DEF BytesFlow
    <3>7. mode = "@" => SubSeq(Output, 1, sent) = received' \o pipe'["fd"]
      BY <3>4, <3>t, <3>v DEF Stdin
    <3>8. ASSUME mode = "$"
          PROVE  Handled' = Handled
      <4> DEFINE h == InHand({"write", "SIGPIPE"})
      <4>1. Stdin = "newfd" /\ h \in Text
        BY <1>2, <3>8 DEF Stdin
      <4>2. Handled = received \o (s \o h)
        BY <3>8, <3>u
      <4> HIDE DEF h
      <4>3. (received \o s) \o h = received \o (s \o h)
        <5>1. received \in Text /\ s \in Text /\ h \in Text
          BY <3>3, <3>s, <4>1
        <5> QED BY <5>1, Regroup
      <4>4. (received' \o Tail(s)) \o h = received' \o (Tail(s) \o h)
        <5>1. received' \in Text /\ Tail(s) \in Text /\ h \in Text
          BY <3>4, <4>1
        <5> QED BY <5>1, Regroup
      <4>5. pipe'["newfd"] = Tail(s)
        BY <3>v, <4>1
      <4>6. Handled' = received' \o (pipe'["newfd"] \o InHand({"write", "SIGPIPE"})')
        BY DEF Handled
      <4> QED BY <3>2, <3>4, <4>2, <4>3, <4>4, <4>5, <4>6 DEF h
    <3>9. mode = "$" => pipe'["fd"] = pipe["fd"]
      BY <3>v DEF Stdin
    <3> QED BY <3>1, <3>2, <3>4, <3>5, <3>6, <3>7, <3>8, <3>9 DEF BytesFlow
  <2> QED BY <1>13, <2>1, <2>2 DEF cmd_read
<1> QED
  BY <1>o, <1>6, <1>7, <1>8, <1>9, <1>10, <1>11, <1>12, <1>13 DEF PipelineNext, GrepStep, TeeStep, MainStep

\* A process that saw the end of its input has had all of it.
LEMMA CompleteStep == PipeIInv /\ PipelineNext => EndsComplete'
<1> SUFFICES ASSUME PipeIInv, PipelineNext PROVE EndsComplete'
  OBVIOUS
<1> USE DEF Procs, Pipes, None
<1>1. PlacesFit /\ EndsHeld /\ BytesFlow /\ EndsComplete
  BY DEF PipeIInv
<1>2. /\ Output \in Text /\ SubSeq(Output, 1, Len(Output)) = Output
      /\ \A s \in Text : s \o <<>> = s /\ <<>> \o s = s
      /\ received \in Text
  BY <1>1, TextFacts DEF BytesFlow
<1>h. Handled \in Text
  <2>1. received \in Text /\ pipe["newfd"] \in Text /\ tee_char \in Text /\ <<>> \in Text
    BY <1>1, TextFacts DEF BytesFlow
  <2>2. InHand({"write", "SIGPIPE"}) \in Text
    BY <2>1 DEF InHand
  <2> QED BY <2>1, <2>2, TextFacts DEF Handled
<1>3. ASSUME AtEnd("fd"), rd["fd"] # {}, at["grep"] # "unborn"
      PROVE  pipe["fd"] = <<>> /\ SubSeq(Output, 1, sent) = Output /\ at["grep"] = "exit"
  <2>1. at["grep"] = "exit"
    BY <1>1, <1>3 DEF AtEnd, PlacesFit, EndsHeld, FirstPipe, SecondPipe, NoReader
  <2> QED BY <1>1, <1>2, <1>3, <2>1 DEF AtEnd, EndsComplete
<1>4. at'["grep"] = "exit" => sent' = Len(Output)
  <2>1. at["grep"] = "exit" => at["grep"] # "exec"
    OBVIOUS
  <2>2. at'["grep"] = "exit" /\ at["grep"] # "exit" => sent' = Len(Output)
    BY <1>1 DEF PipelineNext, GrepStep, TeeStep, MainStep, grep_start, grep_write, grep_end, tee_start, tee_open, tee_read,
                tee_file, tee_write, main_count, main_tee, cmd_read, cmd_stop, new_pipe, fork, close_input,
                close_output, Exits, MoveTo, PlacesFit
  <2>3. at["grep"] = "exit" => sent' = sent
    BY <1>1 DEF PipelineNext, GrepStep, TeeStep, MainStep, grep_start, grep_write, grep_end, tee_start, tee_open, tee_read,
                tee_file, tee_write, main_count, main_tee, cmd_read, cmd_stop, new_pipe, fork, close_input,
                close_output
  <2> QED BY <1>1, <2>2, <2>3 DEF EndsComplete
<1>5. at'["tee"] = "exit" => at'["grep"] = "exit" /\ pipe'["fd"] = <<>>
  <2>1. ASSUME at["tee"] = "exit" PROVE at'["grep"] = "exit" /\ pipe'["fd"] = <<>>
    <3>1. at["grep"] = "exit" /\ pipe["fd"] = <<>> /\ mode = "$"
      BY <1>1, <2>1 DEF EndsComplete, PlacesFit
    <3>2. Stdin = "newfd"
      BY <3>1 DEF Stdin
    <3>3. pipe'["fd"] = pipe["fd"]
      BY <1>1, <2>1, <3>1, <3>2 DEF BytesFlow, PipelineNext, GrepStep, TeeStep, MainStep, grep_start, grep_write, grep_end, tee_start, tee_open, tee_read,
                tee_file, tee_write, main_count, main_tee, cmd_read, cmd_stop, new_pipe, fork, close_input,
                close_output
    <3>4. at'["grep"] = "exit"
      BY <1>1, <2>1, <3>1 DEF PipelineNext, GrepStep, TeeStep, MainStep, grep_start, grep_write, grep_end, tee_start, tee_open, tee_read,
                tee_file, tee_write, main_count, main_tee, cmd_read, cmd_stop, new_pipe, fork, close_input,
                close_output, Exits, MoveTo, PlacesFit
    <3> QED BY <3>1, <3>3, <3>4
  <2>2. ASSUME at'["tee"] = "exit", at["tee"] # "exit" PROVE at'["grep"] = "exit" /\ pipe'["fd"] = <<>>
    <3>1. tee_read /\ AtEnd("fd") /\ pipe' = pipe /\ at'["grep"] = at["grep"]
      BY <1>1, <2>2 DEF PipelineNext, GrepStep, TeeStep, MainStep, grep_start, grep_write, grep_end, tee_start, tee_open, tee_read,
                tee_file, tee_write, main_count, main_tee, cmd_read, cmd_stop, new_pipe, fork, close_input,
                close_output, Exits, MoveTo, PlacesFit
    <3>2. at["tee"] = "read" /\ mode = "$" /\ rd["fd"] # {}
      BY <1>1, <3>1 DEF tee_read, PlacesFit, EndsHeld, FirstPipe, SecondPipe, TeeWorks
    <3>3. at["grep"] # "unborn"
      BY <1>1, <3>2 DEF PlacesFit
    <3> QED BY <1>3, <3>1, <3>2, <3>3
  <2> QED BY <2>1, <2>2
<1>6. at'["main"] = "exit" => received' = Output
  <2>1. ASSUME at["main"] = "exit" PROVE received' = received
    BY <1>1, <2>1 DEF PipelineNext, GrepStep, TeeStep, MainStep, grep_start, grep_write, grep_end, tee_start, tee_open, tee_read,
                tee_file, tee_write, main_count, main_tee, cmd_read, cmd_stop, new_pipe, fork, close_input,
                close_output
  <2>2. ASSUME at'["main"] = "exit", at["main"] # "exit" PROVE received' = Output
    <3>1. at["main"] = "exec" /\ AtEnd(Stdin) /\ received' = received
      BY <1>1, <2>2 DEF PipelineNext, GrepStep, TeeStep, MainStep, grep_start, grep_write, grep_end, tee_start, tee_open, tee_read,
                tee_file, tee_write, main_count, main_tee, cmd_read, cmd_stop, new_pipe, fork, close_input,
                close_output, Exits, MoveTo, PlacesFit
    <3>2. CASE mode = "@"
      <4>1. AtEnd("fd") /\ rd["fd"] # {} /\ at["grep"] # "unborn"
        BY <1>1, <3>1, <3>2 DEF Stdin, PlacesFit, EndsHeld, FirstPipe, SecondPipe, MainStarts
      <4> QED BY <1>1, <1>2, <1>3, <3>1, <3>2, <4>1 DEF BytesFlow
    <3>3. CASE mode = "$"
      <4>1. AtEnd("newfd") /\ at["tee"] # "unborn" /\ rd["newfd"] # {}
        BY <1>1, <3>1, <3>3 DEF Stdin, PlacesFit, EndsHeld, FirstPipe, SecondPipe, MainStarts
      <4>2. at["tee"] = "exit"
        BY <1>1, <4>1 DEF AtEnd, PlacesFit, EndsHeld, FirstPipe, SecondPipe, NoReader, TeeWorks
      <4>3. InHand({"write", "SIGPIPE"}) = <<>> /\ InHand({"file"}) = <<>> /\ pipe["newfd"] = <<>>
        BY <4>1, <4>2 DEF InHand, AtEnd
      <4>4. Handled = received
        <5>1. <<>> \o <<>> = <<>>
          BY TextFacts
        <5> QED BY <1>2, <4>3, <5>1 DEF Handled
      <4>5. sent = Len(Output) /\ pipe["fd"] = <<>>
        BY <1>1, <4>2 DEF EndsComplete
      <4>6. SubSeq(Output, 1, sent) = (Handled \o <<>>) \o <<>>
        BY <1>1, <3>3, <4>3, <4>5 DEF BytesFlow
      <4> QED BY <1>2, <3>1, <4>4, <4>5, <4>6
    <3> QED BY <1>1, <3>2, <3>3 DEF PlacesFit
  <2> QED BY <1>1, <2>1, <2>2 DEF EndsComplete
<1> QED
  BY <1>4, <1>5, <1>6 DEF EndsComplete

\* The ends of the pipes are held by those that work on them, and the bytes are
\* where they should be, in every state.
THEOREM PipelineInductive == PipelineSpec => []PipeIInv
<1>1. PipeIInv /\ [PipelineNext]_plVars => PipeIInv'
  <2>1. PipeIInv /\ PipelineNext => PipeIInv'
    BY EndsStep, FlowStep, CompleteStep DEF PipeIInv
  <2>2. PipeIInv /\ UNCHANGED plVars => PipeIInv'
    <3> SUFFICES ASSUME PipeIInv, UNCHANGED plVars PROVE PipeIInv'
      OBVIOUS
    <3>1. PlacesFit'
      BY DEF PipeIInv, PlacesFit, plVars
    <3>2. EndsHeld'
      BY DEF PipeIInv, EndsHeld, EndsTyped, FirstPipe, SecondPipe, NoReader, plVars
    <3>3. BytesFlow'
      BY DEF PipeIInv, BytesFlow, Handled, InHand, plVars
    <3>4. EndsComplete'
      BY DEF PipeIInv, EndsComplete, plVars
    <3> QED BY <3>1, <3>2, <3>3, <3>4 DEF PipeIInv
  <2> QED BY <2>1, <2>2
<1> QED
  BY <1>1, PipelineStart, PTL DEF PipelineSpec

\* The first of two sequences is the beginning of what they make together.
LEMMA FirstIsPrefix ==
  ASSUME NEW s \in Text, NEW t \in Text, NEW u \in Text,
         NEW n \in 0 .. Len(u), SubSeq(u, 1, n) = s \o t
  PROVE  IsPrefix(s, u)
<1> USE DEF Text
<1>1. Len(s) \in Nat /\ Len(t) \in Nat /\ Len(u) \in Nat
  BY LenProperties
<1>2. \A i \in 1 .. n : u[i] \in STRING
  BY <1>1, ElementOfSeq
<1>3. Len(s \o t) = n /\ \A i \in 1 .. n : SubSeq(u, 1, n)[i] = u[i]
  BY <1>1, <1>2, SubSeqProperties
<1>4. Len(s) + Len(t) = n /\ \A i \in 1 .. n : i <= Len(s) => (s \o t)[i] = s[i]
  BY <1>1, <1>3, ConcatProperties
<1>5. Len(s) <= Len(u) /\ \A i \in 1 .. Len(s) : u[i] = s[i]
  BY <1>1, <1>3, <1>4
<1>6. SubSeq(s, 1, Len(s)) = s
  BY SubSeqFull
<1>7. /\ SubSeq(u, 1, Len(s)) \in Text
      /\ Len(SubSeq(u, 1, Len(s))) = Len(s)
      /\ \A i \in 1 .. Len(s) : SubSeq(u, 1, Len(s))[i] = u[i]
  <2>1. \A i \in 1 .. Len(s) : u[i] \in STRING
    BY <1>1, <1>2, <1>4
  <2> QED BY <1>1, <2>1, SubSeqProperties
<1>8. SubSeq(u, 1, Len(s)) = s
  BY <1>5, <1>7, SeqEqual
<1> QED BY <1>5, <1>6, <1>8 DEF IsPrefix

\* What arrives at the last process of part2 is what grep wrote, in order and
\* from the beginning, whichever process is late and whatever became of the file;
\* and when it saw the end of its input it has had all of it.  The same holds of
\* the file as long as no write to it has failed.  For any output and pipe size.
THEOREM ArrivesComplete == PipelineSpec => []PipelineComplete
<1>1. PipeIInv => PipelineComplete
  <2> SUFFICES ASSUME PipeIInv PROVE PipelineComplete
    OBVIOUS
  <2>1. PlacesFit /\ EndsHeld /\ BytesFlow /\ EndsComplete
    BY DEF PipeIInv
  <2>2. /\ outfile \in Text /\ received \in Text /\ tee_char \in Text /\ <<>> \in Text
        /\ pipe["fd"] \in Text /\ pipe["newfd"] \in Text /\ sent \in 0 .. Len(Output)
        /\ Output \in Text /\ Len(Output) \in Nat
    BY <2>1, TextFacts DEF BytesFlow, Pipes
  <2>h. InHand({"file"}) \in Text /\ InHand({"write", "SIGPIPE"}) \in Text
    BY <2>2 DEF InHand, None
  <2>r. pipe["newfd"] \o InHand({"write", "SIGPIPE"}) \in Text /\ Handled \in Text
    BY <2>2, <2>h, TextFacts DEF Handled
  <2>f. SubSeq(Handled, 1, Len(Handled)) = Handled /\ Len(Handled) \in 0 .. Len(Handled)
    BY <2>r, TextFacts
  <2>3. PipelineTypeOK
    BY <2>1 DEF PipelineTypeOK, PlacesFit, EndsHeld, EndsTyped, BytesFlow
  <2>4. CASE mode = "@"
    <3>1. IsPrefix(received, Output)
      <4>1. SubSeq(Output, 1, sent) = received \o pipe["fd"]
        BY <2>1, <2>4 DEF BytesFlow
      <4> QED BY <2>2, <4>1, FirstIsPrefix
    <3>2. <<>> \o <<>> = <<>> /\ 0 \in 0 .. Len(Output) /\ SubSeq(Output, 1, 0) = <<>>
      BY <2>2, TextFacts
    <3>3. outfile = <<>>
      BY <2>1, <2>4 DEF BytesFlow, None
    <3>4. IsPrefix(outfile, Output)
      BY <2>2, <3>2, <3>3, FirstIsPrefix
    <3>5. at["tee"] # "exit"
      BY <2>1, <2>4 DEF PlacesFit
    <3> QED BY <2>1, <2>3, <2>4, <3>1, <3>4, <3>5 DEF PipelineComplete, EndsComplete
  <2>5. CASE mode = "$"
    <3>1. IsPrefix(received, Handled)
      <4> DEFINE r == pipe["newfd"] \o InHand({"write", "SIGPIPE"})
      <4>1. r \in Text /\ SubSeq(Handled, 1, Len(Handled)) = received \o r
        BY <2>f, <2>r DEF Handled
      <4> HIDE DEF r
      <4> QED BY <2>2, <2>f, <2>r, <4>1, FirstIsPrefix
    <3>2. InHand({"file"}) \o pipe["fd"] \in Text
      BY <2>2, <2>h, TextFacts
    <3>3. SubSeq(Output, 1, sent) = Handled \o (InHand({"file"}) \o pipe["fd"])
      <4>1. SubSeq(Output, 1, sent) = (Handled \o InHand({"file"})) \o pipe["fd"]
        BY <2>1, <2>5 DEF BytesFlow
      <4>2. InHand({"file"}) \in Text /\ pipe["fd"] \in Text
        BY <2>2, <2>h
      <4>3. (Handled \o InHand({"file"})) \o pipe["fd"] = Handled \o (InHand({"file"}) \o pipe["fd"])
        BY <2>r, <4>2, Regroup
      <4> QED BY <4>1, <4>3
    <3>4. IsPrefix(Handled, Output)
      <4> DEFINE r == InHand({"file"}) \o pipe["fd"]
      <4>1. r \in Text /\ SubSeq(Output, 1, sent) = Handled \o r
        BY <3>2, <3>3
      <4> HIDE DEF r
      <4> QED BY <2>2, <2>r, <4>1, FirstIsPrefix
    <3>5. IsPrefix(received, Output)
      <4> DEFINE r == pipe["newfd"] \o InHand({"write", "SIGPIPE"})
                 t == InHand({"file"}) \o pipe["fd"]
      <4>r. r \in Text /\ Handled = received \o r
        BY <2>r, <3>2 DEF Handled
      <4>t. t \in Text /\ SubSeq(Output, 1, sent) = Handled \o t
        BY <3>2, <3>3
      <4> HIDE DEF r, t
      <4>a. received \in Text
        BY <2>2
      <4>2. (received \o r) \o t = received \o (r \o t)
        BY <4>r, <4>t, <4>a, Regroup
      <4>3. SubSeq(Output, 1, sent) = received \o (r \o t)
        BY <4>r, <4>t, <4>2
      <4>4. r \o t \in Text
        BY <4>r, <4>t, TextFacts
      <4> QED BY <2>2, <4>a, <4>3, <4>4, FirstIsPrefix
    <3>6. at["tee"] = "exit" => Handled = Output
      <4> SUFFICES ASSUME at["tee"] = "exit" PROVE Handled = Output
        OBVIOUS
      <4>1. InHand({"file"}) = <<>> /\ pipe["fd"] = <<>> /\ sent = Len(Output)
        BY <2>1 DEF InHand, None, EndsComplete
      <4>2. SubSeq(Output, 1, sent) = (Handled \o <<>>) \o <<>>
        BY <2>1, <2>5, <4>1 DEF BytesFlow
      <4> QED BY <2>2, <2>r, <4>1, <4>2, TextFacts
    <3>7. ~missed => outfile = Handled
      BY <2>1, <2>5 DEF BytesFlow
    <3>8. at["main"] = "exit" => received = Output
      BY <2>1 DEF EndsComplete
    <3> QED BY <2>3, <3>1, <3>4, <3>5, <3>6, <3>7, <3>8 DEF PipelineComplete
  <2> QED BY <2>1, <2>4, <2>5 DEF PlacesFit
<1> QED
  BY <1>1, PipelineInductive, PTL

-----------------------------------------------------------------------------
(***************************************************************************)
(* Blocks hashed by threads                                                 *)
(*                                                                          *)
(* The result of the threads is a statement about the end of the run; what  *)
(* makes it true is how the two shared pointers, the slots held and the     *)
(* slots written hang together at every step in between: BlocksIInv.        *)
(***************************************************************************)

\* Positions between mutex_lock and mutex_unlock, and those with a block taken
\* and not yet hashed.
Locked  == {"check", "take_block", "take_slot", "unlock", "unlock_exit"}
Holding == {"unlock", "hash"}

\* The thread that took the mutex, and no other, is between lock and unlock.
MutexHeld == \A t \in Threads : pc[t] \in Locked <=> lock = t

\* The two shared pointers move together, except between the two assignments.
PointersAgree ==
  /\ (\A t \in Threads : pc[t] # "take_slot") => dataptr = BLOCK_SIZE * optr
  /\ \A t \in Threads : pc[t] = "take_slot" =>
       /\ dataptr = BLOCK_SIZE * optr + BLOCK_SIZE
       /\ cptr[t] = BLOCK_SIZE * optr
       /\ cptr[t] < size
  /\ \A t \in Threads : pc[t] = "take_block" => dataptr < size
  /\ \A t \in Threads : pc[t] \in {"unlock_exit", "exit"} => dataptr >= size

\* Every block held has its own slot, of the same number, in the array.
SlotsHeld ==
  \A t \in Threads : pc[t] \in Holding =>
    /\ cptr[t] = BLOCK_SIZE * chash[t]
    /\ chash[t] < optr
    /\ \A u \in Threads \ {t} : pc[u] \in Holding => chash[u] # chash[t]

\* Every slot given out is held by a thread or has the hash of its block.
SlotsGiven ==
  /\ optr <= hash_count
  /\ \A i \in 0 .. optr - 1 :
       \/ hashes[i] = calculate_and_store_hash(BLOCK_SIZE * i)
       \/ \E t \in Threads : pc[t] \in Holding /\ chash[t] = i

BlocksIInv == /\ TypeOK
              /\ MutexHeld
              /\ PointersAgree
              /\ SlotsHeld
              /\ SlotsGiven

-----------------------------------------------------------------------------
\* Quotient and remainder, and their uniqueness.
LEMMA DivMod ==
  ASSUME NEW a \in Int, NEW b \in Nat \ {0}
  PROVE  /\ a \div b \in Int /\ a % b \in 0 .. b - 1
         /\ a = b * (a \div b) + (a % b)
OBVIOUS

LEMMA DivUnique ==
  ASSUME NEW a \in Int, NEW b \in Nat \ {0}, NEW q \in Int, NEW r \in 0 .. b - 1,
         a = b * q + r
  PROVE  a \div b = q /\ a % b = r
OBVIOUS

\* hash_count is the number of blocks that start inside the file.
LEMMA HashCount ==
  ASSUME TypeOK, NEW n \in Nat
  PROVE  /\ hash_count \in Nat
         /\ BLOCK_SIZE * n < size <=> n < hash_count
<1> DEFINE q == size \div BLOCK_SIZE
           r == size % BLOCK_SIZE
           b == BLOCK_SIZE
<1>1. size \in Nat /\ b \in Nat \ {0}
  BY BlockAssumption DEF TypeOK
<1>2. q \in Int /\ r \in 0 .. b - 1 /\ size = b * q + r
  BY <1>1, DivMod
<1>3. hash_count = q + (IF r # 0 THEN 1 ELSE 0)
  BY DEF hash_count
<1> HIDE DEF q, r, b
<1>4. q \in Nat
  BY <1>1, <1>2
<1>5. b * n < b * q + r <=> n < q + (IF r # 0 THEN 1 ELSE 0)
  <2>1. CASE n < q
    <3>1. b * n + b <= b * q
      BY <1>1, <1>4, <2>1
    <3> QED BY <3>1, <2>1, <1>1, <1>2, <1>4
  <2>2. CASE n = q
    BY <2>2, <1>1, <1>2, <1>4
  <2>3. CASE n > q
    <3>1. b * n >= b * q + b
      BY <1>1, <1>4, <2>3
    <3> QED BY <3>1, <2>3, <1>1, <1>2, <1>4
  <2> QED BY <2>1, <2>2, <2>3, <1>4
<1> QED
  BY <1>2, <1>3, <1>4, <1>5 DEF b

\* What calculate_and_store_hash sums for block i: the words of the file that
\* lie in it.
WordsOf(i) == {w \in 0 .. size - WORD : /\ w % WORD = 0
                                        /\ w \div BLOCK_SIZE = i
                                        /\ w + WORD <= size}

LEMMA BlockWords ==
  ASSUME TypeOK, NEW i \in Nat
  PROVE  calculate_and_store_hash(BLOCK_SIZE * i) = WordsOf(i)
<1> DEFINE b == BLOCK_SIZE
           d == WORD
           n == BLOCK_SIZE \div WORD
<1>1. size \in Nat /\ b \in Nat \ {0} /\ d \in Nat \ {0} /\ n \in Int /\ b = d * n
  <2>1. size \in Nat /\ b \in Nat \ {0} /\ d \in Nat \ {0} /\ b % d = 0
    BY BlockAssumption DEF TypeOK
  <2> HIDE DEF b, d
  <2>2. b \div d \in Int /\ b = d * (b \div d) + (b % d)
    BY <2>1, DivMod
  <2> QED BY <2>1, <2>2 DEF b, d
<1>2. calculate_and_store_hash(b * i) =
        {b * i + d * k : k \in {m \in 0 .. n - 1 : b * i + d * (m + 1) <= size}}
  BY DEF calculate_and_store_hash
<1>3. WordsOf(i) = {w \in 0 .. size - d : w % d = 0 /\ w \div b = i /\ w + d <= size}
  BY DEF WordsOf
<1> HIDE DEF b, d, n
<1>4. ASSUME NEW k \in 0 .. n - 1, b * i + d * (k + 1) <= size
      PROVE  LET w == b * i + d * k
             IN  w \in 0 .. size - d /\ w % d = 0 /\ w \div b = i /\ w + d <= size
  <2> DEFINE w == b * i + d * k
  <2>1. w \in Nat /\ w + d <= size
    BY <1>1, <1>4
  <2>2. d * k \in 0 .. b - 1
    BY <1>1, <1>4
  <2>3. w \div b = i
    BY <1>1, <2>1, <2>2, DivUnique
  <2>4. w = d * (n * i + k) + 0 /\ n * i + k \in Int
    BY <1>1, <1>4
  <2>5. w % d = 0
    <3> HIDE DEF w
    <3> QED BY <1>1, <2>1, <2>4, DivUnique
  <2> QED BY <1>1, <2>1, <2>3, <2>5
<1>5. ASSUME NEW w \in 0 .. size - d, w % d = 0, w \div b = i, w + d <= size
      PROVE  \E k \in 0 .. n - 1 : w = b * i + d * k /\ b * i + d * (k + 1) <= size
  <2> DEFINE q == w \div d
             k == q - n * i
             r == w % b
  <2>1. q \in Int /\ w = d * q
    BY <1>1, <1>5, DivMod
  <2>2. r \in 0 .. b - 1 /\ w = b * i + r
    <3>0. w \in Int /\ b \in Nat \ {0}
      BY <1>1
    <3>1. w % b \in 0 .. b - 1 /\ w = b * (w \div b) + (w % b)
      BY <3>0, DivMod
    <3> QED BY <3>1, <1>5
  <2> HIDE DEF q, r
  <2>3. k \in Int /\ d * k = r
    <3>1. b * i = d * (n * i)
      BY <1>1
    <3>2. d * (q - n * i) = d * q - d * (n * i)
      BY <1>1, <2>1
    <3> QED BY <3>1, <3>2, <1>1, <2>1, <2>2
  <2> HIDE DEF k
  <2>4. k \in 0 .. n - 1
    BY <1>1, <2>2, <2>3
  <2>5. d * (k + 1) = d * k + d
    BY <1>1, <2>3
  <2> QED BY <1>1, <1>5, <2>2, <2>3, <2>4, <2>5
<1> QED
  <2>1. calculate_and_store_hash(b * i) = WordsOf(i)
    BY <1>2, <1>3, <1>4, <1>5
  <2> QED BY <2>1 DEF b

-----------------------------------------------------------------------------
\* Init establishes the inductive invariant.
LEMMA InitIInv == Init => BlocksIInv
<1> SUFFICES ASSUME Init PROVE BlocksIInv
  OBVIOUS
<1>1. TypeOK
  BY BlockAssumption DEF Init, TypeOK, PCs
<1>2. MutexHeld
  BY ThreadsAssumption DEF Init, MutexHeld, Locked
<1>3. PointersAgree /\ SlotsHeld
  BY BlockAssumption DEF Init, PointersAgree, SlotsHeld, Holding
<1>4. hash_count \in Nat
  BY <1>1, HashCount
<1>5. SlotsGiven
  BY <1>4 DEF Init, SlotsGiven
<1> QED
  BY <1>1, <1>2, <1>3, <1>5 DEF BlocksIInv

\* No step changes the size, and with it the number of slots.
LEMMA SizeFixed ==
  ASSUME [Next]_vars
  PROVE  /\ size' = size
         /\ hash_count' = hash_count
         /\ \A n \in Nat : calculate_and_store_hash(n)' = calculate_and_store_hash(n)
<1>1. size' = size
  BY DEF Next, Step, joined, vars, mutex_lock, check, take_block, take_slot, mutex_unlock, hash
<1> QED
  BY <1>1 DEF hash_count, calculate_and_store_hash

\* The type invariant.
LEMMA TypeStep == TypeOK /\ [Next]_vars => TypeOK'
<1> SUFFICES ASSUME TypeOK, [Next]_vars PROVE TypeOK'
  OBVIOUS
<1>0. size' = size /\ hash_count' = hash_count
  BY SizeFixed
<1>1. ASSUME NEW t \in Threads, Step(t) PROVE TypeOK'
  <2>1. CASE mutex_lock(t)
    BY <2>1, <1>0 DEF mutex_lock, Goto, TypeOK, PCs
  <2>2. CASE check(t)
    BY <2>2, <1>0 DEF check, Goto, TypeOK, PCs
  <2>3. CASE take_block(t)
    BY <2>3, <1>0, BlockAssumption DEF take_block, Goto, TypeOK, PCs
  <2>4. CASE take_slot(t)
    BY <2>4, <1>0 DEF take_slot, Goto, TypeOK, PCs
  <2>5. CASE mutex_unlock(t)
    BY <2>5, <1>0 DEF mutex_unlock, Goto, TypeOK, PCs
  <2>6. CASE hash(t)
    BY <2>6, <1>0 DEF hash, Goto, TypeOK, PCs
  <2> QED
    BY <1>1, <2>1, <2>2, <2>3, <2>4, <2>5, <2>6 DEF Step
<1>2. CASE UNCHANGED vars
  BY <1>2, <1>0 DEF vars, TypeOK
<1> QED
  BY <1>1, <1>2 DEF Next, joined

\* The mutex: MutexHeld needs only the types.
LEMMA MutexStep == TypeOK /\ MutexHeld /\ [Next]_vars => MutexHeld'
<1> SUFFICES ASSUME TypeOK, MutexHeld, [Next]_vars PROVE MutexHeld'
  OBVIOUS
<1>1. ASSUME NEW t \in Threads, Step(t) PROVE MutexHeld'
  <2> USE DEF Goto, TypeOK, MutexHeld, Locked
  <2>1. CASE mutex_lock(t)
    BY <2>1, ThreadsAssumption DEF mutex_lock
  <2>2. CASE check(t)
    BY <2>2 DEF check
  <2>3. CASE take_block(t)
    BY <2>3 DEF take_block
  <2>4. CASE take_slot(t)
    BY <2>4 DEF take_slot
  <2>5. CASE mutex_unlock(t)
    BY <2>5, ThreadsAssumption DEF mutex_unlock
  <2>6. CASE hash(t)
    BY <2>6 DEF hash
  <2> QED
    BY <1>1, <2>1, <2>2, <2>3, <2>4, <2>5, <2>6 DEF Step
<1>2. CASE UNCHANGED vars
  BY <1>2 DEF vars, MutexHeld
<1> QED
  BY <1>1, <1>2 DEF Next, joined

\* The shared pointers: only the thread with the mutex moves them.
LEMMA PointersStep == BlocksIInv /\ [Next]_vars => PointersAgree'
<1> SUFFICES ASSUME BlocksIInv, [Next]_vars PROVE PointersAgree'
  OBVIOUS
<1>0. /\ TypeOK /\ MutexHeld /\ PointersAgree
      /\ size' = size /\ size \in Nat /\ BLOCK_SIZE \in Nat \ {0}
  BY SizeFixed, BlockAssumption DEF BlocksIInv, TypeOK
<1>1. ASSUME NEW t \in Threads, Step(t) PROVE PointersAgree'
  <2> USE <1>0 DEF Goto, TypeOK, MutexHeld, PointersAgree, Locked
  <2>1. CASE mutex_lock(t)
    BY <2>1 DEF mutex_lock
  <2>2. CASE check(t)
    BY <2>2 DEF check
  <2>3. CASE take_block(t)
    <3>1. \A u \in Threads \ {t} : pc[u] \notin Locked
      BY <2>3 DEF take_block
    <3>2. dataptr = BLOCK_SIZE * optr /\ dataptr < size
      BY <2>3, <3>1 DEF take_block
    <3>3. dataptr' = dataptr + BLOCK_SIZE /\ dataptr' \in Nat
      BY <2>3 DEF take_block
    <3> QED
      BY <2>3, <3>1, <3>2, <3>3 DEF take_block
  <2>4. CASE take_slot(t)
    <3>1. \A u \in Threads \ {t} : pc[u] \notin Locked
      BY <2>4 DEF take_slot
    <3>2. dataptr = BLOCK_SIZE * optr + BLOCK_SIZE
      BY <2>4 DEF take_slot
    <3>3. BLOCK_SIZE * (optr + 1) = BLOCK_SIZE * optr + BLOCK_SIZE
      OBVIOUS
    <3> QED
      BY <2>4, <3>1, <3>2, <3>3 DEF take_slot
  <2>5. CASE mutex_unlock(t)
    BY <2>5 DEF mutex_unlock
  <2>6. CASE hash(t)
    BY <2>6 DEF hash
  <2> QED
    BY <1>1, <2>1, <2>2, <2>3, <2>4, <2>5, <2>6 DEF Step
<1>2. CASE UNCHANGED vars
  BY <1>0, <1>2 DEF vars, PointersAgree
<1> QED
  BY <1>1, <1>2 DEF Next, joined

\* The slots held: a new one is optr, and every one held is below it.
LEMMA SlotsHeldStep == BlocksIInv /\ [Next]_vars => SlotsHeld'
<1> SUFFICES ASSUME BlocksIInv, [Next]_vars PROVE SlotsHeld'
  OBVIOUS
<1>0. TypeOK /\ MutexHeld /\ PointersAgree /\ SlotsHeld
  BY DEF BlocksIInv
<1>1. ASSUME NEW t \in Threads, Step(t) PROVE SlotsHeld'
  <2> USE <1>0 DEF Goto, TypeOK, SlotsHeld, Holding
  <2>1. CASE mutex_lock(t)
    BY <2>1 DEF mutex_lock
  <2>2. CASE check(t)
    BY <2>2 DEF check
  <2>3. CASE take_block(t)
    BY <2>3 DEF take_block
  <2>4. CASE take_slot(t)
    <3>1. cptr[t] = BLOCK_SIZE * optr
      BY <2>4 DEF take_slot, PointersAgree
    <3> QED
      BY <2>4, <3>1 DEF take_slot
  <2>5. CASE mutex_unlock(t)
    BY <2>5 DEF mutex_unlock
  <2>6. CASE hash(t)
    BY <2>6 DEF hash
  <2> QED
    BY <1>1, <2>1, <2>2, <2>3, <2>4, <2>5, <2>6 DEF Step
<1>2. CASE UNCHANGED vars
  BY <1>0, <1>2 DEF vars, SlotsHeld
<1> QED
  BY <1>1, <1>2 DEF Next, joined

\* The slots given out: taking one adds it to those held, hashing turns one
\* held into one written and no thread writes a slot of another.
LEMMA SlotsGivenStep == BlocksIInv /\ [Next]_vars => SlotsGiven'
<1> SUFFICES ASSUME BlocksIInv, [Next]_vars PROVE SlotsGiven'
  OBVIOUS
<1> DEFINE h(i) == calculate_and_store_hash(BLOCK_SIZE * i)
<1>0. TypeOK /\ MutexHeld /\ PointersAgree /\ SlotsHeld /\ SlotsGiven
  BY DEF BlocksIInv
<1>a. optr \in Nat /\ hash_count \in Nat /\ hash_count' = hash_count
  BY <1>0, HashCount, SizeFixed DEF TypeOK
<1>b. \A i \in Nat : h(i)' = h(i)
  <2>1. \A i \in Nat : BLOCK_SIZE * i \in Nat
    BY BlockAssumption
  <2> QED BY <2>1, SizeFixed
<1>1. ASSUME NEW t \in Threads, Step(t) PROVE SlotsGiven'
  <2>1. CASE mutex_lock(t) \/ check(t) \/ take_block(t) \/ mutex_unlock(t)
    <3>1. UNCHANGED <<optr, hashes, chash>>
      BY <2>1 DEF mutex_lock, check, take_block, mutex_unlock
    <3>2. \A u \in Threads : pc[u] \in Holding => pc'[u] \in Holding
      BY <1>0, <2>1 DEF mutex_lock, check, take_block, mutex_unlock, Goto, TypeOK, Holding
    <3> HIDE DEF h
    <3>3. \A i \in 0 .. optr - 1 : hashes[i] = h(i) \/ \E u \in Threads : pc[u] \in Holding /\ chash[u] = i
      BY <1>0 DEF SlotsGiven, h
    <3>4. \A i \in 0 .. optr - 1 : hashes'[i] = h(i)' \/ \E u \in Threads : pc'[u] \in Holding /\ chash'[u] = i
      BY <3>1, <3>2, <3>3, <1>a, <1>b
    <3> QED
      BY <3>1, <3>4, <1>0, <1>a DEF SlotsGiven, h
  <2>2. CASE take_slot(t)
    <3>1. optr' = optr + 1 /\ hashes' = hashes /\ chash' = [chash EXCEPT ![t] = optr]
          /\ pc[t] = "take_slot" /\ pc' = [pc EXCEPT ![t] = "unlock"]
      BY <2>2 DEF take_slot, Goto
    <3>2. optr < hash_count
      <4>1. BLOCK_SIZE * optr < size
        BY <1>0, <3>1 DEF PointersAgree
      <4> QED BY <4>1, <1>0, <1>a, HashCount
    <3> HIDE DEF h
    <3>3. ASSUME NEW i \in 0 .. optr
          PROVE  hashes'[i] = h(i)' \/ \E u \in Threads : pc'[u] \in Holding /\ chash'[u] = i
      <4>1. CASE i = optr
        <5>1. pc'[t] \in Holding /\ chash'[t] = i
          BY <4>1, <3>1, <1>0 DEF TypeOK, Holding
        <5> QED BY <5>1
      <4>2. CASE i < optr
        <5>1. hashes[i] = h(i) \/ \E u \in Threads : pc[u] \in Holding /\ chash[u] = i
          BY <4>2, <1>0, <1>a DEF SlotsGiven, h
        <5>2. \A u \in Threads : pc[u] \in Holding => u # t
          BY <3>1 DEF Holding
        <5>3. \A u \in Threads : u # t => pc'[u] = pc[u] /\ chash'[u] = chash[u]
          BY <3>1, <1>0 DEF TypeOK
        <5> QED BY <5>1, <5>2, <5>3, <3>1, <1>a, <1>b
      <4> QED BY <4>1, <4>2, <1>a
    <3>4. \A i \in 0 .. optr' - 1 : hashes'[i] = h(i)' \/ \E u \in Threads : pc'[u] \in Holding /\ chash'[u] = i
      BY <3>1, <3>3, <1>a
    <3> QED
      BY <3>1, <3>2, <3>4, <1>a DEF SlotsGiven, h
  <2>3. CASE hash(t)
    <3>1. pc[t] = "hash" /\ pc' = [pc EXCEPT ![t] = "lock"] /\ UNCHANGED <<optr, chash>>
          /\ hashes' = [hashes EXCEPT ![chash[t]] = calculate_and_store_hash(cptr[t])]
      BY <2>3 DEF hash, Goto
    <3>2. cptr[t] = BLOCK_SIZE * chash[t] /\ chash[t] \in Nat
      BY <3>1, <1>0 DEF SlotsHeld, Holding, TypeOK
    <3>3. hashes' = [hashes EXCEPT ![chash[t]] = h(chash[t])]
      BY <3>1, <3>2
    <3> HIDE DEF h
    <3>4. ASSUME NEW i \in 0 .. optr - 1
          PROVE  hashes'[i] = h(i)' \/ \E u \in Threads : pc'[u] \in Holding /\ chash'[u] = i
      <4>1. i \in DOMAIN hashes /\ i \in Nat
        BY <1>0, <1>a DEF SlotsGiven, TypeOK
      <4>2. CASE i = chash[t]
        <5>1. hashes'[i] = h(i)
          BY <4>1, <4>2, <3>3
        <5> QED BY <5>1, <4>1, <1>b
      <4>3. CASE i # chash[t]
        <5>1. hashes'[i] = hashes[i]
          BY <4>1, <4>3, <3>3
        <5>2. hashes[i] = h(i) \/ \E u \in Threads : pc[u] \in Holding /\ chash[u] = i
          BY <1>0 DEF SlotsGiven, h
        <5>3. \A u \in Threads : u # t => pc'[u] = pc[u] /\ chash'[u] = chash[u]
          BY <3>1, <1>0 DEF TypeOK
        <5> QED BY <5>1, <5>2, <5>3, <4>1, <4>3, <1>b
      <4> QED BY <4>2, <4>3
    <3> QED
      BY <3>1, <3>4, <1>0, <1>a DEF SlotsGiven, h
  <2> QED
    BY <1>1, <2>1, <2>2, <2>3 DEF Step
<1>2. CASE UNCHANGED vars
  <2>1. UNCHANGED <<optr, hashes, pc, chash>>
    BY <1>2 DEF vars
  <2> HIDE DEF h
  <2>2. \A i \in 0 .. optr - 1 : hashes[i] = h(i) \/ \E u \in Threads : pc[u] \in Holding /\ chash[u] = i
    BY <1>0 DEF SlotsGiven, h
  <2>3. \A i \in 0 .. optr - 1 : hashes'[i] = h(i)' \/ \E u \in Threads : pc'[u] \in Holding /\ chash'[u] = i
    BY <2>1, <2>2, <1>a, <1>b
  <2> QED
    BY <2>1, <2>3, <1>0, <1>a DEF SlotsGiven, h
<1> QED
  BY <1>1, <1>2 DEF Next, joined

-----------------------------------------------------------------------------
\* BlocksIInv holds at every moment of every run of the threads.
THEOREM BlocksInductive == Spec => []BlocksIInv
<1>1. BlocksIInv /\ [Next]_vars => BlocksIInv'
  BY TypeStep, MutexStep, PointersStep, SlotsHeldStep, SlotsGivenStep DEF BlocksIInv
<1> QED
  BY InitIInv, <1>1, PTL DEF Spec

\* The threads of thread_func store the hashes one thread alone would store:
\* no slot is shared or outside the array while they run, and when main has
\* joined them every slot has the words of its block.
THEOREM BlocksSerial == Spec => []SerialHashes
<1>1. BlocksIInv => SerialHashes
  <2> SUFFICES ASSUME BlocksIInv PROVE SerialHashes
    OBVIOUS
  <2>0. TypeOK /\ PointersAgree /\ SlotsHeld /\ SlotsGiven /\ hash_count \in Nat
    BY HashCount DEF BlocksIInv
  <2>1. OwnSlot
    BY <2>0 DEF OwnSlot, SlotsHeld, SlotsGiven, Holding, TypeOK
  <2>2. ASSUME AllExited, NEW i \in 0 .. hash_count - 1
        PROVE  hashes[i] = WordsOf(i)
    <3>1. PICK t \in Threads : pc[t] = "exit"
      BY <2>2, ThreadsAssumption DEF AllExited
    <3>2. dataptr = BLOCK_SIZE * optr /\ dataptr >= size /\ optr \in Nat
      BY <2>2, <2>0, <3>1 DEF AllExited, PointersAgree, TypeOK
    <3>3. ~(BLOCK_SIZE * optr < size)
      BY <3>2, BlockAssumption, <2>0 DEF TypeOK
    <3>4. i \in 0 .. optr - 1
      BY <3>2, <3>3, <2>0, HashCount
    <3>5. hashes[i] = calculate_and_store_hash(BLOCK_SIZE * i)
      BY <3>4, <2>0, <2>2 DEF SlotsGiven, AllExited, Holding
    <3> QED BY <3>5, <2>0, BlockWords
  <2>3. BlocksCovered
    BY <2>2 DEF BlocksCovered, WordsOf
  <2> QED
    BY <2>0, <2>1, <2>3 DEF SerialHashes
<1> QED
  BY BlocksInductive, <1>1, PTL
=============================================================================
