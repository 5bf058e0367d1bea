----------------------------- MODULE RegularFile ----------------------------
(***************************************************************************)
(* Regular files of gemOS (Assignment2, gemOS/src entry.c, file.c, fs.c):   *)
(* the table of inodes of the flat file system, and the file objects        *)
(* through which processes open, read, write and seek files.  Every file    *)
(* object has its own offset, all on a file share its size.  The bytes are  *)
(* left out: what matters is which of them a transfer touches.  Offsets and *)
(* lengths are u32 in file.c and int in fs.c: a length of 2^31 or more,     *)
(* which is what a program's negative int becomes, can pass the tests of    *)
(* both, and the copy does not end.  Nothing removes a file.                *)
(***************************************************************************)
EXTENDS Integers, FiniteSets, FiniteSetsExt

CONSTANTS Handles,      \* file objects
          Names,        \* file names
          NUM_FILES,    \* 32 inodes
          FILE_SIZE,    \* 4096, the space of an inode: one page
          U32,          \* 2^32
          Counts,       \* lengths of transfers, as the u32 they become in file.c
          Offsets       \* arguments of lseek, long

ASSUME FileAssumption == /\ NUM_FILES \in Nat \ {0} /\ FILE_SIZE \in Nat \ {0}
                         /\ U32 \in Nat /\ 4 * FILE_SIZE < U32
                         /\ Counts \subseteq 0 .. U32 - 1 /\ Offsets \subseteq Int

VARIABLES inode,        \* is_valid, filename, mode and file_size of every inode
          num_files,    \* super_block->num_files
          file,         \* inode, mode and offp of every file object; NULL when closed
          transfer      \* the last read or write

fileVars == <<inode, num_files, file, transfer>>

Inodes == 0 .. NUM_FILES - 1
Modes  == SUBSET {"O_READ", "O_WRITE"}

\* No struct file.
NULL   == [inode |-> NUM_FILES, mode |-> {}, offp |-> 0]

Signed(n) == IF n >= U32 \div 2 THEN n - U32 ELSE n
Unsigned(n) == n % U32

\* A region gives its pages out in order; however few are asked for, one is taken.
get_contigous_pages(next, number_of_pages) ==
  [first |-> next, next |-> next + Max({1, number_of_pages})]

\* alloc_inodes: the first inode starts at the page taken to find the start of
\* the store; the call for the rest of its pages, none, takes one more.
NumPages == 1
PagesTaken[i \in Inodes] == IF i = 0 THEN get_contigous_pages(1, NumPages - 1)
                            ELSE get_contigous_pages(PagesTaken[i - 1].next, NumPages)
StorePages == [i \in Inodes |-> IF i = 0 THEN 0 ELSE PagesTaken[i].first]

s_pos(i) == StorePages[i] * FILE_SIZE
e_pos(i) == s_pos(i) + FILE_SIZE

\* The bytes [from, from + len) of the store that a transfer through a file
\* object on inode i touched, and the size the file had before it; a runaway
\* transfer goes on from there without end.
NoTransfer == [kind |-> "none", i |-> 0, from |-> 0, len |-> 0, size |-> 0]

\* A struct inode; max_pos is s_pos + file_size.
EmptyInode == [is_valid |-> FALSE, filename |-> "", mode |-> {}, file_size |-> 0]

FileInit == /\ inode = [i \in Inodes |-> EmptyInode]
            /\ num_files = 0
            /\ file = [h \in Handles |-> NULL]
            /\ transfer = NoTransfer

-----------------------------------------------------------------------------
\* Mutant: the search starts at the second inode.
lookup_inode_second(name) == {i \in Inodes \ {0} : inode[i].is_valid /\ inode[i].filename = name}

\* flat_lookup_inode, as the set of its results.
lookup_inode(name) == {i \in Inodes : inode[i].is_valid /\ inode[i].filename = name}

get_free_inode == {i \in Inodes : ~inode[i].is_valid}

\* flat_create_inode, after the caller's and its own look for the name.
create_inode(name, m) ==
  /\ get_free_inode # {} /\ lookup_inode(name) = {}
  /\ inode' = [inode EXCEPT ![Min(get_free_inode)] =
                 [is_valid |-> TRUE, filename |-> name, mode |-> m, file_size |-> 0]]
  /\ num_files' = num_files + 1

NewHandle(h, i, flags) == file' = [file EXCEPT ![h] = [inode |-> i, mode |-> flags, offp |-> 0]]

\* open with O_CREAT: the file must not exist; it does afterwards, even when
\* open fails because the flags do not agree with the mode the file was created
\* with or because the process has no free descriptor.
open_create(h, name, flags, m) ==
  /\ file[h] = NULL
  /\ lookup_inode(name) = {}
  /\ create_inode(name, m)
  /\ \/ flags \subseteq m /\ NewHandle(h, Min(get_free_inode), flags)
     \/ UNCHANGED file
  /\ UNCHANGED transfer

open_existing(h, name, flags) ==
  /\ file[h] = NULL
  /\ \E i \in lookup_inode(name) : flags \subseteq inode[i].mode /\ NewHandle(h, i, flags)
  /\ UNCHANGED <<inode, num_files, transfer>>

do_close(h) == /\ file[h] # NULL
               /\ file' = [file EXCEPT ![h] = NULL]
               /\ UNCHANGED <<inode, num_files, transfer>>

-----------------------------------------------------------------------------
\* flat_read: the bytes from the signed offset on, as many as there are; a
\* negative count is less than that.
flat_read(i, count, offp) ==
  LET remain_len == inode[i].file_size - offp
  IN  IF remain_len <= 0 THEN 0 ELSE Min({count, remain_len})

\* The loops of flat_read and flat_write compare a u64 with the length: a
\* negative one is almost 2^64, and the copy runs over all that follows.
Touched(kind, i, offp, len) ==
  transfer' = [kind |-> IF len < 0 THEN "runaway" ELSE kind,
               i |-> i, from |-> s_pos(i) + offp, len |-> len, size |-> inode[i].file_size]

\* The offset moves when the transfer is over.
Advance(h, len) == file' = [file EXCEPT ![h].offp = IF len < 0 THEN @ ELSE Unsigned(@ + len)]

\* Mutant: the read is bounded by the space of the inode, not by the file.
do_read_regular_past_end(h, count) ==
  LET f == file[h]
  IN  /\ Unsigned(f.offp + count) <= FILE_SIZE
      /\ "O_READ" \in f.mode /\ "O_READ" \in inode[f.inode].mode
      /\ Touched("read", f.inode, Signed(f.offp), Signed(count))
      /\ Advance(h, Signed(count))
      /\ UNCHANGED <<inode, num_files>>

\* offp + count is computed in 32 bits without sign, the position in the inode
\* and the number of bytes from the signed offset and count.
do_read_regular(h, count) ==
  LET f == file[h]
      size == flat_read(f.inode, Signed(count), Signed(f.offp))
  IN  /\ Unsigned(f.offp + count) <= inode[f.inode].file_size
      /\ "O_READ" \in f.mode /\ "O_READ" \in inode[f.inode].mode
      /\ Touched("read", f.inode, Signed(f.offp), size)
      /\ Advance(h, size)
      /\ UNCHANGED <<inode, num_files>>

\* Mutant: the size is set to where the write ended.
flat_write_truncates(i, count, offp) ==
  /\ count <= e_pos(i) - offp - s_pos(i)
  /\ Touched("write", i, offp, count)
  /\ inode' = [inode EXCEPT ![i].file_size = IF count < 0 THEN @ ELSE offp + count]

\* flat_write: all count bytes fit, or none is written; max_pos, and with it
\* the size, only grows.
flat_write(i, count, offp) ==
  /\ count <= e_pos(i) - offp - s_pos(i)
  /\ Touched("write", i, offp, count)
  /\ inode' = [inode EXCEPT ![i].file_size = IF count < 0 THEN @ ELSE Max({@, offp + count})]

do_write_regular(h, count) ==
  LET f == file[h]
  IN  /\ Unsigned(f.offp + count) <= FILE_SIZE
      /\ "O_WRITE" \in f.mode /\ "O_WRITE" \in inode[f.inode].mode
      /\ flat_write(f.inode, Signed(count), Signed(f.offp))
      /\ Advance(h, Signed(count))
      /\ UNCHANGED num_files

\* SEEK_SET, SEEK_CUR and SEEK_END differ in what the offset is added to; the
\* sum is cut to an int, and only a result of FILE_SIZE or more is refused.
do_lseek_regular(h, offset, whence) ==
  LET sum == CASE whence = "SEEK_SET" -> offset
               [] whence = "SEEK_CUR" -> Signed(file[h].offp) + offset
               [] whence = "SEEK_END" -> inode[file[h].inode].file_size + offset
      newoffset == Signed(Unsigned(sum))
  IN  /\ newoffset < FILE_SIZE
      /\ file' = [file EXCEPT ![h].offp = Unsigned(newoffset)]
      /\ UNCHANGED <<inode, num_files, transfer>>

-----------------------------------------------------------------------------
\* The system calls go through the file object of the descriptor.
do_file_open(h, name) ==
  \E flags \in Modes : open_existing(h, name, flags) \/ \E m \in Modes : open_create(h, name, flags, m)
do_file_read(h, count)  == file[h] # NULL /\ do_read_regular(h, count)
do_file_write(h, count) == file[h] # NULL /\ do_write_regular(h, count)
do_lseek(h, offset, whence) == file[h] # NULL /\ do_lseek_regular(h, offset, whence)

\* After a runaway transfer nothing is known any more.
FileNext == /\ transfer.kind # "runaway"
            /\ \E h \in Handles :
                 \/ \E name \in Names : do_file_open(h, name)
                 \/ \E count \in Counts : do_file_read(h, count) \/ do_file_write(h, count)
                 \/ \E offset \in Offsets, whence \in {"SEEK_SET", "SEEK_CUR", "SEEK_END"} :
                      do_lseek(h, offset, whence)
                 \/ do_close(h)

-----------------------------------------------------------------------------
(***************************************************************************)
(* Properties                                                               *)
(***************************************************************************)
FileTypeOK == /\ \A i \in Inodes : inode[i].mode \in Modes /\ inode[i].file_size \in 0 .. FILE_SIZE
              /\ \A h \in Handles : file[h].inode \in Inodes \cup {NUM_FILES} /\ file[h].offp \in 0 .. U32 - 1
              /\ transfer.kind \in {"none", "read", "write", "runaway"}

\* A name is found at one inode at most, whatever was created before and
\* however full the table is; the count of files is right, and every file
\* object is on an inode that is in use, with no more rights than its mode gives.
OneInodePerName ==
  /\ FileTypeOK
  /\ \A name \in Names : Cardinality({i \in Inodes : inode[i].is_valid /\ inode[i].filename = name}) <= 1
  /\ num_files = Cardinality({i \in Inodes : inode[i].is_valid})
  /\ \A h \in Handles : file[h] # NULL => /\ inode[file[h].inode].is_valid
                                          /\ file[h].mode \subseteq inode[file[h].inode].mode

\* A write stays inside the pages of its inode and a read inside what has been
\* written ("s_pos is inclusive It will read data from s_pos"), whatever the
\* other file objects did to the size since this one's offset was set.  Lengths
\* that are negative as an int are in the model; a transfer that runs away over
\* one is what the property excludes, and the last thing a behaviour does.
TransferInFile ==
  LET t == transfer
  IN  /\ t.from >= s_pos(t.i)
      /\ t.kind = "write" => t.from + t.len <= e_pos(t.i)
      /\ t.kind = "read" => t.from + t.len <= s_pos(t.i) + t.size \/ t.len = 0

\* A file never shrinks, and grows only to where a write through some file
\* object ended; opening it again does not truncate it.
SizeFollowsWrites ==
  [][\A i \in Inodes :
       LET old == inode[i].file_size
           new == inode'[i].file_size
       IN  new # old => /\ transfer'.kind = "write" /\ transfer'.i = i
                        /\ s_pos(i) + new = transfer'.from + transfer'.len
                        /\ new > old]_fileVars
=============================================================================
