----------------------------- MODULE FileTable ------------------------------
(***************************************************************************)
(* Open files in gemOS (Assignment2, gemOS/src file.c, pipe.c and the file  *)
(* system calls of entry.c): the descriptor tables of the processes, the    *)
(* file objects they share after dup, dup2 and fork, the reference counts,  *)
(* and the life of a pipe between its two ends.  What is read and written   *)
(* is in PipeBuffer and RegularFile.                                        *)
(*                                                                          *)
(* A system call runs with interrupts off: one step, except that the loop   *)
(* of do_file_exit is one step per descriptor and nobody else runs          *)
(* meanwhile.                                                               *)
(***************************************************************************)
EXTENDS Integers, FiniteSets, FiniteSetsExt

CONSTANTS Objects, Pipes,   \* pages for file objects and pipe_infos
          MAX_PROCESSES,    \* 7; slot 0 is the swapper, which opens no file
          MAX_OPEN_FILES,   \* 32
          NStd              \* 3: stdin, stdout and stderr have descriptors 0, 1, 2

NULL == 0

ASSUME FilesAssumption == /\ MAX_PROCESSES \in Nat /\ MAX_PROCESSES > 1
                          /\ NULL \notin Objects \cup Pipes /\ IsFiniteSet(Objects)
                          /\ MAX_OPEN_FILES \in Nat /\ NStd \in 0 .. MAX_OPEN_FILES

VARIABLES files,     \* ctx->files: per process and descriptor a file object or NULL
          file,      \* the file objects
          pipe,      \* the pipe_info objects
          live,      \* processes that exist
          exiting,   \* the process inside do_file_exit, or NoProc
          overrun    \* a descriptor past the table was written

vars == <<files, file, pipe, live, exiting, overrun>>

Fds    == 0 .. MAX_OPEN_FILES - 1
Procs  == 1 .. MAX_PROCESSES - 1
NoProc == 0

STDIN == 0
StdTypes == 0 .. NStd - 1

\* An object is free, or has a type, a mode, a ref_count and a pipe.
FreeFile == [type |-> "free", mode |-> "", ref_count |-> 0, pipe |-> NULL]
NewFile(type, mode, q) == [type |-> type, mode |-> mode, ref_count |-> 1, pipe |-> q]
StdFile(type) == NewFile("STD", IF type = STDIN THEN "O_READ" ELSE "O_WRITE", NULL)

FreePipe == [allocated |-> FALSE, is_ropen |-> 0, is_wopen |-> 0]

\* The allocator gives any free page.  It has far more than the tables can
\* hold; the size of Objects and Pipes is the bound of an instance.
FreeFiles == {o \in Objects : file[o].type = "free"}
FreePipes == {q \in Pipes : ~pipe[q].allocated}

-----------------------------------------------------------------------------
\* create_standard_IO for the standard descriptors of the first process, in
\* the objects that f gives.
Injections(S, T) == {f \in [S -> T] : \A a, b \in S : a # b => f[a] # f[b]}

StdTable(f) == [d \in Fds |-> IF d \in StdTypes THEN f[d] ELSE NULL]
StdFiles(f, others) == [o \in Objects |-> IF \E t \in StdTypes : f[t] = o
                                          THEN StdFile(CHOOSE t \in StdTypes : f[t] = o)
                                          ELSE others[o]]

NoFds == [d \in Fds |-> NULL]

Init == /\ \E f \in Injections(StdTypes, Objects) :
             /\ files = [p \in Procs |-> IF p = 1 THEN StdTable(f) ELSE NoFds]
             /\ file = StdFiles(f, [o \in Objects |-> FreeFile])
        /\ pipe = [q \in Pipes |-> FreePipe]
        /\ live = {1}
        /\ exiting = NoProc
        /\ overrun = FALSE

\* p is in a system call: it exists, nobody is exiting.
Calls(p) == p \in live /\ exiting = NoProc /\ ~overrun

\* The first descriptor from `from' on that is not in use.
Unused(p, from) == {d \in Fds : d >= from /\ files[p][d] = NULL}
FirstUnused(p, from) == Min(Unused(p, from))

SetFd(p, d, o) == files' = [files EXCEPT ![p][d] = o]
SameProcs == UNCHANGED <<live, exiting, overrun>>

\* open("stdin"), open("stdout"), open("stderr"): the object in the descriptor
\* of that number is shared, or created if there is none.  The search for a
\* free descriptor does not stop at MAX_OPEN_FILES.
open_standard_IO(p, type) ==
  /\ Calls(p)
  /\ UNCHANGED <<pipe, live, exiting>>
  /\ LET o == files[p][type]
     IN  IF o = NULL
         THEN \E new \in FreeFiles : /\ file' = [file EXCEPT ![new] = StdFile(type)]
                                     /\ SetFd(p, type, new)
                                     /\ UNCHANGED overrun
         ELSE /\ file' = [file EXCEPT ![o].ref_count = @ + 1]
              /\ IF Unused(p, NStd) # {}
                 THEN SetFd(p, FirstUnused(p, NStd), o) /\ UNCHANGED overrun
                 ELSE overrun' = TRUE /\ UNCHANGED files

\* A regular open that succeeds: the inode exists and permits the flags.
do_regular_file_open(p) ==
  /\ Calls(p)
  /\ Unused(p, NStd) # {}
  /\ \E o \in FreeFiles : /\ file' = [file EXCEPT ![o] = NewFile("REGULAR", "", NULL)]
                          /\ SetFd(p, FirstUnused(p, NStd), o)
  /\ UNCHANGED pipe /\ SameProcs

create_pipe(p) ==
  /\ Calls(p)
  /\ Cardinality(Unused(p, NStd)) >= 2
  /\ \E q \in FreePipes, o1, o2 \in FreeFiles :
     LET d1 == FirstUnused(p, NStd)
         d2 == FirstUnused(p, d1 + 1)
     IN  /\ o1 # o2
         /\ file' = [file EXCEPT ![o1] = NewFile("PIPE", "O_READ", q),
                                 ![o2] = NewFile("PIPE", "O_WRITE", q)]
         /\ pipe' = [pipe EXCEPT ![q] = [allocated |-> TRUE, is_ropen |-> 1, is_wopen |-> 1]]
         /\ files' = [files EXCEPT ![p][d1] = o1, ![p][d2] = o2]
  /\ SameProcs

fd_dup(p, oldfd) ==
  /\ Calls(p)
  /\ files[p][oldfd] # NULL
  /\ Unused(p, 0) # {}
  /\ SetFd(p, FirstUnused(p, 0), files[p][oldfd])
  /\ file' = [file EXCEPT ![files[p][oldfd]].ref_count = @ + 1]
  /\ UNCHANGED pipe /\ SameProcs

-----------------------------------------------------------------------------
\* Mutant: the pipe is freed with its first end.
EndClosed_first(f) == FreePipe

\* The pipe after the last reference to one of its ends, in object f, is gone.
EndClosed(f) ==
  LET r == IF f.mode = "O_READ" THEN 0 ELSE pipe[f.pipe].is_ropen
      w == IF f.mode = "O_WRITE" THEN 0 ELSE pipe[f.pipe].is_wopen
  IN  IF r = 0 /\ w = 0 THEN FreePipe
      ELSE [allocated |-> TRUE, is_ropen |-> r, is_wopen |-> w]

\* generic_close: drop one reference to object o.
ClosedFile(o) == IF file[o].ref_count = 1 THEN FreeFile
                 ELSE [file[o] EXCEPT !.ref_count = @ - 1]

ClosedPipes(o) == IF file[o].ref_count = 1 /\ file[o].type = "PIPE"
                  THEN [pipe EXCEPT ![file[o].pipe] = EndClosed(file[o])]
                  ELSE pipe

generic_close(o) == /\ file' = [file EXCEPT ![o] = ClosedFile(o)]
                    /\ pipe' = ClosedPipes(o)

do_close(p, d) ==
  /\ Calls(p)
  /\ files[p][d] # NULL
  /\ SetFd(p, d, NULL)
  /\ generic_close(files[p][d])
  /\ SameProcs

\* newfd is closed first if it is open, then made a copy of oldfd.
fd_dup2(p, oldfd, newfd) ==
  /\ Calls(p)
  /\ files[p][oldfd] # NULL
  /\ oldfd # newfd
  /\ LET old == files[p][oldfd]
         cur == files[p][newfd]
         closed == IF cur = NULL THEN file ELSE [file EXCEPT ![cur] = ClosedFile(cur)]
     IN  /\ file' = [closed EXCEPT ![old].ref_count = @ + 1]
         /\ pipe' = IF cur = NULL THEN pipe ELSE ClosedPipes(cur)
         /\ SetFd(p, newfd, old)
  /\ SameProcs

-----------------------------------------------------------------------------
\* Descriptors of a table that refer to an object.
RefsIn(table, o) == {d \in Fds : table[d] = o}

\* get_new_ctx: the first slot that is not in use.
NewCtx == Min(Procs \ live)

\* Mutant: the descriptors of the child are not counted.
do_fork_uncounted(p, child) ==
  /\ Calls(p) /\ Procs # live
  /\ child = NewCtx
  /\ files' = [files EXCEPT ![child] = files[p]]
  /\ live' = live \cup {child}
  /\ UNCHANGED <<file, pipe, exiting, overrun>>

\* do_fork copies the table, do_file_fork counts every descriptor of the copy.
do_fork(p, child) ==
  /\ Calls(p) /\ Procs # live
  /\ child = NewCtx
  /\ files' = [files EXCEPT ![child] = files[p]]
  /\ file' = [o \in Objects |->
                [file[o] EXCEPT !.ref_count = @ + Cardinality(RefsIn(files[p], o))]]
  /\ live' = live \cup {child}
  /\ UNCHANGED <<pipe, exiting, overrun>>

\* do_clone copies no descriptors.
do_clone(p, child) ==
  /\ Calls(p) /\ Procs # live
  /\ child = NewCtx
  /\ live' = live \cup {child}
  /\ UNCHANGED <<files, file, pipe, exiting, overrun>>

do_exit(p) ==
  /\ Calls(p)
  /\ exiting' = p
  /\ UNCHANGED <<files, file, pipe, live, overrun>>

OpenFds(p) == {d \in Fds : files[p][d] # NULL}

\* One round of the loop, and its end.
do_file_exit ==
  /\ exiting # NoProc
  /\ OpenFds(exiting) # {}
  /\ SetFd(exiting, Min(OpenFds(exiting)), NULL)
  /\ generic_close(files[exiting][Min(OpenFds(exiting))])
  /\ SameProcs

exit_done ==
  /\ exiting # NoProc
  /\ OpenFds(exiting) = {}
  /\ live' = live \ {exiting}
  /\ exiting' = NoProc
  /\ UNCHANGED <<files, file, pipe, overrun>>

\* After the last exit the shell creates the first process again.
create_context ==
  /\ live = {}
  /\ \E f \in Injections(StdTypes, FreeFiles) :
       /\ files' = [files EXCEPT ![1] = StdTable(f)]
       /\ file' = StdFiles(f, file)
  /\ live' = {1}
  /\ UNCHANGED <<pipe, exiting, overrun>>

Next == \/ \E p \in Procs :
             \/ \E type \in StdTypes : open_standard_IO(p, type)
             \/ do_regular_file_open(p)
             \/ create_pipe(p)
             \/ \E d \in Fds : do_close(p, d) \/ fd_dup(p, d)
             \/ \E oldfd, newfd \in Fds : fd_dup2(p, oldfd, newfd)
             \/ \E child \in Procs : do_fork(p, child) \/ do_clone(p, child)
             \/ do_exit(p)
        \/ do_file_exit \/ exit_done \/ create_context

Spec == Init /\ [][Next]_vars

-----------------------------------------------------------------------------
(***************************************************************************)
(* Properties                                                               *)
(***************************************************************************)
FileRecords == [type : {"free", "STD", "REGULAR", "PIPE"}, mode : {"", "O_READ", "O_WRITE"},
                ref_count : Nat, pipe : Pipes \cup {NULL}]
PipeRecords == [allocated : BOOLEAN, is_ropen : {0, 1}, is_wopen : {0, 1}]

TypeOK == /\ files \in [Procs -> [Fds -> Objects \cup {NULL}]]
          /\ file \in [Objects -> FileRecords]
          /\ pipe \in [Pipes -> PipeRecords]
          /\ live \subseteq Procs
          /\ exiting \in live \cup {NoProc}
          /\ overrun \in BOOLEAN

\* "You need to ensure that the reference count in the file object associated
\* with the fd is maintained correctly": the count of every object is the
\* number of descriptors, of all processes, that refer to it.  So no descriptor
\* refers to a freed object and no object outlives its last descriptor.
RefCountExact ==
  /\ TypeOK
  /\ \A o \in Objects : file[o].type # "free" <=> file[o].ref_count > 0
  /\ ~overrun => \A o \in Objects :
       file[o].ref_count = Cardinality({pd \in Procs \X Fds : files[pd[1]][pd[2]] = o})

\* is_ropen and is_wopen say whether any descriptor of that end is left in any
\* process, and the pipe is freed exactly when neither is: no end can use a
\* freed pipe and no pipe is leaked.
PipeEndsTracked ==
  \A q \in Pipes :
    LET ends(mode) == {o \in Objects : file[o].type = "PIPE" /\ file[o].pipe = q /\ file[o].mode = mode}
    IN  /\ pipe[q].is_ropen = Cardinality(ends("O_READ"))
        /\ pipe[q].is_wopen = Cardinality(ends("O_WRITE"))
        /\ pipe[q].allocated <=> pipe[q].is_ropen + pipe[q].is_wopen > 0
=============================================================================
