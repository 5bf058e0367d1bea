------------------------------ MODULE Pipeline ------------------------------
(***************************************************************************)
(* The pipelines of Assignment1/Part_2/src/part2.c: with "@" the output of  *)
(* grep goes to wc, with "$" through a tee process to a file and to a       *)
(* command.  The processes start as copies of one another and each closes   *)
(* the pipe ends it does not need; a reader sees the end of a pipe when     *)
(* nobody can write it, and a writer is killed when nobody can read it.     *)
(*                                                                          *)
(* grep, wc and the command are programs of the host.  grep writes Output   *)
(* and ends; the command reads its input and may end at any time.           *)
(***************************************************************************)
EXTENDS Integers, Sequences, SequencesExt

CONSTANTS Output,         \* what grep writes, byte by byte
          PIPE_SIZE       \* bytes a pipe holds

ASSUME PipelineAssumption == Output \in Seq(STRING) /\ PIPE_SIZE \in Nat \ {0}

VARIABLES mode,           \* argv[1]: "@" or "$"
          at,             \* where every process is
          rd, wr,         \* the processes that hold the ends of the pipes
          pipe,           \* the bytes in the pipes
          sent,           \* bytes grep has written
          tee_char,       \* the byte the tee process works on, or none
          outfd,          \* the tee process's descriptor of the output file
          outfile,        \* what it has written to that file
          missed,         \* whether a write to the file has failed
          received        \* what wc or the command has read

plVars == <<mode, at, rd, wr, pipe, sent, tee_char, outfd, outfile, missed, received>>

\* Process "main" becomes wc or the command.
Procs == {"main", "grep", "tee"}
Pipes == {"fd", "newfd"}
None  == <<>>

PipelineInit ==
  /\ mode \in {"@", "$"}
  /\ at = [p \in Procs |-> IF p = "main" THEN "pipe" ELSE "unborn"]
  /\ rd = [q \in Pipes |-> {}] /\ wr = [q \in Pipes |-> {}]
  /\ pipe = [q \in Pipes |-> <<>>]
  /\ sent = 0 /\ tee_char = None /\ received = <<>>
  /\ outfd = "unopened" /\ outfile = <<>> /\ missed = FALSE

\* What only the tee process changes of the output file.
outVars == <<outfd, outfile, missed>>

MoveTo(p, l) == at' = [at EXCEPT ![p] = l]

\* The end of a process, which closes all it holds.
Exits(p, l) == /\ MoveTo(p, l)
               /\ rd' = [q \in Pipes |-> rd[q] \ {p}]
               /\ wr' = [q \in Pipes |-> wr[q] \ {p}]

\* pipe() in main, or its failure.
new_pipe(l, q, next) ==
  /\ at["main"] = l
  /\ \/ /\ rd' = [rd EXCEPT ![q] = {"main"}]
        /\ wr' = [wr EXCEPT ![q] = {"main"}]
        /\ MoveTo("main", next)
     \/ Exits("main", "pipeerror")
  /\ UNCHANGED <<mode, pipe, sent, tee_char, outVars, received>>

\* fork() in main: the child holds what main holds.
fork(l, c, next) ==
  LET inherit(ends) == [q \in Pipes |-> IF "main" \in ends[q] THEN ends[q] \cup {c} ELSE ends[q]]
  IN  /\ at["main"] = l
      /\ \/ /\ at' = [at EXCEPT !["main"] = next, ![c] = "born"]
            /\ rd' = inherit(rd) /\ wr' = inherit(wr)
         \/ Exits("main", "forkerror")
      /\ UNCHANGED <<mode, pipe, sent, tee_char, outVars, received>>

close_input(p, l, q, next) ==
  /\ at[p] = l
  /\ rd' = [rd EXCEPT ![q] = @ \ {p}]
  /\ MoveTo(p, next)
  /\ UNCHANGED <<mode, wr, pipe, sent, tee_char, outVars, received>>

close_output(p, l, q, next) ==
  /\ at[p] = l
  /\ wr' = [wr EXCEPT ![q] = @ \ {p}]
  /\ MoveTo(p, next)
  /\ UNCHANGED <<mode, rd, pipe, sent, tee_char, outVars, received>>

\* A write to a pipe: it blocks while the pipe is full and somebody may read.
CanWrite(q) == rd[q] # {} /\ Len(pipe[q]) < PIPE_SIZE
CanRead(q)  == pipe[q] # <<>>
AtEnd(q)    == pipe[q] = <<>> /\ wr[q] = {}

-----------------------------------------------------------------------------
\* The child with grep, in both modes: it closes the end it does not read.
grep_start == close_input("grep", "born", "fd", "exec")

grep_write ==
  /\ at["grep"] = "exec" /\ sent < Len(Output)
  /\ \/ /\ CanWrite("fd")
        /\ pipe' = [pipe EXCEPT !["fd"] = Append(@, Output[sent + 1])]
        /\ sent' = sent + 1
        /\ UNCHANGED <<at, rd, wr>>
     \/ rd["fd"] = {} /\ Exits("grep", "SIGPIPE") /\ UNCHANGED <<pipe, sent>>
  /\ UNCHANGED <<mode, tee_char, outVars, received>>

grep_end == /\ at["grep"] = "exec" /\ sent = Len(Output)
            /\ Exits("grep", "exit")
            /\ UNCHANGED <<mode, pipe, sent, tee_char, outVars, received>>

-----------------------------------------------------------------------------
\* The child that writes the file and passes every byte on.
tee_start == close_input("tee", "born", "newfd", "open")

\* creat and open; no result is tested, and -1 is used as a descriptor.
tee_open ==
  /\ at["tee"] = "open"
  /\ outfd' \in {"opened", "bad"}
  /\ MoveTo("tee", "read")
  /\ UNCHANGED <<mode, rd, wr, pipe, sent, tee_char, outfile, missed, received>>

tee_read ==
  /\ at["tee"] = "read"
  /\ \/ /\ CanRead("fd")
        /\ tee_char' = <<Head(pipe["fd"])>>
        /\ pipe' = [pipe EXCEPT !["fd"] = Tail(@)]
        /\ MoveTo("tee", "file")
        /\ UNCHANGED <<rd, wr>>
     \/ AtEnd("fd") /\ Exits("tee", "exit") /\ UNCHANGED <<pipe, tee_char>>
  /\ UNCHANGED <<mode, sent, outVars, received>>

\* A write that fails, because there is no file or no space, goes unnoticed.
tee_file ==
  /\ at["tee"] = "file"
  /\ \/ outfd = "opened" /\ outfile' = outfile \o tee_char /\ UNCHANGED missed
     \/ missed' = TRUE /\ UNCHANGED outfile
  /\ MoveTo("tee", "write")
  /\ UNCHANGED <<mode, rd, wr, pipe, sent, tee_char, outfd, received>>

\* Mutant: a full pipe is not waited for.
tee_write_drops ==
  /\ at["tee"] = "write"
  /\ \/ /\ rd["newfd"] # {}
        /\ pipe' = IF CanWrite("newfd") THEN [pipe EXCEPT !["newfd"] = @ \o tee_char] ELSE pipe
        /\ tee_char' = None
        /\ MoveTo("tee", "read")
        /\ UNCHANGED <<rd, wr>>
     \/ rd["newfd"] = {} /\ Exits("tee", "SIGPIPE") /\ UNCHANGED <<pipe, tee_char>>
  /\ UNCHANGED <<mode, sent, outVars, received>>

tee_write ==
  /\ at["tee"] = "write"
  /\ \/ /\ CanWrite("newfd")
        /\ pipe' = [pipe EXCEPT !["newfd"] = @ \o tee_char]
        /\ tee_char' = None
        /\ MoveTo("tee", "read")
        /\ UNCHANGED <<rd, wr>>
     \/ rd["newfd"] = {} /\ Exits("tee", "SIGPIPE") /\ UNCHANGED <<pipe, tee_char>>
  /\ UNCHANGED <<mode, sent, outVars, received>>

-----------------------------------------------------------------------------
\* main up to its exec.  With "@" it closes the write end and becomes wc.  With
\* "$" it also makes the second pipe and the tee process, to which it leaves
\* the read end of the first pipe without closing its own.
main_count == \/ mode = "@" /\ new_pipe("pipe", "fd", "fork")
              \/ mode = "@" /\ fork("fork", "grep", "close")
              \/ mode = "@" /\ close_output("main", "close", "fd", "exec")

\* Mutant: the write end of the first pipe is closed too late.
main_tee_late_close ==
  \/ mode = "$" /\ new_pipe("pipe", "fd", "fork")
  \/ mode = "$" /\ fork("fork", "grep", "newpipe")
  \/ mode = "$" /\ new_pipe("newpipe", "newfd", "newfork")
  \/ mode = "$" /\ fork("newfork", "tee", "close")
  \/ mode = "$" /\ close_output("main", "close", "fd", "newclose")
  \/ mode = "$" /\ close_output("main", "newclose", "newfd", "exec")

main_tee ==
  \/ mode = "$" /\ new_pipe("pipe", "fd", "fork")
  \/ mode = "$" /\ fork("fork", "grep", "close")
  \/ mode = "$" /\ close_output("main", "close", "fd", "newpipe")
  \/ mode = "$" /\ new_pipe("newpipe", "newfd", "newfork")
  \/ mode = "$" /\ fork("newfork", "tee", "newclose")
  \/ mode = "$" /\ close_output("main", "newclose", "newfd", "exec")

\* wc, or the command, reads its standard input.
Stdin == IF mode = "@" THEN "fd" ELSE "newfd"

cmd_read ==
  /\ at["main"] = "exec"
  /\ \/ /\ CanRead(Stdin)
        /\ received' = Append(received, Head(pipe[Stdin]))
        /\ pipe' = [pipe EXCEPT ![Stdin] = Tail(@)]
        /\ UNCHANGED <<at, rd, wr>>
     \/ AtEnd(Stdin) /\ Exits("main", "exit") /\ UNCHANGED <<pipe, received>>
  /\ UNCHANGED <<mode, sent, tee_char, outVars>>

\* The command does not read on, or could not be executed.
cmd_stop ==
  /\ mode = "$" /\ at["main"] = "exec"
  /\ Exits("main", "stopped")
  /\ UNCHANGED <<mode, pipe, sent, tee_char, outVars, received>>

GrepStep == grep_start \/ grep_write \/ grep_end
TeeStep  == tee_start \/ tee_open \/ tee_read \/ tee_file \/ tee_write
MainStep == main_count \/ main_tee \/ cmd_read

PipelineNext == GrepStep \/ TeeStep \/ MainStep \/ cmd_stop
PipelineSpec == PipelineInit /\ [][PipelineNext]_plVars

Ends          == {"pipeerror", "forkerror", "SIGPIPE", "exit", "stopped"}
PipelineEnded == \A p \in Procs : at[p] \in Ends \cup {"unborn"}

-----------------------------------------------------------------------------
(***************************************************************************)
(* Properties                                                               *)
(***************************************************************************)
PipelineTypeOK == /\ mode \in {"@", "$"}
                  /\ rd \in [Pipes -> SUBSET Procs] /\ wr \in [Pipes -> SUBSET Procs]
                  /\ \A q \in Pipes : Len(pipe[q]) <= PIPE_SIZE
                  /\ sent \in 0 .. Len(Output) /\ Len(tee_char) <= 1
                  /\ outfd \in {"unopened", "opened", "bad"} /\ missed \in BOOLEAN

\* What arrives is what grep wrote, also when the others are late: "read from old
\* pipe, write into file, write into new pipe".  What the last process has read is
\* at every moment the beginning of grep's output, and when it sees the end of its
\* input it has seen all of it, whatever became of the file.  The file is the
\* beginning of the output too, at least what has been passed on, and all of it
\* when the tee process ends, as long as no write to it has failed: nobody tests
\* that one did.
PipelineComplete ==
  /\ PipelineTypeOK
  /\ IsPrefix(received, Output)
  /\ at["main"] = "exit" => received = Output
  /\ ~missed => /\ IsPrefix(outfile, Output)
                /\ mode = "$" => IsPrefix(received, outfile)
                /\ at["tee"] = "exit" => outfile = Output
=============================================================================
