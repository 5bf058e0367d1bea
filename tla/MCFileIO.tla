------------------------------ MODULE MCFileIO ------------------------------
(* The data path of read and write: a behaviour is one of a pipe or one of   *)
(* regular files, which share no state.  The bounds are in the cfg file.     *)
EXTENDS PipeBuffer, RegularFile, TLC

VARIABLE part

MCInit == /\ part \in {"pipe", "file"} /\ PipeInit /\ FileInit
          /\ part = "file" => \A i \in Positions : pipe_buff[i] = 0

MCNext == \/ part = "pipe" /\ PipeNext /\ UNCHANGED <<part, fileVars>>
          \/ part = "file" /\ FileNext /\ UNCHANGED <<part, pipeVars>>

\* File objects and names are compared and never told apart otherwise.
Symmetric == Permutations(Handles) \cup Permutations(Names)

MCSpec == MCInit /\ [][MCNext]_<<part, pipeVars, fileVars>>

\* No read or write of a pipe or of a file leaves the bytes it may touch: the
\* two positions of a pipe never drift apart, and a file's offset is checked
\* against the size the other file objects have given it meanwhile.
TransfersInPlace == PositionsAgree /\ TransferInFile
=============================================================================
