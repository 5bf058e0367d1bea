---------------------------- MODULE MCShellTools ----------------------------
(***************************************************************************)
(* The three programs of Assignment 1, on small trees and short outputs.    *)
(* They share nothing: a behaviour is one of part1 or part3, or of part2.   *)
(***************************************************************************)
EXTENDS DirWalk, Pipeline

VARIABLE part

MCContents == {<<"p">>, <<"o", "\n", "p">>, <<"p", "\n">>}

MCOutput == <<"x", "y", "z">>

WalkIdle == /\ tool = "none" /\ tree = <<>> /\ OPEN_MAX = 0 /\ status = "none" /\ cwd = Start
            /\ stack = <<>> /\ fds = 0 /\ ans = 0 /\ child = NoChild /\ printed = <<>>

MCInit == \/ part = "walk" /\ WalkInit /\ PipelineInit /\ mode = "@"
          \/ part = "pipeline" /\ WalkIdle /\ PipelineInit

MCNext == /\ UNCHANGED part
          /\ \/ part = "walk" /\ WalkNext /\ UNCHANGED plVars
             \/ part = "pipeline" /\ PipelineNext /\ UNCHANGED walkVars

MCvars == <<part, walkVars, plVars>>

\* Every process that can go on does; the command may run on for ever, but what
\* its input offers it reads.
MCSpec == /\ MCInit /\ [][MCNext]_MCvars
          /\ WF_MCvars(part = "walk" /\ MCNext)
          /\ WF_MCvars(part = "pipeline" /\ GrepStep /\ UNCHANGED <<part, walkVars>>)
          /\ WF_MCvars(part = "pipeline" /\ TeeStep /\ UNCHANGED <<part, walkVars>>)
          /\ WF_MCvars(part = "pipeline" /\ MainStep /\ UNCHANGED <<part, walkVars>>)

\* Every program comes to its end: the recursions return, no reader waits for an
\* end of file that a process which still holds the write end keeps back, and no
\* writer for a reader that is gone.
AllEnd == <>(IF part = "walk" THEN WalkEnded ELSE PipelineEnded)
=============================================================================
