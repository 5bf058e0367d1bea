------------------------------- MODULE DirWalk ------------------------------
(***************************************************************************)
(* The directory walks of Assignment 1: Part_1/src/part1.c prints the lines *)
(* with a pattern in all files below a path, Part_3/src/part3.c the size of *)
(* a directory and of its subdirectories, each summed by a child process    *)
(* that sends its result through a pipe.  Both recurse with chdir, so every *)
(* name is looked up in the working directory of the process.               *)
(*                                                                          *)
(* The tree of the host is chosen at the start and does not change.  Node 0 *)
(* is the argument of the program, which exists.  The directory the program *)
(* is started in need not be the one above the argument.  Left out: symbolic *)
(* links, directories that may not be entered, and lines and paths longer   *)
(* than the buffers.                                                        *)
(***************************************************************************)
EXTENDS Integers, Sequences, SequencesExt, FiniteSets, FiniteSetsExt, Functions

CONSTANTS NNodes,         \* most files and directories below the argument
          Names,
          Contents,       \* contents of files: sequences over "p", "o", "\n"
          INT,            \* values of an int (2^32)
          Limits,         \* numbers of descriptors a process may have
          Garbage         \* values of an uninitialised variable

\* The directory above the argument, and the one the program is started in.
Above == -1
Start == -2

ASSUME WalkAssumption == /\ NNodes \in Nat /\ Limits \subseteq Nat /\ INT \in Nat \ {0}
                         /\ \A c \in Contents : Range(c) \subseteq {"p", "o", "\n"}
                         /\ Garbage \subseteq Int

VARIABLES tool,           \* the program: "part1" or "part3"
          tree,           \* parent, name, kind and contents of the nodes
          OPEN_MAX,       \* descriptors of a process
          status,         \* of the main process
          cwd,            \* its working directory
          stack,          \* part1: frames of recurse; part3: the loop of main
          fds,            \* its open descriptors
          ans,            \* part3: the sum of main
          child,          \* part3: the child process
          printed         \* the lines on the standard output

host     == <<tool, tree, OPEN_MAX>>
walkVars == <<host, status, cwd, stack, fds, ans, child, printed>>

-----------------------------------------------------------------------------
\* The host's file system.
TreesOf(m) ==
  {t \in [parent : [1 .. m -> 0 .. m - 1], name : [1 .. m -> Names],
          kind : [0 .. m -> {"dir", "file"}], unreadable : {{}} \cup {{n} : n \in 0 .. m}] :
     /\ \A n \in 1 .. m : t.parent[n] < n /\ t.kind[t.parent[n]] = "dir"
     /\ \A k, n \in 1 .. m : t.parent[k] = t.parent[n] /\ k < n => t.name[k] # t.name[n]}
Trees == UNION {TreesOf(m) : m \in 0 .. NNodes}

Nodes          == DOMAIN tree.kind
Parent(n)      == IF n = 0 THEN Above ELSE tree.parent[n]
Children(d)    == {n \in Nodes \ {0} : tree.parent[n] = d}
Entries(d)     == {tree.name[n] : n \in Children(d)}
Readable(n)    == n \notin tree.unreadable

\* The node a name stands for in directory d.
Lookup(d, nm)  == CHOOSE n \in Children(d) : tree.name[n] = nm
Exists(d, nm)  == nm \in Entries(d)
is_file(d, nm) == Exists(d, nm) /\ tree.kind[Lookup(d, nm)] = "file"
is_dir(d, nm)  == Exists(d, nm) /\ tree.kind[Lookup(d, nm)] = "dir"

\* opendir and open need a free descriptor and the right to read.
Opens(n, used) == Readable(n) /\ used < OPEN_MAX

NoChild == [status |-> "none", cwd |-> Start, stack |-> <<>>, name |-> "", size |-> 0]

WalkInit ==
  /\ tool \in {"part1", "part3"}
  /\ OPEN_MAX \in Limits
  /\ \E t \in Trees : \E c \in [{n \in DOMAIN t.kind : t.kind[n] = "file"} -> Contents] :
       /\ tree = [parent |-> t.parent, name |-> t.name, kind |-> t.kind,
                  unreadable |-> t.unreadable, contents |-> c]
       /\ tool = "part3" => t.kind[0] = "dir"
  /\ status = "start" /\ cwd = Start /\ stack = <<>> /\ fds = 3
  /\ ans = 0 /\ child = NoChild /\ printed = <<>>

End(s) == status' = s /\ UNCHANGED <<host, cwd, stack, fds, ans, child, printed>>

Top(s)      == s[Len(s)]
Take(s, nm) == [s EXCEPT ![Len(s)].left = @ \ {nm}]

-----------------------------------------------------------------------------
(***************************************************************************)
(* part1.c                                                                  *)
(***************************************************************************)
\* strstr with a pattern of one character.
Matches(line) == "p" \in Range(line)

\* grep: the matching lines of a file, read character by character; what is
\* left after the last newline is a line if it is not empty.
grep(c) ==
  LET ended(r) == [line |-> <<>>, out |-> IF Matches(r.line) THEN Append(r.out, r.line) ELSE r.out]
      read(r, ch) == IF ch = "\n" THEN ended(r) ELSE [r EXCEPT !.line = Append(@, ch)]
  IN  ended(FoldLeft(read, [line |-> <<>>, out |-> <<>>], c)).out

\* The lines are printed behind `loc' if the argument was a directory.
GrepFile(contents, loc) ==
  /\ printed' = printed \o [i \in DOMAIN grep(contents) |-> <<loc, grep(contents)[i]>>]
  /\ UNCHANGED <<host, cwd, fds, ans, child>>

\* The begin of recurse: chdir, opendir, and the loop over the entries.
recurse_begin(n, complete, s) ==
  IF Opens(n, fds)
  THEN /\ cwd' = n
       /\ stack' = Append(s, [left |-> Entries(n), complete |-> complete, size |-> 0])
       /\ fds' = fds + 1
       /\ status' = "walk"
       /\ UNCHANGED <<host, ans, child, printed>>
  ELSE End("crashed")

main_part1 ==
  /\ tool = "part1" /\ status = "start"
  /\ \/ tree.kind[0] = "dir" /\ recurse_begin(0, <<>>, stack)
     \/ /\ tree.kind[0] = "file" /\ Opens(0, fds)
        /\ GrepFile(tree.contents[0], <<>>)
        /\ status' = "done" /\ UNCHANGED stack
     \/ tree.kind[0] = "file" /\ ~Opens(0, fds) /\ End("error")

\* After a directory main tests its argument once more, is it a file?, and the
\* walk has left the process in the directory above it.  An absolute path, or a
\* path of one name, is still the directory; another path may be a file there,
\* whose lines are printed too, or nothing: then the struct stat is
\* uninitialised, and if it says file the open fails.
main_again ==
  /\ tool = "part1" /\ status = "again"
  /\ \/ End("done")
     \/ \E contents \in Contents :
          GrepFile(contents, <<>>) /\ status' = "strayed" /\ UNCHANGED stack
     \/ End("error")

recurse_entry(nm) ==
  /\ tool = "part1" /\ status = "walk" /\ nm \in Top(stack).left
  /\ LET loc == Append(Top(stack).complete, nm)
     IN  \/ /\ is_file(cwd, nm) /\ Opens(Lookup(cwd, nm), fds)
            /\ GrepFile(tree.contents[Lookup(cwd, nm)], loc)
            /\ stack' = Take(stack, nm)
            /\ UNCHANGED status
         \/ is_file(cwd, nm) /\ ~Opens(Lookup(cwd, nm), fds) /\ End("error")
         \/ is_dir(cwd, nm) /\ recurse_begin(Lookup(cwd, nm), loc, Take(stack, nm))

\* Mutant: recurse does not go back to the directory it came from.
recurse_end_stays ==
  /\ tool = "part1" /\ status = "walk" /\ Top(stack).left = {}
  /\ stack' = Front(stack)
  /\ fds' = fds - 1
  /\ status' = IF Len(stack) = 1 THEN "again" ELSE "walk"
  /\ UNCHANGED <<host, cwd, ans, child, printed>>

recurse_end ==
  /\ tool = "part1" /\ status = "walk" /\ Top(stack).left = {}
  /\ cwd' = Parent(cwd)
  /\ stack' = Front(stack)
  /\ fds' = fds - 1
  /\ status' = IF Len(stack) = 1 THEN "again" ELSE "walk"
  /\ UNCHANGED <<host, ans, child, printed>>

-----------------------------------------------------------------------------
(***************************************************************************)
(* part3.c                                                                  *)
(***************************************************************************)
\* A value converted to int, the type recurse returns.
ToInt(n) == LET m == n % INT IN IF m >= INT \div 2 THEN m - INT ELSE m

\* lseek to the end of a file; -1 when it could not be opened.
SizeOf(n, used) == IF Opens(n, used) THEN Len(tree.contents[n]) ELSE -1

main_part3 ==
  /\ tool = "part3" /\ status = "start"
  /\ IF Opens(0, fds)
     THEN /\ cwd' = 0 /\ fds' = fds + 1 /\ status' = "loop"
          /\ stack' = <<[left |-> Entries(0), complete |-> <<>>, size |-> 0]>>
          /\ UNCHANGED <<host, ans, child, printed>>
     ELSE End("crashed")

Looping(nm) == tool = "part3" /\ status = "loop" /\ nm \in Top(stack).left

main_file(nm) ==
  /\ Looping(nm) /\ is_file(cwd, nm)
  /\ ans' = ans + SizeOf(Lookup(cwd, nm), fds)
  /\ stack' = Take(stack, nm)
  /\ UNCHANGED <<host, status, cwd, fds, child, printed>>

\* The recursion of the child in the subdirectory n, with `used' descriptors.
ChildEnters(c, n, used) ==
  IF Opens(n, used)
  THEN [c EXCEPT !.cwd = n, !.stack = Append(@, [left |-> Entries(n), size |-> 0])]
  ELSE [c EXCEPT !.status = "crashed"]

pipeerror == End("error")
forkerror == End("error")

\* pipe and fork; the parent keeps the read end for good.
main_fork(nm) ==
  /\ Looping(nm) /\ is_dir(cwd, nm)
  /\ \/ fds + 2 > OPEN_MAX /\ pipeerror
     \/ fds + 2 <= OPEN_MAX /\ forkerror
     \/ /\ fds + 2 <= OPEN_MAX
        /\ child' = ChildEnters([NoChild EXCEPT !.status = "walk", !.name = nm, !.cwd = cwd],
                                Lookup(cwd, nm), fds + 2)
        /\ status' = "read"
        /\ stack' = Take(stack, nm)
        /\ fds' = fds + 1
        /\ UNCHANGED <<host, cwd, ans, printed>>

ChildStep(c) == child' = c /\ UNCHANGED <<host, status, cwd, stack, fds, ans>>

\* The descriptors of the child: the parent's, the write end, one per directory.
ChildFds == fds + 1 + Len(child.stack)

child_entry(nm) ==
  /\ child.status = "walk" /\ nm \in Top(child.stack).left
  /\ LET c == [child EXCEPT !.stack = Take(@, nm)]
     IN  \/ is_dir(c.cwd, nm) /\ ChildStep(ChildEnters(c, Lookup(c.cwd, nm), ChildFds))
         \/ /\ is_file(c.cwd, nm)
            /\ ChildStep([c EXCEPT !.stack[Len(c.stack)].size = @ + SizeOf(Lookup(c.cwd, nm), ChildFds)])
  /\ UNCHANGED printed

\* recurse returns: its caller adds the size.
Returned(s, size) == [Front(s) EXCEPT ![Len(s) - 1].size = @ + size]

child_return ==
  /\ child.status = "walk" /\ Top(child.stack).left = {}
  /\ LET size == ToInt(Top(child.stack).size)
         back == [child EXCEPT !.cwd = Parent(@)]
     IN  IF Len(child.stack) > 1
         THEN ChildStep([back EXCEPT !.stack = Returned(@, size)]) /\ UNCHANGED printed
         ELSE /\ ChildStep([back EXCEPT !.stack = <<>>, !.size = size, !.status = "write"])
              /\ printed' = Append(printed, <<child.name, size>>)

child_write ==
  /\ child.status = "write"
  /\ ChildStep([child EXCEPT !.status = "written"]) /\ UNCHANGED printed

\* The parent's read returns with the size, or with nothing when the child is
\* gone; then tp keeps what it held.
main_read ==
  /\ status = "read" /\ child.status \in {"written", "crashed"}
  /\ \E tp \in IF child.status = "written" THEN {child.size} ELSE Garbage : ans' = ans + tp
  /\ child' = NoChild
  /\ status' = "loop"
  /\ UNCHANGED <<host, cwd, stack, fds, printed>>

main_total ==
  /\ tool = "part3" /\ status = "loop" /\ Top(stack).left = {}
  /\ printed' = Append(printed, <<"", ans>>)
  /\ status' = "done"
  /\ UNCHANGED <<host, cwd, stack, fds, ans, child>>

WalkNext == \/ main_part1 \/ recurse_end \/ main_again
            \/ main_part3 \/ child_return \/ child_write \/ main_read \/ main_total
            \/ \E nm \in Names : recurse_entry(nm) \/ main_file(nm) \/ main_fork(nm) \/ child_entry(nm)

WalkEnded == status \in {"done", "strayed", "error", "crashed"}

-----------------------------------------------------------------------------
(***************************************************************************)
(* Properties                                                               *)
(***************************************************************************)
\* The names from the argument down to a node, and the files below a node.
PathOf ==
  LET path[n \in Nodes] == IF n = 0 THEN <<>> ELSE Append(path[tree.parent[n]], tree.name[n])
  IN  path

FilesBelow(d) == {n \in Nodes : tree.kind[n] = "file" /\ IsPrefix(PathOf[d], PathOf[n])}

\* A line of a file, found by the first "p" in it.
MatchingLines(c) ==
  LET together(i, j) == \A k \in i .. j : c[k] # "\n"
      firsts == {i \in DOMAIN c : c[i] = "p" /\ \A j \in 1 .. i - 1 : c[j] = "p" => ~together(j, i)}
      begin(i) == Min({j \in 1 .. i : together(j, i)})
      end(i) == Max({j \in i .. Len(c) : together(i, j)})
      order == SetToSortSeq(firsts, <)
  IN  [k \in DOMAIN order |-> SubSeq(c, begin(order[k]), end(order[k]))]

\* All of the tree can be read, with the descriptors a process may have.
Depth(n)  == Len(PathOf[n])
SubDirs   == {n \in Children(0) : tree.kind[n] = "dir"}
InReach   == /\ tree.unreadable = {}
             /\ 6 + Cardinality(SubDirs) + Max({Depth(n) : n \in Nodes}) <= OPEN_MAX

TrueSize(d) == MapThenSumSet(LAMBDA n : Len(tree.contents[n]), FilesBelow(d))

GrepRight ==
  LET lines(n) == MatchingLines(tree.contents[n])
      under(n) == SelectSeq(printed, LAMBDA l : l[1] = PathOf[n])
  IN  /\ \A n \in FilesBelow(0) : under(n) = [i \in DOMAIN lines(n) |-> <<PathOf[n], lines(n)[i]>>]
      /\ status = "done" => Len(printed) = MapThenSumSet(LAMBDA n : Len(lines(n)), FilesBelow(0))
      /\ cwd = IF tree.kind[0] = "dir" THEN Above ELSE Start

SizesRight ==
  /\ Len(printed) = 1 + Cardinality(SubDirs)
  /\ \A d \in SubDirs : <<tree.name[d], TrueSize(d)>> \in Range(Front(printed))
  /\ Last(printed) = <<"", TrueSize(0)>>

\* In whatever order readdir returns the entries and wherever equal names occur,
\* the recursion looks names up in the directory they come from.  At the end
\* part1 has printed the matching lines of every file once, under its path,
\* whatever the second look at the argument finds, and nothing else unless it
\* finds another file or fails; and part3 has printed one line for every
\* subdirectory and then the total ("update ans with size of sub-directory"), if
\* no subdirectory holds more than fits an int.
WalkRight ==
  /\ tool = "part1" /\ status = "walk" => cwd \in Nodes /\ PathOf[cwd] = Top(stack).complete
  /\ tool = "part1" /\ status \in {"done", "strayed", "error"} /\ InReach => GrepRight
  /\ tool = "part3" /\ status = "done" /\ InReach =>
       ((\A d \in SubDirs : TrueSize(d) < INT \div 2) => SizesRight)
=============================================================================
