--------------------------- MODULE FileTableProofs --------------------------
(***************************************************************************)
(* Proofs about FileTable, for any number of processes, descriptors,        *)
(* standard descriptors, file objects and pipes.                            *)
(*                                                                          *)
(* generic_close decides by the count alone whether to free an object, so   *)
(* that counts and descriptors agree, that an object in use has a count,    *)
(* and that a pipe knows its ends are proved together: IInv.                *)
(***************************************************************************)
EXTENDS FileTable, FiniteSetTheorems, WellFoundedInduction, TLAPS

\* The descriptors of all processes that refer to object o in tables f.
RefsOf(f, o) == {pd \in Procs \X Fds : f[pd[1]][pd[2]] = o}
Count(f, o)  == Cardinality(RefsOf(f, o))
Put(f, p, d, o) == [f EXCEPT ![p][d] = o]
Made(F, o, f) == [F EXCEPT ![o] = f]
Up(F, o)     == [F EXCEPT ![o].ref_count = @ + 1]
Tables       == [Procs -> [Fds -> Objects \cup {NULL}]]

\* File objects F are in use exactly while they are counted, and an end of a
\* pipe knows its pipe and its direction.
FilesSound(F) ==
  /\ F \in [Objects -> FileRecords]
  /\ \A o \in Objects : /\ F[o].type # "free" <=> F[o].ref_count > 0
                        /\ F[o].type = "PIPE" => F[o].mode \in {"O_READ", "O_WRITE"} /\ F[o].pipe \in Pipes

Ends(F, q, mode) == {o \in Objects : F[o].type = "PIPE" /\ F[o].pipe = q /\ F[o].mode = mode}

\* Pipes P agree with the ends among the file objects F.
PipesSound(F, P) ==
  /\ P \in [Pipes -> PipeRecords]
  /\ \A q \in Pipes : /\ P[q].is_ropen = Cardinality(Ends(F, q, "O_READ"))
                      /\ P[q].is_wopen = Cardinality(Ends(F, q, "O_WRITE"))
                      /\ P[q].allocated <=> P[q].is_ropen + P[q].is_wopen > 0

IInv == /\ TypeOK
        /\ FilesSound(file)
        /\ PipesSound(file, pipe)
        /\ ~overrun => \A o \in Objects : file[o].ref_count = Count(files, o)
        /\ \A p \in Procs \ live : \A d \in Fds : files[p][d] = NULL
        /\ overrun => live # {} /\ exiting = NoProc

-----------------------------------------------------------------------------
\* A non-empty set of naturals has the minimum that Min chooses.
LEMMA MinOf ==
  ASSUME NEW S \in SUBSET Nat, S # {}
  PROVE  Min(S) \in S /\ \A y \in S : Min(S) <= y
<1>1. PICK x \in S : \A y \in S : ~(<<y, x>> \in OpToRel(<, Nat))
  BY NatLessThanWellFounded, WFMin
<1>2. \A y \in S : ~(y < x)
  BY <1>1, Zenon DEF OpToRel
<1>3. \A y \in S : x <= y
  BY <1>2
<1> QED
  BY <1>3 DEF Min

\* Descriptors and processes are numbers.
LEMMA Numbers == /\ Fds \subseteq Nat /\ Procs \subseteq Nat \ {0} /\ 1 \in Procs
                 /\ StdTypes \subseteq Fds /\ NULL \notin Objects /\ NULL \notin Pipes
                 /\ NoProc \notin Procs /\ IsFiniteSet(Objects)
BY FilesAssumption DEF Fds, Procs, StdTypes, NULL, NoProc

\* There are finitely many descriptors, so they can be counted.
LEMMA RefsFinite ==
  ASSUME NEW f, NEW o
  PROVE  IsFiniteSet(RefsOf(f, o)) /\ Count(f, o) \in Nat
<1>1. IsFiniteSet(Procs) /\ IsFiniteSet(Fds)
  BY FilesAssumption, FS_Interval DEF Procs, Fds
<1>2. IsFiniteSet(Procs \X Fds)
  BY <1>1, FS_Product
<1>3. RefsOf(f, o) \in SUBSET (Procs \X Fds)
  BY DEF RefsOf
<1> QED
  BY <1>2, <1>3, FS_Subset, FS_CardinalityType DEF Count

\* One assignment to a descriptor takes one reference from the object that was
\* there and gives one to the object that is there now.
LEMMA SetFdCount ==
  ASSUME NEW f \in Tables, NEW p \in Procs, NEW d \in Fds, NEW n \in Objects \cup {NULL},
         NEW o \in Objects
  PROVE  /\ Put(f, p, d, n) \in Tables
         /\ Count(Put(f, p, d, n), o) =
              Count(f, o) - (IF f[p][d] = o THEN 1 ELSE 0) + (IF n = o THEN 1 ELSE 0)
<1> DEFINE g == [f EXCEPT ![p][d] = n]
           x == <<p, d>>
           R == RefsOf(f, o)
<1>1. g \in Tables
  BY DEF Tables
<1>2. x \in Procs \X Fds /\ (x \in R <=> f[p][d] = o)
  BY DEF RefsOf
<1>3. RefsOf(g, o) = IF n = o THEN R \cup {x} ELSE R \ {x}
  <2>1. ASSUME NEW y \in Procs \X Fds
        PROVE  g[y[1]][y[2]] = IF y = x THEN n ELSE f[y[1]][y[2]]
    <3>1. y = <<y[1], y[2]>> /\ y[1] \in Procs /\ y[2] \in Fds
      OBVIOUS
    <3>2. CASE y[1] = p /\ y[2] = d
      BY <3>1, <3>2 DEF Tables
    <3>3. CASE ~(y[1] = p /\ y[2] = d)
      BY <3>1, <3>3 DEF Tables
    <3> QED BY <3>2, <3>3
  <2> QED BY <2>1, <1>2 DEF RefsOf
<1>4. /\ Cardinality(R \cup {x}) = (IF x \in R THEN Cardinality(R) ELSE Cardinality(R) + 1)
      /\ Cardinality(R \ {x}) = (IF x \in R THEN Cardinality(R) - 1 ELSE Cardinality(R))
      /\ Cardinality(R) \in Nat
  BY RefsFinite, FS_AddElement, FS_RemoveElement DEF Count
<1>5. Count(g, o) = Count(f, o) - (IF f[p][d] = o THEN 1 ELSE 0) + (IF n = o THEN 1 ELSE 0)
  <2> HIDE DEF x, g
  <2> QED BY <1>2, <1>3, <1>4 DEF Count
<1> QED
  BY <1>1, <1>5 DEF Put

\* Two things are two.
LEMMA Pair ==
  ASSUME NEW a, NEW b, a # b
  PROVE  Cardinality({a, b}) = 2
<1> DEFINE A == {a}
<1>1. IsFiniteSet(A) /\ Cardinality(A) = 1 /\ b \notin A /\ A \cup {b} = {a, b}
  BY FS_Singleton
<1> HIDE DEF A
<1>2. Cardinality(A \cup {b}) = IF b \in A THEN Cardinality(A) ELSE Cardinality(A) + 1
  BY <1>1, FS_AddElement
<1> QED
  BY <1>1, <1>2

\* An object in a descriptor is counted once at least, one in two descriptors
\* twice at least.
LEMMA Referred ==
  ASSUME NEW f \in Tables, NEW p \in Procs, NEW d \in Fds, NEW o, f[p][d] = o
  PROVE  /\ Count(f, o) >= 1
         /\ \A e \in Fds \ {d} : f[p][e] = o => Count(f, o) >= 2
<1>1. <<p, d>> \in RefsOf(f, o)
  BY DEF RefsOf
<1>2. Count(f, o) >= 1
  BY <1>1, RefsFinite, FS_EmptySet DEF Count
<1>3. ASSUME NEW e \in Fds \ {d}, f[p][e] = o PROVE Count(f, o) >= 2
  <2> DEFINE a == <<p, d>>
             b == <<p, e>>
  <2>1. {a, b} \in SUBSET RefsOf(f, o) /\ a # b
    BY <1>1, <1>3 DEF RefsOf
  <2> HIDE DEF a, b
  <2>2. Cardinality({a, b}) = 2
    BY <2>1, Pair
  <2> QED BY <2>1, <2>2, RefsFinite, FS_Subset, FS_CardinalityType DEF Count
<1> QED
  BY <1>2, <1>3

\* The ends of a pipe are few enough to count.
LEMMA EndsFinite ==
  ASSUME NEW F, NEW q, NEW mode
  PROVE  IsFiniteSet(Ends(F, q, mode)) /\ Cardinality(Ends(F, q, mode)) \in Nat
<1>1. Ends(F, q, mode) \in SUBSET Objects
  BY DEF Ends
<1> QED
  BY <1>1, Numbers, FS_Subset, FS_CardinalityType

-----------------------------------------------------------------------------
\* Counting an object up or down between positive values changes nothing else.
LEMMA RecountSound ==
  ASSUME NEW F, FilesSound(F), NEW P, PipesSound(F, P),
         NEW G \in [Objects -> FileRecords],
         \A o \in Objects : /\ G[o].type = F[o].type /\ G[o].mode = F[o].mode /\ G[o].pipe = F[o].pipe
                            /\ G[o].ref_count > 0 <=> F[o].ref_count > 0
  PROVE  FilesSound(G) /\ PipesSound(G, P)
<1>1. \A q \in Pipes : \A mode : Ends(G, q, mode) = Ends(F, q, mode)
  BY DEF Ends
<1> QED
  BY <1>1 DEF FilesSound, PipesSound

\* The free objects S of F are standard or regular files in G.
Opened(F, G, S) ==
  /\ S \subseteq Objects
  /\ \A o \in S : /\ F[o].type = "free"
                  /\ G[o].type \in {"STD", "REGULAR"} /\ G[o].ref_count = 1
  /\ \A o \in Objects \ S : G[o] = F[o]

\* A free object made a standard or a regular file is an end of no pipe.
LEMMA NewSound ==
  ASSUME NEW F, FilesSound(F), NEW P, PipesSound(F, P),
         NEW G \in [Objects -> FileRecords], NEW S, Opened(F, G, S)
  PROVE  FilesSound(G) /\ PipesSound(G, P)
<1>1. \A q \in Pipes : \A mode : Ends(G, q, mode) = Ends(F, q, mode)
  BY DEF Ends, Opened
<1>2. FilesSound(G)
  BY DEF FilesSound, Opened
<1> QED
  BY <1>1, <1>2 DEF PipesSound

\* create_pipe: two free objects become the two ends of a free pipe.
LEMMA PipeSound ==
  ASSUME NEW F, FilesSound(F), NEW P, PipesSound(F, P),
         NEW q \in Pipes, ~P[q].allocated,
         NEW o1 \in Objects, NEW o2 \in Objects, o1 # o2,
         F[o1].type = "free", F[o2].type = "free"
  PROVE  LET G == [F EXCEPT ![o1] = NewFile("PIPE", "O_READ", q), ![o2] = NewFile("PIPE", "O_WRITE", q)]
             Q == [P EXCEPT ![q] = [allocated |-> TRUE, is_ropen |-> 1, is_wopen |-> 1]]
         IN  FilesSound(G) /\ PipesSound(G, Q)
<1> DEFINE G == [F EXCEPT ![o1] = NewFile("PIPE", "O_READ", q), ![o2] = NewFile("PIPE", "O_WRITE", q)]
           Q == [P EXCEPT ![q] = [allocated |-> TRUE, is_ropen |-> 1, is_wopen |-> 1]]
<1>0. F \in [Objects -> FileRecords] /\ P \in [Pipes -> PipeRecords]
  BY DEF FilesSound, PipesSound
<1>1. /\ G \in [Objects -> FileRecords]
      /\ G[o1] = NewFile("PIPE", "O_READ", q) /\ G[o2] = NewFile("PIPE", "O_WRITE", q)
      /\ \A o \in Objects \ {o1, o2} : G[o] = F[o]
  BY <1>0 DEF FileRecords, NewFile
<1>2. /\ Q \in [Pipes -> PipeRecords]
      /\ Q[q] = [allocated |-> TRUE, is_ropen |-> 1, is_wopen |-> 1]
      /\ \A r \in Pipes \ {q} : Q[r] = P[r]
  BY <1>0 DEF PipeRecords
<1> HIDE DEF G, Q
<1>3. FilesSound(G)
  BY <1>1 DEF FilesSound, NewFile
<1>4. Ends(F, q, "O_READ") = {} /\ Ends(F, q, "O_WRITE") = {}
  <2>1. P[q].is_ropen = 0 /\ P[q].is_wopen = 0
    BY <1>0 DEF PipesSound, PipeRecords
  <2> QED BY <2>1, EndsFinite, FS_EmptySet DEF PipesSound
<1>5. Ends(G, q, "O_READ") = {o1} /\ Ends(G, q, "O_WRITE") = {o2}
  BY <1>1, <1>4 DEF Ends, NewFile
<1>6. \A r \in Pipes \ {q} : \A mode : Ends(G, r, mode) = Ends(F, r, mode)
  BY <1>1 DEF Ends, NewFile
<1>7. Cardinality({o1}) = 1 /\ Cardinality({o2}) = 1
  BY FS_Singleton
<1>8. ASSUME NEW r \in Pipes
      PROVE  /\ Q[r].is_ropen = Cardinality(Ends(G, r, "O_READ"))
             /\ Q[r].is_wopen = Cardinality(Ends(G, r, "O_WRITE"))
             /\ Q[r].allocated <=> Q[r].is_ropen + Q[r].is_wopen > 0
  <2>1. CASE r = q
    BY <2>1, <1>2, <1>5, <1>7
  <2>2. CASE r # q
    BY <2>2, <1>2, <1>6 DEF PipesSound
  <2> QED BY <2>1, <2>2
<1> QED
  BY <1>2, <1>3, <1>8 DEF PipesSound, G, Q

\* Only the count of an object changes.
LEMMA Recounted ==
  ASSUME NEW f \in FileRecords, NEW k \in Nat, NEW g, g = [f EXCEPT !.ref_count = k]
  PROVE  /\ g \in FileRecords /\ g.ref_count = k
         /\ g.type = f.type /\ g.mode = f.mode /\ g.pipe = f.pipe
BY DEF FileRecords

\* generic_close: an object loses one reference; the last one frees it and, if
\* it is an end of a pipe, closes that end.
LEMMA CloseSound ==
  ASSUME FilesSound(file), PipesSound(file, pipe), NEW o \in Objects, file[o].ref_count > 0,
         NEW G, G = [file EXCEPT ![o] = ClosedFile(o)]
  PROVE  /\ FilesSound(G) /\ PipesSound(G, ClosedPipes(o))
         /\ G[o].ref_count = file[o].ref_count - 1
         /\ \A x \in Objects \ {o} : G[x] = file[x]
         /\ file[o].ref_count > 1 => /\ G[o].type = file[o].type /\ G[o].mode = file[o].mode
                                     /\ G[o].pipe = file[o].pipe
<1> DEFINE n == file[o].ref_count
<1>0. /\ file \in [Objects -> FileRecords] /\ pipe \in [Pipes -> PipeRecords]
      /\ file[o] \in FileRecords /\ n \in Nat /\ n > 0
  BY DEF FilesSound, PipesSound, FileRecords
<1>1. CASE n = 1
  <2>1. G[o] = FreeFile /\ (\A x \in Objects \ {o} : G[x] = file[x]) /\ G \in [Objects -> FileRecords]
    BY <1>0, <1>1, FilesAssumption DEF ClosedFile, FreeFile, FileRecords
  <2>a. G[o].type = "free" /\ G[o].ref_count = 0
    <3>1. FreeFile.type = "free" /\ FreeFile.ref_count = 0
      BY DEF FreeFile
    <3> QED BY <2>1, <3>1
  <2>2. FilesSound(G)
    <3>1. ASSUME NEW x \in Objects
          PROVE  /\ G[x].type # "free" <=> G[x].ref_count > 0
                 /\ G[x].type = "PIPE" => G[x].mode \in {"O_READ", "O_WRITE"} /\ G[x].pipe \in Pipes
      <4>1. CASE x = o
        BY <4>1, <2>a
      <4>2. CASE x # o
        BY <4>2, <2>1 DEF FilesSound
      <4> QED BY <4>1, <4>2
    <3> QED BY <2>1, <3>1 DEF FilesSound
  <2>3. CASE file[o].type # "PIPE"
    <3>1. \A q \in Pipes : \A mode : Ends(G, q, mode) = Ends(file, q, mode)
      BY <2>1, <2>a, <2>3 DEF Ends
    <3>2. ClosedPipes(o) = pipe
      BY <2>3 DEF ClosedPipes
    <3>3. PipesSound(G, ClosedPipes(o))
      BY <3>1, <3>2 DEF PipesSound
    <3> QED BY <2>1, <2>a, <2>2, <3>3, <1>1
  <2>4. CASE file[o].type = "PIPE"
    <3> DEFINE q == file[o].pipe
               m == file[o].mode
               Q == ClosedPipes(o)
    <3>1. q \in Pipes /\ m \in {"O_READ", "O_WRITE"}
      BY <2>4 DEF FilesSound
    <3>2. Q = [pipe EXCEPT ![q] = EndClosed(file[o])]
      BY <1>1, <2>4 DEF ClosedPipes
    <3>3. o \in Ends(file, q, m)
      BY <2>4 DEF Ends
    <3>4. /\ Cardinality(Ends(file, q, m)) = 1
          /\ m = "O_READ" => pipe[q].is_ropen = 1
          /\ m = "O_WRITE" => pipe[q].is_wopen = 1
      <4>1. Cardinality(Ends(file, q, m)) # 0
        BY <3>3, EndsFinite, FS_EmptySet
      <4>2. pipe[q].is_ropen \in {0, 1} /\ pipe[q].is_wopen \in {0, 1}
        BY <1>0, <3>1 DEF PipeRecords
      <4> QED BY <4>1, <4>2, <3>1 DEF PipesSound
    <3>5. Ends(file, q, m) = {o}
      <4>1. PICK x : Ends(file, q, m) = {x}
        BY <3>4, EndsFinite, FS_Singleton
      <4> QED BY <4>1, <3>3
    <3>6. \A r, mode : Ends(G, r, mode) = Ends(file, r, mode) \ {o}
      <4>1. \A x \in Objects : x # o => G[x] = file[x]
        BY <2>1
      <4> QED BY <4>1, <2>a DEF Ends
    <3>7. \A r \in Pipes : \A mode \in {"O_READ", "O_WRITE"} :
             r # q \/ mode # m => Ends(G, r, mode) = Ends(file, r, mode)
      <4>1. ASSUME NEW r, NEW mode, r # q \/ mode # m
            PROVE  Ends(G, r, mode) = Ends(file, r, mode)
        <5>1. o \notin Ends(file, r, mode)
          BY <4>1 DEF Ends
        <5>2. Ends(G, r, mode) = Ends(file, r, mode) \ {o}
          BY <3>6
        <5> DEFINE E == Ends(file, r, mode)
        <5>3. E \ {o} = E
          BY <5>1
        <5> QED BY <5>2, <5>3
      <4> QED BY <4>1
    <3>8. EndClosed(file[o]) \in PipeRecords
      BY <1>0, <3>1 DEF EndClosed, FreePipe, PipeRecords
    <3>9. Q \in [Pipes -> PipeRecords] /\ Q[q] = EndClosed(file[o]) /\ \A r \in Pipes \ {q} : Q[r] = pipe[r]
      BY <1>0, <3>1, <3>2, <3>8
    <3> HIDE DEF Q
    <3>10. /\ Q[q].is_ropen = (IF m = "O_READ" THEN 0 ELSE pipe[q].is_ropen)
           /\ Q[q].is_wopen = (IF m = "O_WRITE" THEN 0 ELSE pipe[q].is_wopen)
           /\ Q[q].allocated <=> Q[q].is_ropen + Q[q].is_wopen > 0
      <4>1. pipe[q].is_ropen \in {0, 1} /\ pipe[q].is_wopen \in {0, 1}
        BY <1>0, <3>1 DEF PipeRecords
      <4> QED BY <4>1, <3>1, <3>9 DEF EndClosed, FreePipe
    <3>11. ASSUME NEW r \in Pipes
           PROVE  /\ Q[r].is_ropen = Cardinality(Ends(G, r, "O_READ"))
                  /\ Q[r].is_wopen = Cardinality(Ends(G, r, "O_WRITE"))
                  /\ Q[r].allocated <=> Q[r].is_ropen + Q[r].is_wopen > 0
      <4>1. CASE r # q
        BY <4>1, <3>7, <3>9 DEF PipesSound
      <4>2. CASE r = q
        <5>1. Ends(G, q, m) = {}
          BY <3>5, <3>6
        <5> QED BY <4>2, <3>1, <5>1, <3>7, <3>10, FS_EmptySet DEF PipesSound
      <4> QED BY <4>1, <4>2
    <3>12. PipesSound(G, Q)
      BY <3>9, <3>11 DEF PipesSound
    <3> QED BY <2>1, <2>a, <2>2, <3>12, <1>1 DEF Q
  <2> QED BY <2>3, <2>4
<1>2. CASE n > 1
  <2>1. /\ G[o] = [file[o] EXCEPT !.ref_count = n - 1]
        /\ \A x \in Objects \ {o} : G[x] = file[x]
    BY <1>0, <1>2 DEF ClosedFile
  <2>2. /\ G[o] \in FileRecords /\ G[o].ref_count = n - 1
        /\ G[o].type = file[o].type /\ G[o].mode = file[o].mode /\ G[o].pipe = file[o].pipe
    <3>1. n - 1 \in Nat
      BY <1>0, <1>2
    <3> DEFINE f == file[o]
               g == G[o]
               k == n - 1
    <3>2. f \in FileRecords /\ k \in Nat /\ g = [f EXCEPT !.ref_count = k]
      BY <1>0, <2>1, <3>1
    <3> HIDE DEF f, g, k
    <3>3. /\ g \in FileRecords /\ g.ref_count = k
          /\ g.type = f.type /\ g.mode = f.mode /\ g.pipe = f.pipe
      BY <3>2, Recounted
    <3> QED BY <3>3 DEF f, g, k
  <2>3. G \in [Objects -> FileRecords]
    BY <1>0, <2>1, <2>2
  <2>4. ClosedPipes(o) = pipe
    BY <1>2 DEF ClosedPipes
  <2>5. \A x \in Objects : /\ G[x].type = file[x].type /\ G[x].mode = file[x].mode /\ G[x].pipe = file[x].pipe
                           /\ G[x].ref_count > 0 <=> file[x].ref_count > 0
    BY <1>0, <1>2, <2>1, <2>2
  <2>6. FilesSound(G) /\ PipesSound(G, pipe)
    BY <2>3, <2>5, RecountSound
  <2> QED BY <2>1, <2>2, <2>4, <2>6
<1> QED
  BY <1>0, <1>1, <1>2

\* One more reference to an object in use.
LEMMA CountUp ==
  ASSUME NEW F, FilesSound(F), NEW P, PipesSound(F, P), NEW o \in Objects, F[o].ref_count > 0,
         NEW G, G = Up(F, o)
  PROVE  /\ FilesSound(G) /\ PipesSound(G, P)
         /\ \A x \in Objects : G[x].ref_count = F[x].ref_count + (IF x = o THEN 1 ELSE 0)
<1> DEFINE f == F[o]
           k == F[o].ref_count + 1
           g == G[o]
<1>0. F \in [Objects -> FileRecords]
  BY DEF FilesSound
<1>1. \A x \in Objects : F[x].ref_count \in Nat
  BY <1>0 DEF FileRecords
<1>2. f \in FileRecords /\ k \in Nat /\ g = [f EXCEPT !.ref_count = k]
  BY <1>0, <1>1 DEF Up
<1>3. (\A x \in Objects : x # o => G[x] = F[x]) /\ G = [F EXCEPT ![o] = g]
  BY <1>0 DEF Up
<1>4. /\ g \in FileRecords /\ g.ref_count = k
      /\ g.type = f.type /\ g.mode = f.mode /\ g.pipe = f.pipe
  <2> HIDE DEF f, g, k
  <2> QED BY <1>2, Recounted
<1>5. G \in [Objects -> FileRecords]
  <2> HIDE DEF g
  <2> QED BY <1>0, <1>3, <1>4
<1>6. \A x \in Objects : /\ G[x].type = F[x].type /\ G[x].mode = F[x].mode /\ G[x].pipe = F[x].pipe
                         /\ G[x].ref_count = F[x].ref_count + (IF x = o THEN 1 ELSE 0)
  BY <1>1, <1>3, <1>4
<1>7. \A x \in Objects : G[x].ref_count > 0 <=> F[x].ref_count > 0
  BY <1>1, <1>6
<1>8. FilesSound(G) /\ PipesSound(G, P)
  BY <1>5, <1>6, <1>7, RecountSound
<1> QED
  BY <1>6, <1>8

-----------------------------------------------------------------------------
\* What IInv says of the tables while no descriptor past them was written.
LEMMA Facts ==
  ASSUME IInv
  PROVE  /\ files \in Tables /\ live \subseteq Procs
         /\ FilesSound(file) /\ PipesSound(file, pipe)
         /\ \A o \in Objects : file[o].ref_count \in Nat /\ file[o] \in FileRecords
         /\ \A o \in Objects : file[o].type = "free" => file[o].ref_count = 0
         /\ ~overrun => \A p \in Procs, d \in Fds : files[p][d] # NULL =>
                files[p][d] \in Objects /\ file[files[p][d]].ref_count > 0
<1>1. files \in Tables /\ live \subseteq Procs /\ FilesSound(file) /\ PipesSound(file, pipe)
  BY DEF IInv, TypeOK, Tables
<1>2. \A o \in Objects : file[o].ref_count \in Nat /\ file[o] \in FileRecords
  BY <1>1 DEF FilesSound, FileRecords
<1>3. \A o \in Objects : file[o].type = "free" => file[o].ref_count = 0
  BY <1>1, <1>2 DEF FilesSound
<1>4. ASSUME ~overrun, NEW p \in Procs, NEW d \in Fds, files[p][d] # NULL
      PROVE  files[p][d] \in Objects /\ file[files[p][d]].ref_count > 0
  <2>1. files[p][d] \in Objects
    BY <1>1, <1>4 DEF Tables
  <2>2. Count(files, files[p][d]) >= 1
    BY <1>1, Referred
  <2>3. file[files[p][d]].ref_count = Count(files, files[p][d])
    BY <1>4, <2>1 DEF IInv
  <2> QED BY <1>2, <2>1, <2>2, <2>3
<1> QED
  BY <1>1, <1>2, <1>3, <1>4

\* A step of a living process that leaves the set of processes alone keeps IInv
\* if the objects stay sound and one descriptor changes as the counts say.
LEMMA OneFd ==
  ASSUME IInv, ~overrun, SameProcs,
         NEW p \in live, NEW d \in Fds, NEW n \in Objects \cup {NULL}, SetFd(p, d, n),
         FilesSound(file'), PipesSound(file', pipe'),
         \A x \in Objects : file'[x].ref_count = file[x].ref_count - (IF files[p][d] = x THEN 1 ELSE 0)
                                                                   + (IF n = x THEN 1 ELSE 0)
  PROVE  IInv'
<1>0. files \in Tables /\ p \in Procs /\ live \subseteq Procs
  BY Facts
<1>1. files' = Put(files, p, d, n)
  BY DEF SetFd, Put
<1>2. /\ files' \in Tables
      /\ \A x \in Objects : Count(files', x) = Count(files, x) - (IF files[p][d] = x THEN 1 ELSE 0)
                                                               + (IF n = x THEN 1 ELSE 0)
  <2>1. ASSUME NEW x \in Objects
        PROVE  /\ Put(files, p, d, n) \in Tables
               /\ Count(Put(files, p, d, n), x) =
                    Count(files, x) - (IF files[p][d] = x THEN 1 ELSE 0) + (IF n = x THEN 1 ELSE 0)
    BY <1>0, SetFdCount
  <2>2. Put(files, p, d, n) \in Tables
    BY <1>0 DEF Put, Tables
  <2> QED BY <1>1, <2>1, <2>2
<1>3. \A x \in Objects : file'[x].ref_count = Count(files', x)
  <2>1. \A x \in Objects : file[x].ref_count = Count(files, x)
    BY DEF IInv
  <2> QED BY <1>2, <2>1
<1>4. \A q \in Procs \ live : \A e \in Fds : files'[q][e] = NULL
  <2>1. \A q \in Procs \ live : files'[q] = files[q]
    BY <1>0, <1>1 DEF Tables, Put
  <2> QED BY <2>1 DEF IInv
<1>5. TypeOK'
  BY <1>2 DEF IInv, TypeOK, Tables, SameProcs, FilesSound, PipesSound
<1> QED
  BY <1>3, <1>4, <1>5 DEF IInv, SameProcs

\* open("stdout") of an open descriptor, dup: one more reference.
LEMMA AddRef ==
  ASSUME IInv, ~overrun, SameProcs, UNCHANGED pipe,
         NEW p \in live, NEW d \in Fds, files[p][d] = NULL,
         NEW o \in Objects, file[o].ref_count > 0,
         SetFd(p, d, o), file' = Up(file, o)
  PROVE  IInv'
<1>0. FilesSound(file) /\ PipesSound(file, pipe) /\ \A x \in Objects : file[x].ref_count \in Nat
  BY Facts
<1>1. /\ FilesSound(file') /\ PipesSound(file', pipe)
      /\ \A x \in Objects : file'[x].ref_count = file[x].ref_count + (IF x = o THEN 1 ELSE 0)
  BY <1>0, CountUp
<1>2. \A x \in Objects : file'[x].ref_count = file[x].ref_count - (IF files[p][d] = x THEN 1 ELSE 0)
                                                                + (IF o = x THEN 1 ELSE 0)
  BY <1>0, <1>1, Numbers
<1>3. PipesSound(file', pipe')
  BY <1>1
<1> QED
  BY <1>1, <1>2, <1>3, OneFd

\* open of a standard file that is closed, and of a regular file: a new object
\* with one reference.
LEMMA NewRef ==
  ASSUME IInv, ~overrun, SameProcs, UNCHANGED pipe,
         NEW p \in live, NEW d \in Fds, files[p][d] = NULL, NEW o \in FreeFiles,
         NEW f \in FileRecords, f.type \in {"STD", "REGULAR"}, f.ref_count = 1,
         SetFd(p, d, o), file' = Made(file, o, f)
  PROVE  IInv'
<1>0. /\ FilesSound(file) /\ PipesSound(file, pipe) /\ o \in Objects /\ file[o].type = "free"
      /\ file[o].ref_count = 0 /\ \A x \in Objects : file[x].ref_count \in Nat
  BY Facts DEF FreeFiles
<1>1. /\ file' \in [Objects -> FileRecords] /\ file'[o] = f
      /\ \A x \in Objects \ {o} : file'[x] = file[x]
  BY <1>0 DEF FilesSound, Made
<1>2. FilesSound(file') /\ PipesSound(file', pipe)
  <2>1. Opened(file, file', {o})
    BY <1>0, <1>1 DEF Opened
  <2> QED BY <1>0, <1>1, <2>1, NewSound
<1>3. \A x \in Objects : file'[x].ref_count = file[x].ref_count - (IF files[p][d] = x THEN 1 ELSE 0)
                                                                + (IF o = x THEN 1 ELSE 0)
  BY <1>0, <1>1, Numbers
<1>4. PipesSound(file', pipe')
  BY <1>2
<1> QED
  BY <1>0, <1>2, <1>3, <1>4, OneFd

\* close, and one round of do_file_exit: one reference less.
LEMMA DropRef ==
  ASSUME IInv, ~overrun, SameProcs,
         NEW p \in live, NEW d \in Fds, files[p][d] # NULL,
         SetFd(p, d, NULL), generic_close(files[p][d])
  PROVE  IInv'
<1> DEFINE o == files[p][d]
<1>0. /\ FilesSound(file) /\ PipesSound(file, pipe) /\ o \in Objects /\ file[o].ref_count > 0
      /\ \A x \in Objects : file[x].ref_count \in Nat
  BY Facts
<1>1. file' = [file EXCEPT ![o] = ClosedFile(o)] /\ pipe' = ClosedPipes(o)
  BY DEF generic_close
<1> HIDE DEF o
<1>2. /\ FilesSound(file') /\ PipesSound(file', pipe')
      /\ file'[o].ref_count = file[o].ref_count - 1
      /\ \A x \in Objects \ {o} : file'[x] = file[x]
  BY <1>0, <1>1, CloseSound
<1>3. \A x \in Objects : file'[x].ref_count = file[x].ref_count - (IF o = x THEN 1 ELSE 0)
                                                                + (IF NULL = x THEN 1 ELSE 0)
  BY <1>0, <1>2, Numbers
<1> QED
  BY <1>2, <1>3, OneFd DEF o

-----------------------------------------------------------------------------
\* A free descriptor found by the search.
LEMMA FreeFd ==
  ASSUME NEW p, NEW from, Unused(p, from) # {}
  PROVE  FirstUnused(p, from) \in Fds /\ files[p][FirstUnused(p, from)] = NULL
<1>1. Unused(p, from) \in SUBSET Nat
  BY Numbers DEF Unused
<1>2. FirstUnused(p, from) \in Unused(p, from)
  BY <1>1, MinOf DEF FirstUnused
<1> QED
  BY <1>2 DEF Unused

\* open of "stdin", "stdout" or "stderr".
LEMMA OpenStdStep ==
  ASSUME IInv, NEW p \in Procs, NEW type \in StdTypes, open_standard_IO(p, type)
  PROVE  IInv'
<1> DEFINE o == files[p][type]
<1>0. /\ p \in live /\ exiting = NoProc /\ ~overrun /\ type \in Fds
      /\ UNCHANGED <<pipe, live, exiting>>
  BY Numbers DEF open_standard_IO, Calls
<1>1. CASE o = NULL
  <2>1. PICK new \in FreeFiles : /\ file' = [file EXCEPT ![new] = StdFile(type)]
                                 /\ SetFd(p, type, new)
                                 /\ UNCHANGED overrun
    BY <1>1 DEF open_standard_IO
  <2>2. StdFile(type) \in FileRecords /\ StdFile(type).type = "STD" /\ StdFile(type).ref_count = 1
    BY DEF StdFile, NewFile, FileRecords
  <2>3. file' = Made(file, new, StdFile(type)) /\ SetFd(p, type, new) /\ SameProcs /\ UNCHANGED pipe
    BY <1>0, <2>1 DEF Made, SameProcs
  <2> QED BY <1>0, <1>1, <2>2, <2>3, NewRef
<1>2. CASE o # NULL
  <2>0. o \in Objects /\ file[o].ref_count > 0
    BY <1>0, <1>2, Facts
  <2>1. file' = Up(file, o)
    BY <1>2 DEF open_standard_IO, Up
  <2>2. CASE Unused(p, NStd) # {}
    <3> DEFINE d == FirstUnused(p, NStd)
    <3>1. d \in Fds /\ files[p][d] = NULL
      BY <2>2, FreeFd
    <3>2. SetFd(p, d, o) /\ SameProcs /\ UNCHANGED pipe
      BY <1>0, <1>2, <2>2 DEF open_standard_IO, SameProcs
    <3> HIDE DEF o, d
    <3> QED BY <1>0, <2>0, <2>1, <3>1, <3>2, AddRef
  <2>3. CASE Unused(p, NStd) = {}
    <3>1. overrun' = TRUE /\ files' = files
      BY <1>2, <2>3 DEF open_standard_IO
    <3> HIDE DEF o
    <3>2. FilesSound(file') /\ PipesSound(file', pipe)
      BY <2>0, <2>1, Facts, CountUp
    <3>3. TypeOK'
      BY <1>0, <3>1, <3>2 DEF IInv, TypeOK, FilesSound
    <3> QED BY <1>0, <3>1, <3>2, <3>3 DEF IInv
  <2> QED BY <2>2, <2>3
<1> QED
  BY <1>1, <1>2

\* open of a regular file.
LEMMA OpenRegularStep ==
  ASSUME IInv, NEW p \in Procs, do_regular_file_open(p)
  PROVE  IInv'
<1> DEFINE f == NewFile("REGULAR", "", NULL)
           d == FirstUnused(p, NStd)
<1>0. p \in live /\ ~overrun /\ SameProcs /\ UNCHANGED pipe
  BY DEF do_regular_file_open, Calls
<1>1. d \in Fds /\ files[p][d] = NULL
  BY FreeFd DEF do_regular_file_open
<1>2. PICK o \in FreeFiles : file' = Made(file, o, f) /\ SetFd(p, d, o)
  BY DEF do_regular_file_open, Made
<1>3. f \in FileRecords /\ f.type = "REGULAR" /\ f.ref_count = 1
  BY DEF NewFile, FileRecords
<1> HIDE DEF f, d
<1> QED
  BY <1>0, <1>1, <1>2, <1>3, NewRef

\* pipe: two descriptors, two objects, one pipe.
LEMMA CreatePipeStep ==
  ASSUME IInv, NEW p \in Procs, create_pipe(p)
  PROVE  IInv'
<1> DEFINE d1 == FirstUnused(p, NStd)
           d2 == FirstUnused(p, d1 + 1)
<1>0. p \in live /\ ~overrun /\ SameProcs
  BY DEF create_pipe, Calls
<1>1. /\ d1 \in Fds /\ files[p][d1] = NULL
      /\ d2 \in Fds /\ files[p][d2] = NULL /\ d1 # d2
  <2> DEFINE U == Unused(p, NStd)
  <2>1. U \in SUBSET Fds /\ U \in SUBSET Nat /\ Cardinality(U) >= 2
    BY Numbers DEF create_pipe, Unused
  <2>2. IsFiniteSet(U)
    <3>1. IsFiniteSet(Fds)
      BY FilesAssumption, FS_Interval DEF Fds
    <3> QED BY <2>1, <3>1, FS_Subset
  <2>3. U # {} /\ d1 \in U /\ \A y \in U : d1 <= y
    <3>1. U # {}
      BY <2>1, FS_EmptySet
    <3>2. Min(U) \in U /\ \A y \in U : Min(U) <= y
      BY <2>1, <3>1, MinOf
    <3> QED BY <3>1, <3>2 DEF FirstUnused
  <2>4. PICK e \in U : e # d1
    <3>1. U # {d1}
      BY <2>1, FS_Singleton
    <3> QED BY <3>1, <2>3
  <2>5. e \in Unused(p, d1 + 1)
    BY <2>1, <2>3, <2>4 DEF Unused
  <2>6. Unused(p, d1 + 1) \in SUBSET Nat /\ Unused(p, d1 + 1) # {}
    BY <2>5, Numbers DEF Unused
  <2>7. d2 \in Unused(p, d1 + 1)
    BY <2>6, MinOf DEF FirstUnused
  <2> QED BY <2>1, <2>3, <2>7 DEF Unused
<1>2. PICK q \in FreePipes, o1 \in FreeFiles, o2 \in FreeFiles :
        /\ o1 # o2
        /\ file' = [file EXCEPT ![o1] = NewFile("PIPE", "O_READ", q), ![o2] = NewFile("PIPE", "O_WRITE", q)]
        /\ pipe' = [pipe EXCEPT ![q] = [allocated |-> TRUE, is_ropen |-> 1, is_wopen |-> 1]]
        /\ files' = [files EXCEPT ![p][d1] = o1, ![p][d2] = o2]
  BY DEF create_pipe
<1>3. /\ q \in Pipes /\ ~pipe[q].allocated
      /\ o1 \in Objects /\ file[o1].type = "free" /\ o2 \in Objects /\ file[o2].type = "free"
  BY DEF FreePipes, FreeFiles
<1>4. FilesSound(file') /\ PipesSound(file', pipe')
  BY <1>2, <1>3, Facts, PipeSound
<1> HIDE DEF d1, d2
<1>5. files' = Put(Put(files, p, d1, o1), p, d2, o2)
  BY <1>1, <1>2, Facts DEF Put, Tables
<1> DEFINE f1 == Put(files, p, d1, o1)
<1>6. /\ f1 \in Tables /\ f1[p][d2] = NULL
      /\ files' \in Tables
  BY <1>0, <1>1, <1>3, <1>5, Facts DEF Put, Tables
<1>7. ASSUME NEW x \in Objects
      PROVE  file'[x].ref_count = Count(files', x)
  <2>1. Count(f1, x) = Count(files, x) - (IF files[p][d1] = x THEN 1 ELSE 0) + (IF o1 = x THEN 1 ELSE 0)
    BY <1>1, <1>3, Facts, SetFdCount
  <2> HIDE DEF f1
  <2>2. Count(Put(f1, p, d2, o2), x) = Count(f1, x) - (IF f1[p][d2] = x THEN 1 ELSE 0) + (IF o2 = x THEN 1 ELSE 0)
    BY <1>1, <1>3, <1>6, SetFdCount
  <2>3. Count(files', x) = Count(files, x) + (IF o1 = x THEN 1 ELSE 0) + (IF o2 = x THEN 1 ELSE 0)
    <3>1. files' = Put(f1, p, d2, o2)
      BY <1>5 DEF f1
    <3> QED BY <2>1, <2>2, <3>1, <1>1, <1>6, Numbers, RefsFinite
  <2>4. file[x].ref_count = Count(files, x) /\ file[o1].ref_count = 0 /\ file[o2].ref_count = 0
        /\ file \in [Objects -> FileRecords]
    BY <1>0, <1>3, Facts DEF IInv, TypeOK
  <2>5. CASE x = o1 \/ x = o2
    <3>1. file'[x].ref_count = 1
      BY <2>4, <2>5, <1>2, <1>3 DEF NewFile
    <3> QED BY <2>3, <2>4, <2>5, <3>1, <1>2
  <2>6. CASE x # o1 /\ x # o2
    <3>1. file'[x] = file[x]
      BY <2>4, <2>6, <1>2, <1>3
    <3> QED BY <2>3, <2>4, <2>6, <3>1, RefsFinite
  <2> QED BY <2>5, <2>6
<1>8. \A r \in Procs \ live : \A e \in Fds : files'[r][e] = NULL
  <2>1. \A r \in Procs \ live : files'[r] = files[r]
    BY <1>0, <1>5, <1>6, Facts DEF Put, Tables
  <2> QED BY <2>1 DEF IInv
<1>9. TypeOK'
  BY <1>0, <1>4, <1>6 DEF IInv, TypeOK, Tables, SameProcs, FilesSound, PipesSound
<1> QED
  BY <1>0, <1>4, <1>7, <1>8, <1>9 DEF IInv, SameProcs

\* dup.
LEMMA DupStep ==
  ASSUME IInv, NEW p \in Procs, NEW oldfd \in Fds, fd_dup(p, oldfd)
  PROVE  IInv'
<1> DEFINE o == files[p][oldfd]
           d == FirstUnused(p, 0)
<1>0. p \in live /\ ~overrun /\ SameProcs /\ UNCHANGED pipe /\ o # NULL
  BY DEF fd_dup, Calls
<1>1. d \in Fds /\ files[p][d] = NULL
  BY FreeFd DEF fd_dup
<1>2. o \in Objects /\ file[o].ref_count > 0
  BY <1>0, Facts
<1>3. SetFd(p, d, o) /\ file' = Up(file, o)
  BY DEF fd_dup, Up
<1> HIDE DEF o, d
<1> QED
  BY <1>0, <1>1, <1>2, <1>3, AddRef

\* close, and do_file_exit.
LEMMA CloseStep ==
  ASSUME IInv, NEW p \in Procs, NEW d \in Fds, do_close(p, d)
  PROVE  IInv'
<1>1. /\ p \in live /\ ~overrun /\ SameProcs /\ files[p][d] # NULL
      /\ SetFd(p, d, NULL) /\ generic_close(files[p][d])
  BY DEF do_close, Calls
<1> QED
  BY <1>1, DropRef

\* One descriptor of an exiting process.
LEMMA FileExitStep ==
  ASSUME IInv, do_file_exit
  PROVE  IInv'
<1> DEFINE d == Min(OpenFds(exiting))
<1>1. exiting \in live /\ ~overrun /\ SameProcs
  BY DEF IInv, TypeOK, do_file_exit
<1>2. OpenFds(exiting) \in SUBSET Nat /\ OpenFds(exiting) # {}
  BY Numbers DEF OpenFds, do_file_exit
<1>3. d \in OpenFds(exiting)
  BY <1>2, MinOf
<1>4. d \in Fds /\ files[exiting][d] # NULL
  BY <1>3 DEF OpenFds
<1>5. SetFd(exiting, d, NULL) /\ generic_close(files[exiting][d])
  BY DEF do_file_exit
<1> HIDE DEF d
<1> QED
  BY <1>1, <1>4, <1>5, DropRef

\* dup2: the object that is replaced loses a reference before the object that
\* replaces it gains one; when they are the same object its count is 2 or more.
LEMMA Dup2Step ==
  ASSUME IInv, NEW p \in Procs, NEW oldfd \in Fds, NEW newfd \in Fds, fd_dup2(p, oldfd, newfd)
  PROVE  IInv'
<1> DEFINE old == files[p][oldfd]
           cur == files[p][newfd]
           closed == IF cur = NULL THEN file ELSE [file EXCEPT ![cur] = ClosedFile(cur)]
<1>0. /\ p \in live /\ ~overrun /\ SameProcs /\ old # NULL /\ oldfd # newfd
      /\ SetFd(p, newfd, old) /\ file' = Up(closed, old)
      /\ pipe' = IF cur = NULL THEN pipe ELSE ClosedPipes(cur)
  BY DEF fd_dup2, Calls, Up
<1>1. /\ FilesSound(file) /\ PipesSound(file, pipe) /\ old \in Objects /\ file[old].ref_count > 0
      /\ cur \in Objects \cup {NULL} /\ (cur # NULL => cur \in Objects /\ file[cur].ref_count > 0)
      /\ \A x \in Objects : file[x].ref_count \in Nat
  BY <1>0, Facts DEF Tables
<1>2. cur = old => file[old].ref_count >= 2
  <2>1. cur = old => Count(files, old) >= 2
    BY <1>0, Facts, Referred
  <2> QED BY <2>1, <1>0, <1>1 DEF IInv
<1> HIDE DEF old
<1>3. /\ FilesSound(closed) /\ PipesSound(closed, pipe') /\ closed[old].ref_count > 0
      /\ \A x \in Objects : closed[x].ref_count = file[x].ref_count - (IF cur = x THEN 1 ELSE 0)
  <2>1. CASE cur = NULL
    <3>1. closed = file /\ pipe' = pipe
      BY <2>1, <1>0
    <3> QED BY <3>1, <2>1, <1>1, Numbers
  <2>2. CASE cur # NULL
    <3>1. closed = [file EXCEPT ![cur] = ClosedFile(cur)] /\ pipe' = ClosedPipes(cur)
      BY <2>2, <1>0
    <3> HIDE DEF cur, closed
    <3>2. /\ FilesSound(closed) /\ PipesSound(closed, ClosedPipes(cur))
          /\ closed[cur].ref_count = file[cur].ref_count - 1
          /\ \A x \in Objects \ {cur} : closed[x] = file[x]
      BY <1>1, <2>2, <3>1, CloseSound
    <3>3. closed[old].ref_count > 0
      BY <3>2, <1>1, <1>2
    <3> QED BY <3>1, <3>2, <3>3, <1>1, <2>2
  <2> QED BY <2>1, <2>2
<1> HIDE DEF cur, closed
<1>4. /\ FilesSound(file') /\ PipesSound(file', pipe')
      /\ \A x \in Objects : file'[x].ref_count = closed[x].ref_count + (IF x = old THEN 1 ELSE 0)
  BY <1>0, <1>1, <1>3, CountUp
<1>5. \A x \in Objects : file'[x].ref_count = file[x].ref_count - (IF files[p][newfd] = x THEN 1 ELSE 0)
                                                                + (IF old = x THEN 1 ELSE 0)
  BY <1>3, <1>4 DEF cur
<1> QED
  BY <1>0, <1>1, <1>4, <1>5, OneFd

-----------------------------------------------------------------------------
\* get_new_ctx gives a process slot that is not in use.
LEMMA NewCtxFree ==
  ASSUME live \subseteq Procs, Procs # live
  PROVE  NewCtx \in Procs /\ NewCtx \notin live
<1>1. Procs \ live \in SUBSET Nat /\ Procs \ live # {}
  BY Numbers
<1> QED
  BY <1>1, MinOf DEF NewCtx

\* fork: every descriptor of the copy counts once more.
LEMMA ForkStep ==
  ASSUME IInv, NEW p \in Procs, NEW child \in Procs, do_fork(p, child)
  PROVE  IInv'
<1>0. /\ p \in live /\ ~overrun /\ exiting = NoProc /\ live \subseteq Procs /\ Procs # live /\ child = NewCtx
      /\ live' = live \cup {child} /\ UNCHANGED <<pipe, exiting, overrun>>
      /\ files' = [files EXCEPT ![child] = files[p]]
      /\ file' = [o \in Objects |-> [file[o] EXCEPT !.ref_count = @ + Cardinality(RefsIn(files[p], o))]]
  BY Facts DEF do_fork, Calls
<1>1. child \notin live /\ child # p /\ files \in Tables /\ files' \in Tables
  BY <1>0, NewCtxFree, Facts DEF Tables
<1>2. \A d \in Fds : files[child][d] = NULL
  BY <1>1 DEF IInv
<1>3. ASSUME NEW o \in Objects
      PROVE  /\ Cardinality(RefsIn(files[p], o)) \in Nat
             /\ Count(files', o) = Count(files, o) + Cardinality(RefsIn(files[p], o))
             /\ Cardinality(RefsIn(files[p], o)) > 0 => file[o].ref_count > 0
  <2> DEFINE R == RefsIn(files[p], o)
             C == {child} \X R
  <2>1. R \in SUBSET Fds /\ IsFiniteSet(Fds)
    BY FilesAssumption, FS_Interval DEF RefsIn, Fds
  <2>2. IsFiniteSet(R) /\ Cardinality(R) \in Nat
    BY <2>1, FS_Subset, FS_CardinalityType
  <2>3. IsFiniteSet(C) /\ Cardinality(C) = Cardinality(R)
    <3>1. IsFiniteSet({child}) /\ Cardinality({child}) = 1
      BY FS_Singleton
    <3>2. IsFiniteSet(C) /\ Cardinality(C) = 1 * Cardinality(R)
      <4> HIDE DEF R
      <4> QED BY <2>2, <3>1, FS_Product
    <3> QED BY <2>2, <3>2
  <2>4. RefsOf(files', o) = RefsOf(files, o) \cup C
    <3>1. ASSUME NEW y \in Procs \X Fds
          PROVE  y \in RefsOf(files', o) <=> y \in RefsOf(files, o) \/ y \in C
      <4>1. y = <<y[1], y[2]>> /\ y[1] \in Procs /\ y[2] \in Fds
        OBVIOUS
      <4>2. CASE y[1] = child
        <5>1. files'[y[1]] = files[p] /\ files[y[1]][y[2]] # o
          BY <4>1, <4>2, <1>0, <1>1, <1>2, Numbers DEF Tables
        <5>2. y \in C <=> files[p][y[2]] = o
          BY <4>1, <4>2 DEF RefsIn
        <5> QED BY <5>1, <5>2, <4>1 DEF RefsOf
      <4>3. CASE y[1] # child
        <5>1. files'[y[1]] = files[y[1]]
          BY <4>1, <4>3, <1>0, <1>1 DEF Tables
        <5> QED BY <5>1, <4>1, <4>3 DEF RefsOf
      <4> QED BY <4>2, <4>3
    <3>2. C \subseteq Procs \X Fds
      BY <2>1
    <3>3. RefsOf(files', o) \subseteq Procs \X Fds /\ RefsOf(files, o) \subseteq Procs \X Fds
      BY DEF RefsOf
    <3> HIDE DEF C
    <3> QED BY <3>1, <3>2, <3>3
  <2>5. RefsOf(files, o) \cap C = {}
    <3>1. ASSUME NEW y \in RefsOf(files, o) PROVE y \notin C
      <4>1. y[1] \in Procs /\ y[2] \in Fds /\ files[y[1]][y[2]] = o
        BY DEF RefsOf
      <4>2. y[1] # child
        BY <4>1, <1>2, Numbers
      <4> QED BY <4>2
    <3> HIDE DEF C
    <3> QED BY <3>1
  <2>6. Cardinality(RefsOf(files, o) \cup C) = Cardinality(RefsOf(files, o)) + Cardinality(C)
    <3> HIDE DEF C
    <3>1. IsFiniteSet(RefsOf(files, o)) /\ Cardinality(RefsOf(files, o)) \in Nat
      BY RefsFinite DEF Count
    <3>2. Cardinality(RefsOf(files, o) \cup C) =
            Cardinality(RefsOf(files, o)) + Cardinality(C) - Cardinality(RefsOf(files, o) \cap C)
      BY <2>3, <3>1, FS_Union
    <3> QED BY <2>2, <2>3, <2>5, <3>1, <3>2, FS_EmptySet
  <2>7. ASSUME Cardinality(R) > 0 PROVE file[o].ref_count > 0
    <3>1. PICK d \in R : TRUE
      BY <2>7, <2>2, FS_EmptySet
    <3>2. d \in Fds /\ files[p][d] = o
      BY DEF RefsIn
    <3> QED BY <3>2, <1>0, Numbers, Facts
  <2> QED
    <3> HIDE DEF R, C
    <3>1. Count(files', o) = Count(files, o) + Cardinality(R)
      BY <2>3, <2>4, <2>6 DEF Count
    <3> QED BY <3>1, <2>2, <2>7 DEF R
<1>4. ASSUME NEW o \in Objects
      PROVE  /\ file'[o] \in FileRecords
             /\ file'[o].ref_count = file[o].ref_count + Cardinality(RefsIn(files[p], o))
             /\ file'[o].type = file[o].type /\ file'[o].mode = file[o].mode /\ file'[o].pipe = file[o].pipe
  <2> DEFINE f == file[o]
             k == file[o].ref_count + Cardinality(RefsIn(files[p], o))
             g == file'[o]
  <2>1. f \in FileRecords /\ k \in Nat /\ g = [f EXCEPT !.ref_count = k]
    BY <1>0, <1>3, Facts
  <2> HIDE DEF f, g, k
  <2>2. /\ g \in FileRecords /\ g.ref_count = k
        /\ g.type = f.type /\ g.mode = f.mode /\ g.pipe = f.pipe
    BY <2>1, Recounted
  <2> QED BY <2>2 DEF f, g, k
<1>5. file' \in [Objects -> FileRecords]
  BY <1>0, <1>4
<1>6. \A o \in Objects : file'[o].ref_count > 0 <=> file[o].ref_count > 0
  BY <1>3, <1>4, Facts
<1>7. FilesSound(file') /\ PipesSound(file', pipe)
  BY <1>4, <1>5, <1>6, Facts, RecountSound
<1>8. \A o \in Objects : file'[o].ref_count = Count(files', o)
  BY <1>0, <1>3, <1>4 DEF IInv
<1>9. \A q \in Procs \ live' : \A d \in Fds : files'[q][d] = NULL
  <2>1. \A q \in Procs \ live' : q \notin live /\ files'[q] = files[q]
    BY <1>0, <1>1 DEF Tables
  <2> QED BY <2>1 DEF IInv
<1>10. TypeOK'
  BY <1>0, <1>1, <1>7 DEF IInv, TypeOK, Tables, FilesSound, PipesSound
<1> QED
  BY <1>0, <1>7, <1>8, <1>9, <1>10 DEF IInv

\* clone and exit touch no descriptor; a process leaves with an empty table.
LEMMA ProcessStep ==
  ASSUME IInv,
         \/ \E p \in Procs : do_exit(p) \/ \E child \in Procs : do_clone(p, child)
         \/ exit_done
  PROVE  IInv'
<1>0. live \subseteq Procs
  BY Facts
<1>1. ASSUME NEW p \in Procs, do_exit(p) PROVE IInv'
  <2>1. p \in live /\ ~overrun /\ exiting' = p /\ UNCHANGED <<files, file, pipe, live, overrun>>
    BY <1>1 DEF do_exit, Calls
  <2> QED BY <2>1 DEF IInv, TypeOK
<1>2. ASSUME NEW p \in Procs, NEW child \in Procs, do_clone(p, child) PROVE IInv'
  <2>1. /\ p \in live /\ ~overrun /\ live' = live \cup {child}
        /\ UNCHANGED <<files, file, pipe, exiting, overrun>>
    BY <1>2 DEF do_clone, Calls
  <2> QED BY <2>1 DEF IInv, TypeOK
<1>3. CASE exit_done
  <2>1. /\ exiting # NoProc /\ live' = live \ {exiting} /\ exiting' = NoProc
        /\ \A d \in Fds : files[exiting][d] = NULL
        /\ UNCHANGED <<files, file, pipe, overrun>>
    BY <1>3 DEF exit_done, OpenFds
  <2> QED BY <2>1 DEF IInv, TypeOK
<1> QED
  BY <1>1, <1>2, <1>3

\* The first process: standard descriptors in free objects, one reference each.
\* F and t are the objects and tables before.
StdStart(t, f) == [t EXCEPT ![1] = StdTable(f)]

\* The descriptors init starts with.
LEMMA StdSound ==
  ASSUME NEW F, FilesSound(F), NEW P, PipesSound(F, P), NEW t \in Tables,
         \A q \in Procs : \A d \in Fds : t[q][d] = NULL,
         \A o \in Objects : F[o].ref_count = Count(t, o),
         NEW f \in [StdTypes -> Objects],
         \A a, b \in StdTypes : a # b => f[a] # f[b],
         \A a \in StdTypes : F[f[a]].type = "free",
         NEW u, u = StdStart(t, f)
  PROVE  /\ u \in Tables
         /\ FilesSound(StdFiles(f, F)) /\ PipesSound(StdFiles(f, F), P)
         /\ \A o \in Objects : StdFiles(f, F)[o].ref_count = Count(u, o)
<1> DEFINE G == StdFiles(f, F)
           S == {o \in Objects : \E a \in StdTypes : f[a] = o}
<1>0. F \in [Objects -> FileRecords] /\ \A o \in Objects : F[o].ref_count \in Nat
  BY DEF FilesSound, FileRecords
<1>1. \A a : StdFile(a) \in FileRecords /\ StdFile(a).type = "STD" /\ StdFile(a).ref_count = 1
  BY DEF StdFile, NewFile, FileRecords
<1>2. /\ G \in [Objects -> FileRecords]
      /\ \A o \in S : G[o].type = "STD" /\ G[o].ref_count = 1
      /\ \A o \in Objects \ S : G[o] = F[o]
  BY <1>0, <1>1 DEF StdFiles
<1>3. FilesSound(G) /\ PipesSound(G, P)
  <2>1. \A o \in S : F[o].type = "free"
    OBVIOUS
  <2>2. Opened(F, G, S)
    BY <1>2, <2>1 DEF Opened
  <2> HIDE DEF G, S
  <2> QED BY <1>2, <2>2, NewSound
<1>4. u \in Tables
  BY Numbers DEF Tables, StdTable, StdStart
<1>5. \A q \in Procs, d \in Fds : u[q][d] = IF q = 1 /\ d \in StdTypes THEN f[d] ELSE NULL
  BY Numbers DEF Tables, StdTable, StdStart
<1>6. ASSUME NEW o \in Objects PROVE G[o].ref_count = Count(u, o)
  <2>1. CASE o \in S
    <3>1. PICK a \in StdTypes : f[a] = o
      BY <2>1
    <3>2. RefsOf(u, o) = {<<1, a>>}
      <4>1. ASSUME NEW y \in RefsOf(u, o) PROVE y = <<1, a>>
        <5>1. y = <<y[1], y[2]>> /\ y[1] \in Procs /\ y[2] \in Fds /\ u[y[1]][y[2]] = o
          BY DEF RefsOf
        <5>2. y[1] = 1 /\ y[2] \in StdTypes /\ f[y[2]] = o
          BY <5>1, <1>5, Numbers
        <5> QED BY <5>1, <5>2, <3>1
      <4>2. <<1, a>> \in RefsOf(u, o)
        BY <3>1, <1>5, Numbers DEF RefsOf
      <4> QED BY <4>1, <4>2
    <3>3. Cardinality({<<1, a>>}) = 1
      BY FS_Singleton
    <3> QED BY <1>2, <2>1, <3>2, <3>3 DEF Count
  <2>2. CASE o \notin S
    <3>1. RefsOf(u, o) = {}
      <4>1. ASSUME NEW y \in RefsOf(u, o) PROVE FALSE
        <5>1. y[1] \in Procs /\ y[2] \in Fds /\ u[y[1]][y[2]] = o
          BY DEF RefsOf
        <5> QED BY <5>1, <1>5, <2>2, Numbers
      <4> QED BY <4>1
    <3>2. RefsOf(t, o) = {}
      <4>1. ASSUME NEW y \in RefsOf(t, o) PROVE FALSE
        <5>1. y[1] \in Procs /\ y[2] \in Fds /\ t[y[1]][y[2]] = o
          BY DEF RefsOf
        <5> QED BY <5>1, Numbers
      <4> QED BY <4>1
    <3>3. Count(u, o) = Count(t, o)
      BY <3>1, <3>2 DEF Count
    <3>4. G[o] = F[o] /\ F[o].ref_count = Count(t, o)
      BY <1>2, <2>2
    <3> HIDE DEF G
    <3> QED BY <3>3, <3>4
  <2> QED BY <2>1, <2>2
<1> QED
  BY <1>3, <1>4, <1>6

\* After the last exit every table is empty, and the shell starts anew.
LEMMA CreateContextStep ==
  ASSUME IInv, create_context
  PROVE  IInv'
<1>0. /\ live = {} /\ ~overrun /\ live' = {1} /\ exiting = NoProc
      /\ UNCHANGED <<pipe, exiting, overrun>>
  BY DEF create_context, IInv, TypeOK
<1>1. PICK f \in Injections(StdTypes, FreeFiles) :
        files' = StdStart(files, f) /\ file' = StdFiles(f, file)
  BY DEF create_context, StdStart
<1>2. /\ f \in [StdTypes -> Objects]
      /\ \A a, b \in StdTypes : a # b => f[a] # f[b]
      /\ \A a \in StdTypes : file[f[a]].type = "free"
  BY DEF Injections, FreeFiles
<1>3. /\ \A q \in Procs : \A d \in Fds : files[q][d] = NULL
      /\ \A o \in Objects : file[o].ref_count = Count(files, o)
  BY <1>0 DEF IInv
<1>4. /\ files' \in Tables
      /\ FilesSound(file') /\ PipesSound(file', pipe)
      /\ \A o \in Objects : file'[o].ref_count = Count(files', o)
  BY <1>1, <1>2, <1>3, Facts, StdSound
<1>5. \A q \in Procs \ live' : \A d \in Fds : files'[q][d] = NULL
  <2>1. \A q \in Procs \ {1} : files'[q] = files[q]
    BY <1>1, Facts DEF Tables, StdStart
  <2> QED BY <1>0, <1>3, <2>1
<1>6. TypeOK'
  BY <1>0, <1>4, Numbers DEF IInv, TypeOK, Tables, FilesSound, PipesSound
<1> QED
  BY <1>0, <1>4, <1>5, <1>6 DEF IInv

\* The first start of init.
LEMMA InitIInv == Init => IInv
<1> SUFFICES ASSUME Init PROVE IInv
  OBVIOUS
<1> DEFINE F == [o \in Objects |-> FreeFile]
           t == [p \in Procs |-> NoFds]
<1>1. PICK f \in Injections(StdTypes, Objects) :
        /\ files = [p \in Procs |-> IF p = 1 THEN StdTable(f) ELSE NoFds]
        /\ file = StdFiles(f, F)
  BY DEF Init
<1>2. /\ pipe = [q \in Pipes |-> FreePipe] /\ live = {1} /\ exiting = NoProc /\ overrun = FALSE
  BY DEF Init
<1>3. FreeFile \in FileRecords /\ FreeFile.type = "free" /\ FreeFile.ref_count = 0
  BY DEF FreeFile, FileRecords
<1>4. FilesSound(F)
  BY <1>3 DEF FilesSound
<1>5. PipesSound(F, pipe)
  <2>1. \A q \in Pipes : \A mode : Ends(F, q, mode) = {}
    BY <1>3 DEF Ends
  <2> HIDE DEF F
  <2>2. /\ FreePipe \in PipeRecords
        /\ FreePipe.is_ropen = 0 /\ FreePipe.is_wopen = 0 /\ FreePipe.allocated = FALSE
    BY DEF FreePipe, PipeRecords
  <2> QED BY <1>2, <2>1, <2>2, FS_EmptySet DEF PipesSound
<1>6. /\ t \in Tables
      /\ \A q \in Procs : \A d \in Fds : t[q][d] = NULL
  BY DEF Tables, NoFds
<1>7. \A o \in Objects : F[o].ref_count = Count(t, o)
  <2>1. ASSUME NEW o \in Objects PROVE RefsOf(t, o) = {}
    <3>1. ASSUME NEW y \in RefsOf(t, o) PROVE FALSE
      <4>1. y[1] \in Procs /\ y[2] \in Fds /\ t[y[1]][y[2]] = o
        BY DEF RefsOf
      <4> HIDE DEF t
      <4> QED BY <4>1, <1>6, Numbers
    <3> QED BY <3>1
  <2> QED BY <1>3, <2>1, FS_EmptySet DEF Count
<1>8. /\ f \in [StdTypes -> Objects]
      /\ \A a, b \in StdTypes : a # b => f[a] # f[b]
      /\ \A a \in StdTypes : F[f[a]].type = "free"
  BY <1>3 DEF Injections
<1>9. files = StdStart(t, f)
  BY <1>1, Numbers DEF StdStart
<1> HIDE DEF F, t
<1>10. /\ files \in Tables
       /\ FilesSound(file) /\ PipesSound(file, pipe)
       /\ \A o \in Objects : file[o].ref_count = Count(files, o)
  BY <1>1, <1>4, <1>5, <1>6, <1>7, <1>8, <1>9, StdSound
<1>11. \A q \in Procs \ {1} : \A d \in Fds : files[q][d] = NULL
  BY <1>1 DEF NoFds
<1>12. TypeOK
  BY <1>2, <1>10, Numbers DEF TypeOK, Tables, FilesSound, PipesSound
<1> QED
  BY <1>2, <1>10, <1>11, <1>12 DEF IInv

-----------------------------------------------------------------------------
\* IInv holds in every state that system calls, forks and exits can reach.
THEOREM Inductive == Spec => []IInv
<1>1. IInv /\ [Next]_vars => IInv'
  <2> SUFFICES ASSUME IInv, [Next]_vars PROVE IInv'
    OBVIOUS
  <2>1. CASE UNCHANGED vars
    BY <2>1 DEF vars, IInv, TypeOK
  <2>2. CASE Next
    BY <2>2, OpenStdStep, OpenRegularStep, CreatePipeStep, CloseStep, DupStep, Dup2Step,
       ForkStep, ProcessStep, FileExitStep, CreateContextStep DEF Next
  <2> QED BY <2>1, <2>2
<1> QED
  BY InitIInv, <1>1, PTL DEF Spec

\* The count of every file object is the number of descriptors that refer to it.
THEOREM CountsExact == Spec => []RefCountExact
<1>1. IInv => RefCountExact
  BY DEF IInv, FilesSound, RefCountExact, Count, RefsOf
<1> QED
  BY Inductive, <1>1, PTL

\* A pipe knows which of its ends are open, and is freed with the last.
THEOREM EndsTracked == Spec => []PipeEndsTracked
<1>1. IInv => PipeEndsTracked
  BY DEF IInv, PipesSound, PipeEndsTracked, Ends
<1> QED
  BY Inductive, <1>1, PTL
=============================================================================
