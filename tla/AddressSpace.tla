---------------------------- MODULE AddressSpace ----------------------------
(***************************************************************************)
(* What mmap, munmap and mprotect promise a process, page by page: mmap     *)
(* gives pages that were free, munmap takes exactly the pages of its range, *)
(* mprotect changes the protection of exactly the mapped pages of its       *)
(* range, and a call that fails changes nothing.  call and ret are what the *)
(* process itself sees: the call it made, with its arguments, and what it   *)
(* got back.  How the kernel groups the pages into vm_areas is not visible. *)
(***************************************************************************)
EXTENDS Integers

CONSTANTS Page, Prot,        \* the pages of the mmap area, the protections
          PageSize,          \* bytes per page
          Address, Length    \* arguments: page numbers, and numbers of bytes

VARIABLES prot,              \* prot[p] = 0 where nothing is mapped
          call, ret          \* the last call, and what it returned

vars == <<prot, call, ret>>

\* The pages that hold a byte of the length bytes from page at on.
Range(at, length) == {p \in at .. at + length - 1 : (p - at) * PageSize < length}

\* The pages of a range get a protection, the others keep theirs.
Given(at, length, pr) == [p \in Page |-> IF p \in Range(at, length) THEN pr ELSE prot[p]]

Fails == ret' = -1 /\ UNCHANGED prot

Init == prot = [p \in Page |-> 0] /\ call = <<"none">> /\ ret = 0

\* The new pages start at the address asked for if it is fixed.  The address
\* returned is where they start, or, if they follow on from others at the address
\* asked for, where those start: the range from there has the protection.
Mmap(addr, length, pr, fixed) ==
  /\ call' = <<"mmap", addr, length, pr, fixed>>
  /\ \/ Fails
     \/ \E at \in Page :
          /\ Range(at, length) \subseteq Page
          /\ \A p \in Range(at, length) : prot[p] = 0
          /\ prot' = Given(at, length, pr)
          /\ fixed /\ addr # 0 => at = addr
          /\ ret' \in Page /\ (ret' = at \/ at = addr)
          /\ \A p \in Range(ret', length) : p \in Page /\ prot'[p] = pr

\* The pages of a range, and the pages before and behind it, are all mapped with
\* one protection: taking the range away leaves a hole in a single mapping.
CutsHole(at, length) ==
  \E pr \in Prot : \A p \in Range(at - 1, length + 2 * PageSize) : p \in Page /\ prot[p] = pr

\* munmap of pages of the mmap area fails only for want of a vm_area.
Munmap(addr, length) ==
  /\ call' = <<"munmap", addr, length>>
  /\ \/ ret' = 0 /\ prot' = Given(addr, length, 0)
     \/ Fails /\ (Range(addr, length) \cup {addr} \subseteq Page => CutsHole(addr, length))

Mprotect(addr, length, pr) ==
  /\ call' = <<"mprotect", addr, length, pr>>
  /\ \/ /\ ret' = 0
        /\ Range(addr, length) \subseteq Page
        /\ prot' = [p \in Page |-> IF prot[p] = 0 THEN 0 ELSE Given(addr, length, pr)[p]]
     \/ Fails

Next ==
  \E addr \in Address, length \in Length :
     \/ Munmap(addr, length)
     \/ \E pr \in Prot : Mprotect(addr, length, pr) \/ \E fixed \in BOOLEAN : Mmap(addr, length, pr, fixed)

Spec == Init /\ [][Next]_vars
=============================================================================
