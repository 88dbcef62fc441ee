------------------------------ MODULE Parsort ------------------------------
(***************************************************************************)
(* The parallel sort (src/04ass/parsort.c): a tree of forked processes     *)
(* sorts one shared mapping of the file, each process its own range, and   *)
(* merges what its two children have sorted once it has waited for both.   *)
(* A step is one system call, or one access to the shared array.  Forks    *)
(* may fail, and any process may be killed at any time.                    *)
(***************************************************************************)
EXTENDS Integers, FiniteSets

CONSTANTS Values,       \* the 64-bit integers in files
          MaxLength,    \* bound: elements of a file
          Jobs          \* the lengths and sequential thresholds tried

\* With threshold 0 a range of one element is its own right half, and the
\* forks only end when they fail; main does not refuse it.
ASSUME ParsortAssumption ==
  /\ Values \subseteq Int
  /\ MaxLength \in Nat
  /\ Jobs \subseteq (0..MaxLength) \X (Nat \ {0})

\* A process is known by the range it sorts, from begin up to end.
Procs == {p \in (0..MaxLength) \X (0..MaxLength) : p[1] <= p[2]}

VARIABLES input,        \* the elements of the file at the start
          length,       \* how many they are
          threshold,
          arr,          \* the elements in the shared mapping
          pc,           \* where each process is
          wstatus,      \* how each process has ended, as waitpid tells it
          reaped,       \* the processes somebody has waited for
          temparr,      \* what each process is about to copy back
          i             \* the element it has come to

files == <<input, length, threshold>>
vars == <<files, arr, pc, wstatus, reaped, temparr, i>>

Root == <<0, length>>
mid(p) == (p[1] + p[2]) \div 2
Left(p) == <<p[1], mid(p)>>
Right(p) == <<mid(p), p[2]>>

Span(p) == p[1]..p[2] - 1
Size(p) == p[2] - p[1]

Init ==
  /\ \E job \in Jobs : length = job[1] /\ threshold = job[2]
  /\ input \in [0..length - 1 -> Values]
  /\ arr = input
  /\ pc = [p \in Procs |-> IF p = Root THEN "main" ELSE "none"]
  /\ wstatus = [p \in Procs |-> "none"]
  /\ reaped = {}
  /\ temparr = [p \in Procs |-> <<>>]
  /\ i = [p \in Procs |-> 0]

Goto(p, label) == pc' = [pc EXCEPT ![p] = label]

Exit(p, how) ==
  /\ Goto(p, "gone")
  /\ wstatus' = [wstatus EXCEPT ![p] = how]

-----------------------------------------------------------------------------
(* main *)

\* A file without elements may have up to seven bytes.
MapFile ==
  /\ pc[Root] = "main"
  /\ Goto(Root, "sort")
  /\ UNCHANGED <<files, arr, wstatus, reaped, temparr, i>>

\* Bad arguments, or open, fstat or mmap fails, which mmap always does for a
\* file of no bytes.
MapFails ==
  /\ pc[Root] = "main"
  /\ Exit(Root, "failed")
  /\ UNCHANGED <<files, arr, reaped, temparr, i>>

\* munmap or close may fail after the sort.
Unmap ==
  /\ pc[Root] = "unmap"
  /\ Exit(Root, "ok") \/ Exit(Root, "failed")
  /\ UNCHANGED <<files, arr, reaped, temparr, i>>

-----------------------------------------------------------------------------
(* merge_sort *)

Count(v, a, S) == Cardinality({k \in S : a[k] = v})

\* a has the elements of b in the positions S.
SameElements(a, b, S) == \A v \in Values : Count(v, a, S) = Count(v, b, S)

SortedOver(a, S) == \A j, k \in S : j < k => a[j] <= a[k]

\* Fault: the comparison is strict.
BelowThreshold(p) == Size(p) < threshold

\* Whether a range is small enough to be sorted without forking
IsSequential(p) == Size(p) <= threshold

\* qsort: whatever its method, it arrives at a sorted permutation, written to
\* the array element by element.
SortSequentially(p) ==
  /\ pc[p] = "sort"
  /\ IsSequential(p)
  /\ \E s \in [Span(p) -> Values] :
       /\ SortedOver(s, Span(p))
       /\ SameElements(s, arr, Span(p))
       /\ temparr' = [temparr EXCEPT ![p] = s]
  /\ i' = [i EXCEPT ![p] = p[1]]
  /\ Goto(p, "copy")
  /\ UNCHANGED <<files, arr, wstatus, reaped>>

ForkLeft(p) ==
  /\ pc[p] = "sort"
  /\ ~IsSequential(p)
  /\ pc' = [pc EXCEPT ![p] = "fork right", ![Left(p)] = "sort"]
  /\ UNCHANGED <<files, arr, wstatus, reaped, temparr, i>>

ForkLeftFails(p) ==
  /\ pc[p] = "sort"
  /\ ~IsSequential(p)
  /\ Exit(p, "failed")
  /\ UNCHANGED <<files, arr, reaped, temparr, i>>

ForkRight(p) ==
  /\ pc[p] = "fork right"
  /\ pc' = [pc EXCEPT ![p] = "wait left", ![Right(p)] = "sort"]
  /\ UNCHANGED <<files, arr, wstatus, reaped, temparr, i>>

ForkRightFails(p) ==
  /\ pc[p] = "fork right"
  /\ Goto(p, "pick up left")
  /\ UNCHANGED <<files, arr, wstatus, reaped, temparr, i>>

\* c is there to be waited for: it was forked, and nobody has waited for it.
IsChild(c) == pc[c] # "none" /\ c \notin reaped

\* waitpid returns once the child has ended, or fails at once.
waitpid(c) ==
  IF IsChild(c) THEN pc[c] = "gone" /\ reaped' = reaped \cup {c} ELSE UNCHANGED reaped

\* waitpid has not failed, and says that the child exited with 0.
ExitedNormally(c) == IsChild(c) /\ wstatus[c] = "ok"

PickUpLeft(p) ==
  /\ pc[p] = "pick up left"
  /\ waitpid(Left(p))
  /\ Exit(p, "failed")
  /\ UNCHANGED <<files, arr, temparr, i>>

\* A wait that fails, or a child that was killed or failed, ends the parent, which
\* leaves the right child to itself.
WaitLeft(p) ==
  /\ pc[p] = "wait left"
  /\ waitpid(Left(p))
  /\ IF ExitedNormally(Left(p))
     THEN Goto(p, "wait right") /\ UNCHANGED wstatus
     ELSE Exit(p, "failed")
  /\ UNCHANGED <<files, arr, temparr, i>>

\* Fault: the status of the right child is not looked at.
WaitRightUnchecked(p) ==
  /\ pc[p] = "wait right"
  /\ waitpid(Right(p))
  /\ Goto(p, "merge")
  /\ UNCHANGED <<files, arr, wstatus, temparr, i>>

\* Fault: the right child is not waited for.
RightNotAwaited(p) ==
  /\ pc[p] = "wait right"
  /\ Goto(p, "merge")
  /\ UNCHANGED <<files, arr, wstatus, reaped, temparr, i>>

WaitRight(p) ==
  /\ pc[p] = "wait right"
  /\ waitpid(Right(p))
  /\ IF ExitedNormally(Right(p))
     THEN Goto(p, "merge") /\ UNCHANGED wstatus
     ELSE Exit(p, "failed")
  /\ UNCHANGED <<files, arr, temparr, i>>

\* Of the first n results c have come from the left half: so does the next,
\* unless that half is at its end or its element is the greater one.
FromLeft(p, n, c) ==
  LET left == p[1] + c
      right == mid(p) + n - c
  IN left < mid(p) /\ (right >= p[2] \/ arr[left] <= arr[right])

\* Taken(p)[n] is how many of the first n results come from the left half.
Taken(p) ==
  LET taken[n \in 0..Size(p)] ==
        IF n = 0 THEN 0
        ELSE IF FromLeft(p, n - 1, taken[n - 1]) THEN taken[n - 1] + 1
                                                 ELSE taken[n - 1]
  IN taken

\* where the result for position k is read
Source(p, k) ==
  LET n == k - p[1]
      c == Taken(p)[n]
  IN IF FromLeft(p, n, c) THEN p[1] + c ELSE mid(p) + n - c

merge(p) == [k \in Span(p) |-> arr[Source(p, k)]]

\* Fault: the element to copy back starts from 0, not from begin.
MergeFromZero(p) ==
  /\ pc[p] = "merge"
  /\ temparr' = [temparr EXCEPT ![p] = merge(p)]
  /\ i' = [i EXCEPT ![p] = 0]
  /\ Goto(p, "copy")
  /\ UNCHANGED <<files, arr, wstatus, reaped>>

Merge(p) ==
  /\ pc[p] = "merge"
  /\ temparr' = [temparr EXCEPT ![p] = merge(p)]
  /\ i' = [i EXCEPT ![p] = p[1]]
  /\ Goto(p, "copy")
  /\ UNCHANGED <<files, arr, wstatus, reaped>>

CopyBack(p) ==
  /\ pc[p] = "copy"
  /\ i[p] < p[2]
  /\ arr' = [arr EXCEPT ![i[p]] = temparr[p][i[p]]]
  /\ i' = [i EXCEPT ![p] = @ + 1]
  /\ UNCHANGED <<files, pc, wstatus, reaped, temparr>>

\* The root returns to main, a child ends.
Return(p) ==
  /\ pc[p] = "copy"
  /\ i[p] = p[2]
  /\ IF p = Root THEN Goto(p, "unmap") /\ UNCHANGED wstatus ELSE Exit(p, "ok")
  /\ UNCHANGED <<files, arr, reaped, temparr, i>>

Alive(p) == pc[p] \notin {"none", "gone"}

\* A signal; the end of malloc's memory in merge_sort comes to the same.
Kill(p) ==
  /\ Alive(p)
  /\ Exit(p, "killed")
  /\ UNCHANGED <<files, arr, reaped, temparr, i>>

-----------------------------------------------------------------------------
Step(p) ==
  \/ SortSequentially(p)
  \/ ForkLeft(p) \/ ForkLeftFails(p) \/ ForkRight(p) \/ ForkRightFails(p)
  \/ PickUpLeft(p) \/ WaitLeft(p) \/ WaitRight(p)
  \/ Merge(p) \/ CopyBack(p) \/ Return(p)

Main == MapFile \/ MapFails \/ Unmap

Next == Main \/ \E p \in Procs : Step(p) \/ Kill(p)

Spec == Init /\ [][Next]_vars

\* The operating system runs every process.
Fairness == WF_vars(Main) /\ \A p \in Procs : WF_vars(Step(p))

FairSpec == Spec /\ Fairness

-----------------------------------------------------------------------------
Labels == {"none", "main", "sort", "fork right", "pick up left", "wait left",
           "wait right", "merge", "copy", "unmap", "gone"}

\* Type invariant
TypeOK ==
  /\ <<length, threshold>> \in Jobs
  /\ input \in [0..length - 1 -> Values]
  /\ arr \in [0..length - 1 -> Values]
  /\ pc \in [Procs -> Labels]
  /\ wstatus \in [Procs -> {"none", "ok", "failed", "killed"}]
  /\ reaped \subseteq Procs
  /\ \A p \in Procs : pc[p] = "copy" =>
       /\ temparr[p] \in [Span(p) -> Values]
       /\ i[p] \in p[1]..p[2]

\* is_sorted, which reads the file afterwards
is_sorted(a, n) == \A k \in 1..n - 1 : ~(a[k] < a[k - 1])

\* If the program exits with 0 the file is sorted and has the elements it had,
\* whichever forks failed and whoever was killed: no failure anywhere in the
\* tree is lost on its way to the root.  Nor does anybody sort on behind its back:
\* every process that was forked has been waited for.
SuccessMeansSorted ==
  wstatus[Root] = "ok" =>
    /\ is_sorted(arr, length) /\ SameElements(arr, input, 0..length - 1)
    /\ \A p \in Procs \ {Root} : pc[p] = "none" \/ p \in reaped

\* Two processes never work on overlapping ranges, except that parents wait: a
\* process that reads or writes the array has it to itself.
NoSharedElements ==
  \A p, q \in Procs :
    /\ p # q
    /\ pc[p] \in {"merge", "copy"}
    /\ Span(p) \cap Span(q) # {}
    /\ Alive(q)
    => pc[q] \in {"fork right", "pick up left", "wait left", "wait right"}

\* Every process ends, in the end, whatever fails: ranges get smaller from one
\* fork to the next until they are sorted without any, and every wait is for a
\* child that ends.
EveryProcessEnds == <>[](\A p \in Procs : ~Alive(p))
=============================================================================
