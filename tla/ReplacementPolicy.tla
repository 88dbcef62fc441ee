------------------------- MODULE ReplacementPolicy -------------------------
(***************************************************************************)
(* What the cache simulator of src/03ass promises: a set of the cache is a *)
(* line of at most num_blocks_in_set memory blocks, the next to be evicted *)
(* in front.  Under lru a block that is used goes to the end of its line,  *)
(* under fifo it stays where it is.                                        *)
(***************************************************************************)
EXTENDS Naturals, Sequences

CONSTANT Block          \* the numbers of memory blocks

VARIABLES vals,         \* the configuration, fixed
          access,       \* the last access: "l" or "s", and the block
          lines,        \* the line of each set
          hits, misses

vars == <<vals, access, lines, hits, misses>>

Init == /\ access = <<"none", 0>>
        /\ lines = [i \in 0..vals.num_sets - 1 |-> <<>>]
        /\ hits = 0
        /\ misses = 0

SetOf(b) == b % vals.num_sets
Cached(b) == \E j \in 1..Len(lines[SetOf(b)]) : lines[SetOf(b)][j] = b

Place(line, b) == CHOOSE n \in 1..Len(line) : line[n] = b

Without(line, b) ==
  [n \in 1..Len(line) - 1 |-> IF n < Place(line, b) THEN line[n] ELSE line[n + 1]]

ToEnd(line, b) == Append(Without(line, b), b)

Use(b) ==
  /\ Cached(b)
  /\ hits' = hits + 1
  /\ lines' = IF vals.lru_state THEN [lines EXCEPT ![SetOf(b)] = ToEnd(@, b)] ELSE lines
  /\ UNCHANGED <<vals, misses>>

Bring(b) ==
  /\ ~Cached(b)
  /\ misses' = misses + 1
  /\ lines' = [lines EXCEPT ![SetOf(b)] =
                 Append(IF Len(@) = vals.num_blocks_in_set THEN Tail(@) ELSE @, b)]
  /\ UNCHANGED <<vals, hits>>

Bypass(b) ==
  /\ ~Cached(b)
  /\ misses' = misses + 1
  /\ UNCHANGED <<vals, lines, hits>>

Load(b) ==
  /\ access' = <<"l", b>>
  /\ Use(b) \/ Bring(b)

\* Under no-write-allocate a store that misses goes to memory only.
Store(b) ==
  /\ access' = <<"s", b>>
  /\ Use(b) \/ IF vals.write_alloc THEN Bring(b) ELSE Bypass(b)

Other ==
  /\ access' = <<"other", 0>>
  /\ UNCHANGED <<vals, lines, hits, misses>>

Next == Other \/ \E b \in Block : Load(b) \/ Store(b)

Spec == Init /\ [][Next]_vars
=============================================================================
