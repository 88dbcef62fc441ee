------------------------------ MODULE CacheSim ------------------------------
(***************************************************************************)
(* The cache simulator (src/03ass/functions.cpp) under every configuration *)
(* its main program accepts (src/03ass/main.cpp).  A step is one line of   *)
(* the trace.  Addresses have AddressBits bits where the code has 32; the  *)
(* text of functions.cpp holds the marks of a merge whose two sides differ *)
(* in comments only.                                                       *)
(***************************************************************************)
EXTENDS Integers, Sequences, FiniteSets

CONSTANTS SetCounts, BlockCounts, ByteCounts, \* numbers tried as arguments
          AddressBits,  \* width of an address
          Addresses,    \* the addresses in traces
          MaxCommands   \* bound: lines of a trace

\* The powers of two an address can tell apart, written so that their laws can
\* be proved.
pow2[n \in 0..AddressBits + 1] == IF n = 0 THEN 1 ELSE 2 * pow2[n - 1]

ASSUME AddressAssumption ==
  /\ AddressBits \in Nat
  /\ Addresses \subseteq 0..pow2[AddressBits] - 1
  /\ MaxCommands \in Nat

\* The shifts of simulate are undefined when nothing is left for the tag,
\* which main does not check.
ASSUME TagAssumption ==
  \A n \in SetCounts, b \in ByteCounts : n * b < pow2[AddressBits]

VARIABLES vals,          \* the configuration
          line,          \* the command and address of the line read last
          cycle_count,   \* lines of the trace so far, the time stamp
          blocks,        \* the blocks of each set
          block_pointer, \* per set, where the block of a tag is
          stat,          \* the statistics
          modified       \* history: cached blocks stored to and not written back

vars == <<vals, line, cycle_count, blocks, block_pointer, stat, modified>>

-----------------------------------------------------------------------------
(* main: the arguments *)

isPowOfTwo(n) == \E k \in 0..AddressBits : n = pow2[k]

\* Three numbers and three choices between two words
Args == [num_sets : SetCounts, num_blocks_in_set : BlockCounts, bytes : ByteCounts,
         write_thru : BOOLEAN, write_alloc : BOOLEAN, lru_state : BOOLEAN]

check_num_sets(v) == isPowOfTwo(v.num_sets)
check_num_blocks(v) == isPowOfTwo(v.num_blocks_in_set)
check_num_bytes(v) == v.bytes >= 4 /\ isPowOfTwo(v.bytes)

\* Not no-write-allocate and write-back together
check_noAlloc_back(v) == v.write_alloc \/ v.write_thru

Configurations ==
  {v \in Args : /\ check_num_sets(v) /\ check_num_blocks(v) /\ check_num_bytes(v)
                /\ check_noAlloc_back(v)}

Sets == 0..vals.num_sets - 1
Slots == 0..vals.num_blocks_in_set - 1

Empty == [tag |-> 0, valid |-> FALSE, dirty |-> FALSE, time_lru |-> 0, time_fifo |-> 0]

NoStats == [tot_loads |-> 0, tot_stores |-> 0, load_hit |-> 0, load_miss |-> 0,
            store_hit |-> 0, store_miss |-> 0, tot_cycles |-> 0]

Init ==
  /\ vals \in Configurations
  /\ line = <<"none", 0>>
  /\ cycle_count = 0
  /\ blocks = [i \in Sets |-> [k \in Slots |-> Empty]]
  /\ block_pointer = [i \in Sets |-> <<>>]
  /\ stat = NoStats
  /\ modified = {}

-----------------------------------------------------------------------------
(* simulate: the address *)

log2(n) == CHOOSE k \in 0..AddressBits : pow2[k] <= n /\ n < pow2[k + 1]

offset_size == log2(vals.bytes)
index_size == log2(vals.num_sets)
tag_size == AddressBits - offset_size - index_size

ShiftLeft(a, n) == (a * pow2[n]) % pow2[AddressBits]
ShiftRight(a, n) == a \div pow2[n]

Index(a) ==
  IF index_size # 0
  THEN ShiftRight(ShiftLeft(a, tag_size), AddressBits - index_size) ELSE 0

\* Fault: the bits of the index stay in the tag.
TagKeepsIndex(a) == ShiftRight(a, offset_size)

Tag(a) == ShiftRight(a, index_size + offset_size)

-----------------------------------------------------------------------------
(* load_miss and evict_block *)

block_exists(a) == Tag(a) \in DOMAIN block_pointer[Index(a)]
Where(a) == block_pointer[Index(a)][Tag(a)]

time(b) == IF vals.lru_state THEN b.time_lru ELSE b.time_fifo

Stamped(b) ==
  IF vals.lru_state THEN [b EXCEPT !.time_lru = cycle_count]
                    ELSE [b EXCEPT !.time_fifo = cycle_count]

\* The stamp of a block that is used.
Touched(b) == IF vals.lru_state THEN Stamped(b) ELSE b

FreeSlots(i) == {k \in Slots : ~blocks[i][k].valid}
Full(i) == FreeSlots(i) = {}

\* The first of the slots with the lowest stamp.
evict_block(i) ==
  CHOOSE k \in Slots : \A j \in Slots :
    \/ time(blocks[i][k]) < time(blocks[i][j])
    \/ time(blocks[i][k]) = time(blocks[i][j]) /\ k <= j

NewSlot(i) ==
  IF Full(i) THEN evict_block(i)
             ELSE CHOOSE k \in FreeSlots(i) : \A j \in FreeSlots(i) : k <= j

\* Cycles to move one block between cache and memory.
Transfer == (vals.bytes \div 4) * 100

MissCycles(i) ==
  Transfer + (IF Full(i) /\ blocks[i][NewSlot(i)].dirty THEN Transfer ELSE 0)

Evicted(i) == IF Full(i) THEN {blocks[i][NewSlot(i)].tag} ELSE {}

\* The block a slot holds from now on: its tag and valid bit are set, its dirty
\* bit is left as the evicted block had it, unless a store sets it.
Loaded(b, tag, dirties) ==
  [b EXCEPT !.tag = tag, !.valid = TRUE, !.dirty = @ \/ dirties]

\* Fault: the tag of the evicted block stays in the map.
FillKeepsPointer(a, dirties) ==
  LET i == Index(a)
      k == NewSlot(i)
      pointer == block_pointer[i]
  IN /\ blocks' = [blocks EXCEPT ![i][k] = Stamped(Loaded(@, Tag(a), dirties))]
     /\ block_pointer' = [block_pointer EXCEPT ![i] =
          [t \in DOMAIN pointer \cup {Tag(a)} |->
             IF t = Tag(a) THEN k ELSE pointer[t]]]
     /\ modified' = (modified \ (Evicted(i) \X {i})) \cup (IF dirties THEN {<<Tag(a), i>>} ELSE {})

\* A missing block takes a slot.
Fill(a, dirties) ==
  LET i == Index(a)
      k == NewSlot(i)
      pointer == block_pointer[i]
  IN /\ blocks' = [blocks EXCEPT ![i][k] = Stamped(Loaded(@, Tag(a), dirties))]
     /\ block_pointer' = [block_pointer EXCEPT ![i] =
          [t \in (DOMAIN pointer \ Evicted(i)) \cup {Tag(a)} |->
             IF t = Tag(a) THEN k ELSE pointer[t]]]
     /\ modified' = (modified \ (Evicted(i) \X {i})) \cup (IF dirties THEN {<<Tag(a), i>>} ELSE {})

-----------------------------------------------------------------------------
(* simulate: the commands *)

NextLine(command, a) ==
  /\ cycle_count < MaxCommands
  /\ line' = <<command, a>>
  /\ cycle_count' = cycle_count + 1
  /\ UNCHANGED vals

\* Fault: a load that hits leaves the lru stamp alone.
LoadHitUntouched(a) ==
  /\ block_exists(a)
  /\ NextLine("l", a)
  /\ stat' = [stat EXCEPT !.tot_loads = @ + 1, !.load_hit = @ + 1, !.tot_cycles = @ + 1]
  /\ UNCHANGED <<blocks, block_pointer, modified>>

LoadHit(a) ==
  /\ block_exists(a)
  /\ NextLine("l", a)
  /\ blocks' = [blocks EXCEPT ![Index(a)][Where(a)] = Touched(@)]
  /\ stat' = [stat EXCEPT !.tot_loads = @ + 1, !.load_hit = @ + 1, !.tot_cycles = @ + 1]
  /\ UNCHANGED <<block_pointer, modified>>

\* Fault: the clock stands still when a load misses.
LoadMissNoTick(a) ==
  /\ ~block_exists(a)
  /\ Fill(a, FALSE)
  /\ stat' = [stat EXCEPT !.tot_loads = @ + 1, !.load_miss = @ + 1,
                          !.tot_cycles = @ + MissCycles(Index(a))]
  /\ line' = <<"l", a>>
  /\ UNCHANGED <<vals, cycle_count>>

LoadMiss(a) ==
  /\ ~block_exists(a)
  /\ NextLine("l", a)
  /\ Fill(a, FALSE)
  /\ stat' = [stat EXCEPT !.tot_loads = @ + 1, !.load_miss = @ + 1,
                          !.tot_cycles = @ + MissCycles(Index(a))]

\* What a store costs under write-through, hit or miss.
ThroughCycles == IF vals.write_thru THEN 100 ELSE 0

\* Under write-back the block is dirty after a store.
Written(b) == [b EXCEPT !.dirty = @ \/ ~vals.write_thru]

\* Fault: a store that hits does not mark the block.
StoreHitClean(a) ==
  /\ block_exists(a)
  /\ NextLine("s", a)
  /\ blocks' = [blocks EXCEPT ![Index(a)][Where(a)] = Touched(@)]
  /\ modified' = IF vals.write_thru THEN modified ELSE modified \cup {<<Tag(a), Index(a)>>}
  /\ stat' = [stat EXCEPT !.tot_stores = @ + 1, !.store_hit = @ + 1,
                          !.tot_cycles = @ + ThroughCycles + 1]
  /\ UNCHANGED block_pointer

StoreHit(a) ==
  /\ block_exists(a)
  /\ NextLine("s", a)
  /\ blocks' = [blocks EXCEPT ![Index(a)][Where(a)] = Touched(Written(@))]
  /\ modified' = IF vals.write_thru THEN modified ELSE modified \cup {<<Tag(a), Index(a)>>}
  /\ stat' = [stat EXCEPT !.tot_stores = @ + 1, !.store_hit = @ + 1,
                          !.tot_cycles = @ + ThroughCycles + 1]
  /\ UNCHANGED block_pointer

StoreMiss(a) ==
  /\ ~block_exists(a)
  /\ vals.write_alloc
  /\ NextLine("s", a)
  /\ Fill(a, ~vals.write_thru)
  /\ stat' = [stat EXCEPT !.tot_stores = @ + 1, !.store_miss = @ + 1,
                          !.tot_cycles = @ + ThroughCycles + MissCycles(Index(a))]

StoreAround(a) ==
  /\ ~block_exists(a)
  /\ ~vals.write_alloc
  /\ NextLine("s", a)
  /\ stat' = [stat EXCEPT !.tot_stores = @ + 1, !.store_miss = @ + 1,
                          !.tot_cycles = @ + ThroughCycles]
  /\ UNCHANGED <<blocks, block_pointer, modified>>

\* Any other letter only advances the clock.
OtherCommand ==
  /\ NextLine("other", 0)
  /\ UNCHANGED <<blocks, block_pointer, stat, modified>>

Next ==
  \/ \E a \in Addresses :
       LoadHit(a) \/ LoadMiss(a) \/ StoreHit(a) \/ StoreMiss(a) \/ StoreAround(a)
  \/ OtherCommand

Spec == Init /\ [][Next]_vars

-----------------------------------------------------------------------------
Stamps == 0..MaxCommands

\* What is left of an address without offset and index
Tags == 0..pow2[AddressBits] \div (vals.num_sets * vals.bytes) - 1

BlockType == [tag : Tags, valid : BOOLEAN, dirty : BOOLEAN, time_lru : Stamps, time_fifo : Stamps]

Counters == {"tot_loads", "tot_stores", "load_hit", "load_miss", "store_hit", "store_miss",
             "tot_cycles"}

\* Type invariant
TypeOK ==
  /\ vals \in Configurations
  /\ line \in {"none", "other", "l", "s"} \X (0..pow2[AddressBits] - 1)
  /\ cycle_count \in Stamps
  /\ blocks \in [Sets -> [Slots -> BlockType]]
  /\ DOMAIN block_pointer = Sets
  /\ \A i \in Sets : block_pointer[i] \in [DOMAIN block_pointer[i] -> Slots]
  /\ \A i \in Sets : DOMAIN block_pointer[i] \subseteq Tags
  /\ stat \in [Counters -> Nat]
  /\ modified \subseteq Tags \X Sets

Valid(i) == {k \in Slots : blocks[i][k].valid}

\* The map and the vector of a set agree whatever has been evicted: a tag is in
\* the map exactly if a valid block has it, and the map points to that block.
PointersFindBlocks ==
  \A i \in Sets :
    /\ \A t \in DOMAIN block_pointer[i] :
         block_pointer[i][t] \in Valid(i) /\ blocks[i][block_pointer[i][t]].tag = t
    /\ \A k \in Valid(i) :
         blocks[i][k].tag \in DOMAIN block_pointer[i] /\ block_pointer[i][blocks[i][k].tag] = k

\* The stamps of a set are all different and in the past, so that there is
\* never a tie to break between two blocks to evict.
StampsAreDistinct ==
  \A i \in Sets : \A k, j \in Valid(i) :
    /\ time(blocks[i][k]) < cycle_count
    /\ k # j => time(blocks[i][k]) # time(blocks[i][j])

\* Under write-back the data of a store is never lost: until the block is
\* evicted it is in the cache and dirty, so that its eviction pays for the
\* transfer to memory.
StoredIsDirty ==
  \A m \in modified :
    /\ m[1] \in DOMAIN block_pointer[m[2]]
    /\ blocks[m[2]][block_pointer[m[2]][m[1]]].dirty

\* A block is dirty only if a store to it is not in memory yet: "reset
\* parameters for the replaced block" says load_miss.
DirtyIsStored ==
  \A i \in Sets : \A k \in Valid(i) :
    blocks[i][k].dirty => <<blocks[i][k].tag, i>> \in modified

\* The number of the memory block a slot holds.
NumberOf(i, k) == blocks[i][k].tag * vals.num_sets + i

\* The blocks of a set in the order of their stamps.
Line(i) ==
  [n \in 1..Cardinality(Valid(i)) |->
     NumberOf(i, CHOOSE k \in Valid(i) :
       Cardinality({j \in Valid(i) : time(blocks[i][j]) < time(blocks[i][k])}) = n - 1)]

\* Stamps, slots and map together evict in the order lru or fifo prescribes,
\* and count hits and misses as a simple line of blocks does.
Policy == INSTANCE ReplacementPolicy WITH
  Block <- 0..pow2[AddressBits] - 1,
  access <- <<line[1], line[2] \div vals.bytes>>,
  lines <- [i \in Sets |-> Line(i)],
  hits <- stat.load_hit + stat.store_hit,
  misses <- stat.load_miss + stat.store_miss

ImplementsPolicy == Policy!Spec
=============================================================================
