------------------------------- MODULE NtMemory -------------------------------
(* The virtual memory of a Windows program (VirtualMemoryManager of           *)
(* strawwu-nt, ntdll.rs), which the loader, the interpreter, HeapAlloc and     *)
(* malloc allocate from.  Sizes are the program's own: u64, up to the largest.  *)
(* The protection of a region is recorded but never looked at by a read or a   *)
(* write, so it is left out.                                                   *)
EXTENDS Naturals, Sequences, FiniteSets

CONSTANTS
    WordSize,   \* 2^64: sums of addresses and sizes wrap here
    PageSize,   \* 0x1000
    FirstBase,  \* where next_base starts
    Size,       \* sizes that are asked for
    MaxRegions, \* bound on allocations
    MaxBytes    \* the host can back so many bytes at once (vec![0u8; n])

ASSUME MemorySizeAssumption ==
    /\ {WordSize, PageSize, FirstBase, MaxRegions, MaxBytes} \subseteq Nat \ {0}
    /\ Size \subseteq 1 .. WordSize - 1
    /\ FirstBase + MaxRegions * MaxBytes < WordSize

VARIABLES
    regions,    \* VirtualMemoryManager.regions
    nextBase,   \* next_base
    written,    \* history: addresses of committed memory that hold a byte written
    freed       \* history: bases for which free succeeded

memoryVars == <<regions, nextBase, written, freed>>

Address == 0 .. WordSize - 1

MemoryTypeOK ==
    /\ regions \in Seq([base : Address, size : Address,
                        committed : BOOLEAN, data : SUBSET Address])
    /\ nextBase \in Address
    /\ written \subseteq Address /\ freed \subseteq Address

MemoryInit == regions = << >> /\ nextBase = FirstBase /\ written = {} /\ freed = {}

\* (size + 0xFFF) & !0xFFF in u64: the last page of sizes comes out as zero.
Aligned(size) ==
    LET sum == (size + PageSize - 1) % WordSize IN sum - (sum % PageSize)

\* Mutation: next_base advances by the size asked for.
AllocateTight(size) ==
    /\ Len(regions) < MaxRegions /\ Aligned(size) <= MaxBytes
    /\ regions' = Append(regions, [base |-> nextBase, size |-> Aligned(size),
                                   committed |-> TRUE, data |-> {}])
    /\ nextBase' = (nextBase + size) % WordSize
    /\ UNCHANGED <<written, freed>>

\* allocate: the region holds the aligned size; what data[o] holds is 0 unless
\* o is in data.
Allocate(size) ==
    LET aligned == Aligned(size)
    IN  /\ Len(regions) < MaxRegions /\ aligned <= MaxBytes
        /\ regions' = Append(regions, [base |-> nextBase, size |-> aligned,
                                       committed |-> TRUE, data |-> {}])
        /\ nextBase' = (nextBase + aligned) % WordSize
        /\ UNCHANGED <<written, freed>>

\* The first region, in order of allocation, that satisfies P.
First(P(_)) ==
    {i \in DOMAIN regions : P(regions[i]) /\ \A j \in 1 .. i - 1 : ~P(regions[j])}

AtBase(base) == LET Starts(r) == r.base = base IN First(Starts)

\* query and region_mut_for: the committed region an address lies in.
At(address) ==
    LET Covers(r) == r.committed /\ r.base <= address /\ address < r.base + r.size
    IN  First(Covers)

\* free keeps the region in the list, so that its base can be freed again.
Free(base) ==
    \E i \in AtBase(base) :
        /\ regions' = [regions EXCEPT ![i].committed = FALSE, ![i].data = {}]
        /\ written' = written \ {regions[i].base + o : o \in regions[i].data}
        /\ freed' = freed \union {base}
        /\ UNCHANGED nextBase

\* write_bytes: the bytes must lie in the region of the first of them.
WriteBytes(address, len) ==
    \E i \in At(address) :
        /\ address + len <= regions[i].base + regions[i].size
        /\ regions' = [regions EXCEPT ![i].data =
               @ \union {a - regions[i].base : a \in address .. address + len - 1}]
        /\ written' = written \union (address .. address + len - 1)
        /\ UNCHANGED <<nextBase, freed>>

MemoryNext ==
    \/ \E size \in Size : Allocate(size)
    \/ \E base \in {regions[i].base : i \in DOMAIN regions} : Free(base)
    \/ \E a \in Address, len \in 1 .. 2 : WriteBytes(a, len)

MemorySpec == MemoryInit /\ [][MemoryNext]_memoryVars

-----------------------------------------------------------------------------
Extent(i) == regions[i].base .. regions[i].base + regions[i].size - 1

\* An address belongs to one allocation, whatever sizes were asked for and
\* freed: regions do not overlap, none reaches what is still to be given out, a
\* byte reads as written exactly if it was written through its own address, and
\* a block that was freed cannot be read or written any more.  (A size so large
\* that it is rounded to nothing makes an empty block, which takes the call to
\* free from the next block at its base.)
RegionsApart ==
    /\ \A i, j \in DOMAIN regions : i # j => Extent(i) \intersect Extent(j) = {}
    /\ \A i \in DOMAIN regions : regions[i].base + regions[i].size <= nextBase
    /\ \A i \in DOMAIN regions : regions[i].committed =>
           regions[i].data = {a - regions[i].base : a \in written \intersect Extent(i)}
    /\ \A base \in freed :
           At(base) = {} \/ \E i \in AtBase(base) : regions[i].size = 0
=============================================================================
