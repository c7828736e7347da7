------------------------------- MODULE NtImage -------------------------------
(* How a Windows program becomes an image in memory whose calls reach the       *)
(* system: PeFile::parse (pe.rs), PeLoader::load (loader.rs), and the stubs of  *)
(* the processor (Cpu::new and register_imports, cpu.rs).  File offsets count   *)
(* from 1, an address of the image is relative to its base, and a table entry   *)
(* is the name it leads to.  The loader writes the stub of a function into the  *)
(* import address table, which lies in the memory the sections were copied to.  *)
(* What the lookup of a function in the stub registry answers makes no          *)
(* difference: unknown names are taken as resolved too.                         *)
EXTENDS Naturals, Sequences, FiniteSets, SequencesExt

CONSTANTS
    Images,     \* the files that are loaded
    SystemDll,  \* ntdll.dll and kernel32.dll, which build_peb lists itself
    FixedName,  \* functions with a stub of their own, in order of its address
    Unreadable, \* a name that lies outside the file or is empty
    ImageBytes, \* addresses of an image
    HalfSlot,   \* addresses of a 32-bit table entry; a 64-bit one has twice as many
    DynamicBase \* 0x200: where the stubs of other functions start

IsList(s) == s \in Seq({s[i] : i \in DOMAIN s})

ASSUME ImageAssumption ==
    /\ ImageBytes \in Nat /\ DynamicBase \in Nat /\ HalfSlot \in Nat \ {0}
    /\ IsList(FixedName) /\ Len(FixedName) < DynamicBase
    /\ \A f \in Images :
           /\ f.length \in Nat
           /\ f.sections \in Seq([va : Nat, size : Nat, raw : Nat, rawSize : Nat])
           /\ \A i \in DOMAIN f.sections : f.sections[i].va + f.sections[i].size <= ImageBytes
           /\ IsList(f.imports)
           /\ \A i \in DOMAIN f.imports :
                  IsList(f.imports[i].table) /\ f.imports[i].thunk \in Nat

VARIABLES
    image,      \* the file: its section headers, size and import table, whether its
                \* header is that of a 64-bit file (plus), its machine 64-bit (wide)
    imageStep,  \* PeLoader.state, and whether the processor was set up
    copied,     \* sections looked at so far
    mapped,     \* what memory holds at each address
    importAt,   \* the import under way: which descriptor and which function
    nextStub,   \* stub_addr
    resolved,   \* import_resolutions; slot is history, the address that was patched,
                \* ImageBytes for none
    modules,    \* the module list of the process environment block
    stubs       \* Cpu.stubs

imageVars == <<image, imageStep, copied, mapped, importAt, nextStub,
               resolved, modules, stubs>>

ImageAddress == 0 .. ImageBytes - 1

\* Memory holds the file from offset o, zeros where o is 0, or part p of the
\* address of stub a.
FromFile(o) == <<"file", o, 0>>
OfStub(a, p) == <<"stub", a, p>>

\* A list without the entries that are passed over.
Remaining(list, passedOver) ==
    LET upTo[i \in 0 .. Len(list)] ==
            IF i = 0 THEN << >>
            ELSE IF list[i] \in passedOver THEN upTo[i - 1] ELSE Append(upTo[i - 1], list[i])
    IN  upTo[Len(list)]

\* parse_ilt: an entry whose name cannot be read is passed over.
Functions(table) == Remaining(table, {Unreadable})

\* parse_imports: a descriptor without a readable name is passed over.
Imports ==
    LET named == Remaining(image.imports, {d \in ToSet(image.imports) : d.dll = Unreadable})
    IN  [i \in DOMAIN named |-> [dll |-> named[i].dll, table |-> named[i].table,
            functions |-> Functions(named[i].table), thunk |-> named[i].thunk]]

Covers(s, a) == s.va <= a /\ a < s.va + (IF s.size > s.rawSize THEN s.size ELSE s.rawSize)

\* rva_to_file_offset: by the first section that covers the address.
FileOffset(a) ==
    {image.sections[i].raw + a - image.sections[i].va : i \in
        {j \in DOMAIN image.sections :
            /\ Covers(image.sections[j], a)
            /\ \A k \in 1 .. j - 1 : ~Covers(image.sections[k], a)}}

FixedStubs == [a \in 0 .. Len(FixedName) - 1 |-> FixedName[a + 1]]

\* A loader for file f.
ImageInit(f) ==
    /\ image = f /\ imageStep = "Idle"
    /\ copied = 0 /\ mapped = [a \in ImageAddress |-> FromFile(0)]
    /\ importAt = <<1, 1>> /\ nextStub = DynamicBase
    /\ resolved = << >> /\ modules = << >> /\ stubs = << >>

Reaches(from, to) == imageStep = from /\ imageStep' = to

\* Too short, or without its signatures: the loader stays at Parsing.
ParseFails ==
    /\ Reaches("Idle", "Parsing") /\ ~image.valid
    /\ UNCHANGED <<image, copied, mapped, importAt, nextStub, resolved, modules, stubs>>

Parse ==
    /\ Reaches("Idle", "Mapping") /\ image.valid
    /\ UNCHANGED <<image, copied, mapped, importAt, nextStub, resolved, modules, stubs>>

\* A section that the file does not hold in full is left at zero.
InFile(s) == s.rawSize > 0 /\ s.raw + s.rawSize - 1 <= image.length

CopySection ==
    LET s == image.sections[copied + 1]
    IN  /\ imageStep = "Mapping" /\ copied < Len(image.sections)
        /\ copied' = copied + 1
        /\ mapped' = IF ~InFile(s) THEN mapped ELSE [a \in ImageAddress |->
               IF s.va <= a /\ a < s.va + s.rawSize THEN FromFile(s.raw + a - s.va)
               ELSE mapped[a]]
        /\ UNCHANGED <<image, imageStep, importAt, nextStub, resolved, modules, stubs>>

Mapped ==
    /\ Reaches("Mapping", "ResolvingImports") /\ copied = Len(image.sections)
    /\ UNCHANGED <<image, copied, mapped, importAt, nextStub, resolved, modules, stubs>>

\* The stub of a function: fixed by its name, or the next of the dynamic ones,
\* a new one for every import of the name.
StubAddress(f) ==
    IF Contains(FixedName, f) THEN CHOOSE a \in DOMAIN FixedStubs : FixedStubs[a] = f
    ELSE nextStub

\* entry_size of the loader.
SlotBytes == IF image.wide THEN 2 * HalfSlot ELSE HalfSlot

\* Mutation: the slots are counted through all descriptors.
SlotRunning(d, k) == Imports[d].thunk + Len(resolved) * SlotBytes

\* The slot of function k of descriptor d.
Slot(d, k) == Imports[d].thunk + (k - 1) * SlotBytes

InSlot(s, a) == s <= a /\ a < s + SlotBytes

\* A slot that lies outside the image, wholly or in part, is not written, and
\* nobody hears of it.
Resolve ==
    LET d == importAt[1]  k == importAt[2]
        f == Imports[d].functions[k]
        addr == StubAddress(f)
        at == IF Imports[d].thunk # 0 /\ Slot(d, k) + SlotBytes <= ImageBytes
              THEN Slot(d, k) ELSE ImageBytes
    IN  /\ imageStep = "ResolvingImports"
        /\ d <= Len(Imports) /\ k <= Len(Imports[d].functions)
        /\ nextStub' = IF addr = nextStub THEN nextStub + 1 ELSE nextStub
        /\ mapped' = [a \in ImageAddress |->
               IF InSlot(at, a) THEN OfStub(addr, a - at) ELSE mapped[a]]
        /\ resolved' = Append(resolved, [name |-> f, addr |-> addr, slot |-> at])
        /\ importAt' = <<d, k + 1>>
        /\ UNCHANGED <<image, imageStep, copied, modules, stubs>>

NextDll ==
    /\ imageStep = "ResolvingImports" /\ importAt[1] <= Len(Imports)
    /\ importAt[2] > Len(Imports[importAt[1]].functions)
    /\ importAt' = <<importAt[1] + 1, 1>>
    /\ UNCHANGED <<image, imageStep, copied, mapped, nextStub, resolved, modules, stubs>>

Ready ==
    /\ Reaches("ResolvingImports", "Ready") /\ importAt[1] > Len(Imports)
    /\ UNCHANGED <<image, copied, mapped, importAt, nextStub, resolved, modules, stubs>>

\* build_peb: a module for every descriptor of another DLL, its base by its
\* place in the list.
BuildPeb ==
    /\ Reaches("Ready", "Peb")
    /\ modules' = Remaining([d \in DOMAIN Imports |-> Imports[d].dll], SystemDll)
    /\ UNCHANGED <<image, copied, mapped, importAt, nextStub, resolved, stubs>>

\* The processor gets the fixed stubs and then those of the image.
RegisterImports ==
    /\ Reaches("Peb", "Running")
    /\ stubs' = [a \in DOMAIN FixedStubs \union {resolved[i].addr : i \in DOMAIN resolved} |->
           IF \E i \in DOMAIN resolved : resolved[i].addr = a
           THEN resolved[CHOOSE i \in DOMAIN resolved : resolved[i].addr = a].name
           ELSE FixedStubs[a]]
    /\ UNCHANGED <<image, copied, mapped, importAt, nextStub, resolved, modules>>

ImageNext ==
    \/ ParseFails \/ Parse \/ CopySection \/ Mapped \/ Resolve \/ NextDll \/ Ready
    \/ BuildPeb \/ RegisterImports

-----------------------------------------------------------------------------
ImageTypeOK ==
    /\ imageStep \in {"Idle", "Parsing", "Mapping", "ResolvingImports", "Ready", "Peb", "Running"}
    /\ copied \in 0 .. Len(image.sections)
    /\ mapped \in [ImageAddress -> ({"file"} \X (0 .. image.length) \X {0})
                       \union ({"stub"} \X Nat \X (0 .. SlotBytes - 1))]
    /\ nextStub = DynamicBase
           + Cardinality({i \in DOMAIN resolved : ~Contains(FixedName, resolved[i].name)})

Raw(s, a) == s.va <= a /\ a < s.va + s.rawSize

Patched(i, a) == InSlot(resolved[i].slot, a)

\* A call through the slot at address s reaches function f.
CallReaches(s, f) ==
    \E a \in DOMAIN stubs :
        stubs[a] = f /\ \A p \in 0 .. SlotBytes - 1 : mapped[s + p] = OfStub(a, p)

\* What the loader leaves in memory is what the parser read, and a call through
\* the import table reaches the function of that name.  (1) At every address
\* that lies in the raw data of one section, complete in the file, in no other
\* section and in no slot that was patched, memory holds the byte that
\* rva_to_file_offset finds.  (2) In an image that is 64-bit by its header and
\* its machine, as long as every entry up to a name could be read, the slot
\* beside the name was patched for it, if the image holds it; and a call through
\* it reaches the function of the name, unless a later entry has a slot that
\* overlaps.  (3) No two names share a stub.
CallsReachImports ==
    /\ imageStep \notin {"Idle", "Parsing", "Mapping"} =>
           \A i \in DOMAIN image.sections, a \in ImageAddress :
               /\ Raw(image.sections[i], a) /\ InFile(image.sections[i])
               /\ \A j \in DOMAIN image.sections \ {i} : ~Covers(image.sections[j], a)
               /\ \A j \in DOMAIN resolved : ~Patched(j, a)
               => {mapped[a]} = {FromFile(o) : o \in FileOffset(a)}
    /\ imageStep = "Running" /\ image.wide /\ image.plus =>
           \A d \in DOMAIN Imports : \A k \in DOMAIN Imports[d].table :
               LET at == Imports[d].thunk + (k - 1) * (2 * HalfSlot)
                   f == Imports[d].table[k]
               IN  /\ Imports[d].thunk # 0 /\ at + 2 * HalfSlot <= ImageBytes
                   /\ \A n \in 1 .. k : Imports[d].table[n] # Unreadable
                   => \E i \in DOMAIN resolved :
                          /\ resolved[i].name = f /\ resolved[i].slot = at
                          /\ (\A j \in DOMAIN resolved : j > i =>
                                 \A a \in ImageAddress : ~ (Patched(i, a) /\ Patched(j, a)))
                             => CallReaches(at, f)
    /\ \A i, j \in DOMAIN resolved :
           resolved[i].addr = resolved[j].addr => resolved[i].name = resolved[j].name
=============================================================================
