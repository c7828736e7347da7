------------------------------- MODULE GuestCpu -------------------------------
(* The interpreter that runs the code of a Windows program (Cpu::run, step and  *)
(* call_target of strawwu-nt, cpu.rs).  Code is data: what step decodes at rip  *)
(* may be any instruction, so each action is one group of opcodes, taken        *)
(* whenever a run is under way.  Registers other than rsp and the data of the   *)
(* program hold anything.  No access is checked against the bounds of the stack *)
(* or the protection of a region: rsp may point anywhere, at any byte, a store  *)
(* or a system call may overwrite the stack, and a call whose rsp has left the  *)
(* stack writes its return address to the region beside it.  What is kept of    *)
(* memory is the return addresses in it, piece by piece.                        *)
EXTENDS Integers, Sequences

CONSTANTS
    LastCode,     \* what step can fetch is at 1 .. LastCode; 0 and LastCode + 1 are not mapped
    Stub,         \* an address of the stub table
    AddressSpace, \* data addresses are 0 .. AddressSpace - 1, and wrap
    HalfWord,     \* addresses that a 32-bit access takes; a 64-bit one takes two of them
    MappedRegions,\* the regions of VirtualMemoryManager, as sets of addresses
    StackTop,     \* where run_entry writes the sentinel
    Immediate     \* the operands of sub rsp and add rsp

WordBytes == 2 * HalfWord
WordAt(a) == a .. a + WordBytes - 1
Pointer == 0 .. AddressSpace - 1
Backed == UNION MappedRegions

\* read_bytes and write_bytes: an access must lie in one region.
Accessible(s) == \E r \in MappedRegions : s \subseteq r

ASSUME CpuAssumption ==
    /\ {LastCode, AddressSpace, HalfWord} \subseteq Nat \ {0}
    /\ Stub \notin 0 .. LastCode + 1
    /\ Immediate \subseteq Pointer
    \* Memory is allocated upwards from 2^36 and never reaches the last word.
    /\ Backed \subseteq 0 .. AddressSpace - WordBytes - 1
    /\ StackTop \in Nat /\ Accessible(WordAt(StackTop))

VARIABLES
    rip,        \* Cpu.rip
    rsp,        \* Cpu.gpr.rsp; the stack grows down
    memory,     \* the pieces of return addresses in memory, and data beside them
    halted,     \* Cpu.halted
    frames,     \* history: the calls not returned from and their locals, innermost last
    tidy        \* history: the program gave back its locals, moved rsp in no other
                \* way, and left return addresses alone

cpuVars == <<rip, rsp, memory, halted, frames, tidy>>

Code == 1 .. LastCode
Sentinel == 0
Word == (0 .. LastCode + 1) \union {Stub}
HaltReason == {"ExitProcess", "MaxSteps", "IllegalInstruction", "MemoryFault", "StackFault"}

Data == << >>
Piece(w, p) == <<w, p>>
Holds(a, w) == \A p \in 0 .. WordBytes - 1 : memory[a + p] = Piece(w, p)

\* What read_u64 finds at an address: data may be any number.
Read(a) == LET exact == {w \in Word : Holds(a, w)} IN IF exact = {} THEN Word ELSE exact

\* wrapping_add and wrapping_sub
Plus(a, n) == IF a + n < AddressSpace THEN a + n ELSE a + n - AddressSpace
Minus(a, n) == IF n <= a THEN a - n ELSE a - n + AddressSpace

CpuTypeOK ==
    /\ rip \in Word /\ rsp \in Pointer
    /\ memory \in [Backed -> {Data} \union (Word \X (0 .. WordBytes - 1))]
    /\ halted \in HaltReason \union {"no"}
    /\ frames \in Seq([at : {a \in Pointer : Accessible(WordAt(a))}, ret : 0 .. LastCode + 1,
                       locals : Nat])
    /\ tidy \in BOOLEAN

\* run_entry: the word on top of the stack is the sentinel to return to.
CpuInit ==
    /\ rip = 1 /\ rsp = StackTop
    /\ memory = [a \in Backed |-> IF a \in WordAt(StackTop) THEN Piece(Sentinel, a - StackTop)
                                  ELSE Data]
    /\ halted = "no" /\ tidy = TRUE
    /\ frames = << [at |-> StackTop, ret |-> Sentinel, locals |-> 0] >>

\* The address behind the instruction at rip.
After == rip + 1

Decoded == halted = "no" /\ rip \in Code

\* The run ends: rip or an operand is not mapped, the instruction is not one
\* that step knows, or MAX_STEPS are done.
HaltBadly ==
    /\ halted = "no"
    /\ halted' \in {"MemoryFault", "MaxSteps"} \union
           (IF rip \in Code THEN {"IllegalInstruction"} ELSE {})
    /\ UNCHANGED <<rip, rsp, memory, frames, tidy>>

\* The addresses that must not change while calls are open.
ReturnBytes == UNION {WordAt(frames[i].at) : i \in DOMAIN frames}

Innermost == frames[Len(frames)]

\* The history is kept for programs that are tidy so far.
Keep(f, clean) == /\ tidy' = (tidy /\ clean)
                  /\ frames' = IF tidy /\ clean THEN f ELSE << >>

\* Data is written to the addresses of s.
Overwrite(s) ==
    /\ memory' = [a \in Backed |-> IF a \in s THEN Data ELSE memory[a]]
    /\ Keep(frames, s \cap ReturnBytes = {})

\* The innermost call has n more locals.
Locals(n) == [frames EXCEPT ![Len(frames)].locals = @ + n]

\* sub rsp, imm8 and add rsp, imm8; a tidy program gives back what it took.
SubRsp == /\ Decoded /\ rip' = After
          /\ \E n \in Immediate : rsp' = Minus(rsp, n) /\ Keep(Locals(n), n <= rsp)
          /\ UNCHANGED <<memory, halted>>

AddRsp == /\ Decoded /\ rip' = After
          /\ \E n \in Immediate :
                 rsp' = Plus(rsp, n) /\ Keep(Locals(-n), tidy /\ n <= Innermost.locals)
          /\ UNCHANGED <<memory, halted>>

\* set_gpr of rsp: mov of an immediate or from memory, xor, lea and movsxd.
SetRsp == /\ Decoded /\ rip' = After
          /\ \E a \in Pointer : rsp' = a /\ Keep(frames, a = rsp)
          /\ UNCHANGED <<memory, halted>>

\* mov to [rsp+disp8], [rip+disp32] or [rax], of 32 or 64 bits.
Store == /\ Decoded /\ rip' = After
         /\ \E a \in Pointer, n \in {HalfWord, WordBytes} :
                Accessible(a .. a + n - 1) /\ Overwrite(a .. a + n - 1)
         /\ UNCHANGED <<rsp, halted>>

\* Moves to other registers, xor, lea, cmp, whose flags nobody keeps, nop and
\* the jumps that are never taken.
Advance == Decoded /\ rip' = After /\ UNCHANGED <<rsp, memory, halted, frames, tidy>>

\* jmp rel8, and jz, which is always taken.
Jump == /\ Decoded
        /\ \E t \in Word : rip' = t
        /\ UNCHANGED <<rsp, memory, halted, frames, tidy>>

\* dispatch_stub: WriteFile, ReadFile and GetMessageA write where the program
\* says, of which only what overwrites return addresses shows; then the program
\* goes on, or a fault or ExitProcess ends it.
DispatchStub ==
    /\ rip' = After
    /\ \E s \in SUBSET {a \in Backed : memory[a] # Data} : Overwrite(s)
    /\ halted' \in {"no", "ExitProcess", "MemoryFault"}

\* The return address is written below rsp, wherever that is.
Push(target) ==
    LET at == Minus(rsp, WordBytes)
    IN  /\ Accessible(WordAt(at))
        /\ memory' = [a \in Backed |-> IF a \in WordAt(at) THEN Piece(After, a - at) ELSE memory[a]]
        /\ rip' = target
        /\ Keep(Append(frames, [at |-> at, ret |-> After, locals |-> 0]), TRUE)
        /\ UNCHANGED halted

PushFault ==
    /\ ~Accessible(WordAt(Minus(rsp, WordBytes)))
    /\ rip' = After /\ halted' = "StackFault"
    /\ UNCHANGED <<memory, frames, tidy>>

\* Mutation: the stack pointer moves for a stub too.
CallTargetPush(target) ==
    /\ rsp' = Minus(rsp, WordBytes)
    /\ IF target = Stub THEN DispatchStub ELSE Push(target) \/ PushFault

\* call_target: a stub is run in place, without a return address; a call into
\* the program pushes one.
CallTarget(target) ==
    IF target = Stub THEN DispatchStub /\ UNCHANGED rsp
    ELSE rsp' = Minus(rsp, WordBytes) /\ (Push(target) \/ PushFault)

\* call rel32, call rax, call [rip+disp32]
Call == Decoded /\ \E target \in Word : CallTarget(target)

\* ret: the sentinel ends the run.
Ret == /\ Decoded /\ Accessible(WordAt(rsp))
       /\ rsp' = Plus(rsp, WordBytes)
       /\ \E w \in Read(rsp) : IF w = Sentinel THEN halted' = "ExitProcess" /\ UNCHANGED rip
                               ELSE rip' = w /\ UNCHANGED halted
       /\ Keep(SubSeq(frames, 1, Len(frames) - 1), tidy /\ Innermost.locals = 0)
       /\ UNCHANGED memory

RetFault == /\ Decoded /\ ~Accessible(WordAt(rsp))
            /\ halted' = "StackFault"
            /\ UNCHANGED <<rip, rsp, memory, frames, tidy>>

CpuNext ==
    \/ HaltBadly
    \/ SubRsp \/ AddRsp \/ SetRsp \/ Store \/ Advance \/ Jump \/ Call \/ Ret \/ RetFault

CpuSpec == CpuInit /\ [][CpuNext]_cpuVars

-----------------------------------------------------------------------------
\* In a program that gives back its locals, moves rsp in no other way and leaves
\* return addresses alone, every call that has not returned has its return
\* address in memory, the innermost lowest, and nothing but its locals lies
\* below it, whatever mixture of calls, stubs, locals, stores and returns went
\* before, and whether or not the stack was large enough: so each ret returns to
\* its call, and the last one ends the run with the stack empty.
FramesMatch ==
    tidy =>
        /\ \A i \in DOMAIN frames : Holds(frames[i].at, frames[i].ret)
        /\ \A i, j \in DOMAIN frames : i < j => frames[j].at + WordBytes <= frames[i].at
        /\ frames # << >> /\ halted # "StackFault" => Innermost.at = rsp + Innermost.locals
        /\ frames # << >> => frames[1].at = StackTop /\ frames[1].ret = Sentinel
        /\ \A i \in DOMAIN frames : frames[i].ret = Sentinel => i = 1
        /\ frames = << >> => halted = "ExitProcess" /\ rsp = StackTop + WordBytes
=============================================================================
