------------------------------- MODULE GuestProofs -------------------------------
(***************************************************************************)
(* Theorems about what a Windows program runs on: the processor (GuestCpu, *)
(* for any size of the code and any layout of memory), its files (GuestFiles), its *)
(* windows (GuestWindows), its memory (NtMemory), and what it shares with  *)
(* other programs (NtIpc); and on what it is loaded by (NtImage) and       *)
(* installed by (NtPackage).  No two of them share a variable.             *)
(*                                                                         *)
(* FramesMatch says where the innermost call stands.  A ret makes the one  *)
(* before it the innermost, so that FrameChain says of every call how far  *)
(* the next one lies below it: by its locals and the return address.       *)
(*                                                                         *)
(* NoLostWakeup is almost inductive too: an event that is created again    *)
(* under a name must find nobody asleep on that name, so that EventInv     *)
(* adds that an event that is not open has no waiter.                      *)
(***************************************************************************)
EXTENDS GuestCpu, GuestFiles, GuestWindows, NtMemory, NtIpc, NtImage, NtPackage,
        LoopLemmas, SequenceTheorems, FiniteSetTheorems, TLAPS

Frame == [at : {a \in Pointer : Accessible(WordAt(a))}, ret : 0 .. LastCode + 1, locals : Nat]

Cell == {Data} \union (Word \X (0 .. WordBytes - 1))

FrameChain ==
    \A i \in 1 .. Len(frames) - 1 :
        frames[i].at = frames[i + 1].at + WordBytes + frames[i].locals

\* What arithmetic needs to know of the constants and of a call.
LEMMA FrameNumbers ==
    /\ LastCode \in Nat \ {0} /\ AddressSpace \in Nat /\ WordBytes \in Nat /\ WordBytes > 0
    /\ Pointer = 0 .. AddressSpace - 1 /\ Immediate \subseteq Pointer
    /\ StackTop \in Pointer /\ Accessible(WordAt(StackTop))
    /\ \A a \in Int : Accessible(WordAt(a)) =>
           /\ WordAt(a) \subseteq Backed
           /\ 0 <= a /\ a + WordBytes + WordBytes <= AddressSpace
<1>1. /\ LastCode \in Nat \ {0} /\ AddressSpace \in Nat /\ WordBytes \in Nat /\ WordBytes > 0
      /\ Pointer = 0 .. AddressSpace - 1 /\ Immediate \subseteq Pointer
      /\ StackTop \in Nat /\ Accessible(WordAt(StackTop))
      /\ Backed \subseteq 0 .. AddressSpace - WordBytes - 1
    BY CpuAssumption DEF WordBytes, Pointer
<1>2. ASSUME NEW a \in Int, Accessible(WordAt(a))
      PROVE  /\ WordAt(a) \subseteq Backed
             /\ 0 <= a /\ a + WordBytes + WordBytes <= AddressSpace
    <2>1. WordAt(a) \subseteq Backed
        BY <1>2 DEF Accessible, Backed
    <2>2. a \in Backed /\ a + WordBytes - 1 \in Backed
        <3>1. a \in WordAt(a) /\ a + WordBytes - 1 \in WordAt(a)
            <4> DEFINE w == WordBytes
            <4>1. w \in Nat /\ w > 0
                BY <1>1
            <4> HIDE DEF w
            <4>2. a \in a .. a + w - 1 /\ a + w - 1 \in a .. a + w - 1
                BY <4>1
            <4> QED
                BY <4>2 DEF WordAt, w
        <3> QED
            BY <2>1, <3>1
    <2>3. a \in 0 .. AddressSpace - WordBytes - 1 /\ a + WordBytes - 1 \in 0 .. AddressSpace - WordBytes - 1
        BY <1>1, <2>2
    <2> DEFINE w == WordBytes
    <2>4. w \in Nat
        BY <1>1
    <2> HIDE DEF w
    <2>5. a + w - 1 <= AddressSpace - w - 1
        BY <2>3 DEF w
    <2>6. a + w + w <= AddressSpace
        BY <1>1, <2>4, <2>5
    <2> QED
        BY <2>1, <2>3, <2>6 DEF w
<1>3. StackTop \in Pointer
    <2> DEFINE w == WordBytes
    <2>1. w \in Nat /\ w > 0 /\ StackTop + w + w <= AddressSpace
        BY <1>1, <1>2 DEF w
    <2> HIDE DEF w
    <2> QED
        BY <1>1, <2>1
<1> QED
    BY <1>1, <1>2, <1>3

CpuInv == CpuTypeOK /\ FramesMatch /\ (tidy => FrameChain)

-----------------------------------------------------------------------------
\* While the program runs and is tidy there is an innermost call, which lies at
\* rsp and its locals up, and no call lies below it.
LEMMA Running ==
    ASSUME CpuInv, tidy, halted = "no"
    PROVE  /\ frames \in Seq(Frame) /\ Len(frames) \in Nat \ {0}
           /\ Len(frames) \in DOMAIN frames /\ DOMAIN frames = 1 .. Len(frames)
           /\ Innermost \in Frame /\ Innermost.at = rsp + Innermost.locals
           /\ Innermost.at \in Int /\ Innermost.locals \in Nat
           /\ \A i \in DOMAIN frames :
                  frames[i] \in Frame /\ frames[i].at \in Int /\ Innermost.at <= frames[i].at
<1>1. frames \in Seq(Frame) /\ frames # << >>
    BY DEF CpuInv, CpuTypeOK, FramesMatch, Frame
<1>2. Len(frames) \in Nat /\ Len(frames) # 0 /\ DOMAIN frames = 1 .. Len(frames)
    BY <1>1, EmptySeq
<1>3. \A i \in DOMAIN frames : frames[i] \in Frame
    BY <1>1, <1>2, ElementOfSeq
<1>4. Innermost \in Frame /\ Innermost.at = rsp + Innermost.locals
    BY <1>1, <1>2, <1>3 DEF CpuInv, FramesMatch, Innermost
<1>5. \A f \in Frame : f.at \in Int /\ f.locals \in Nat
    BY FrameNumbers DEF Frame
<1>6. \A i \in DOMAIN frames : Innermost.at <= frames[i].at
    <2> SUFFICES ASSUME NEW i \in DOMAIN frames PROVE Innermost.at <= frames[i].at
        OBVIOUS
    <2>1. CASE i = Len(frames)
        BY <2>1, <1>4, <1>5 DEF Innermost
    <2>2. CASE i < Len(frames)
        <3>1. frames[Len(frames)].at + WordBytes <= frames[i].at
            BY <2>2, <1>2 DEF CpuInv, FramesMatch
        <3>2. frames[i].at \in Int /\ frames[Len(frames)].at \in Int /\ WordBytes \in Nat
            BY <1>2, <1>3, <1>5, FrameNumbers
        <3> QED
            BY <3>1, <3>2 DEF Innermost
    <2> QED
        BY <2>1, <2>2, <1>2
<1> QED
    BY <1>1, <1>2, <1>3, <1>4, <1>5, <1>6

\* The innermost call with n more locals, and every other as it was.
LEMMA MoreLocals ==
    ASSUME frames \in Seq(Frame), Len(frames) \in Nat \ {0}, NEW n \in Int,
           Innermost.locals + n \in Nat
    PROVE  /\ Locals(n) \in Seq(Frame) /\ Len(Locals(n)) = Len(frames)
           /\ DOMAIN Locals(n) = DOMAIN frames
           /\ \A i \in DOMAIN frames :
                  /\ Locals(n)[i].at = frames[i].at /\ Locals(n)[i].ret = frames[i].ret
                  /\ i # Len(frames) => Locals(n)[i].locals = frames[i].locals
           /\ Locals(n)[Len(frames)].locals = Innermost.locals + n
<1> DEFINE last == Len(frames)
           more == [frames[last] EXCEPT !.locals = @ + n]
<1>1. last \in 1 .. Len(frames) /\ frames[last] \in Frame
    BY ElementOfSeq
<1>2. /\ more \in Frame /\ more.at = frames[last].at /\ more.ret = frames[last].ret
      /\ more.locals = Innermost.locals + n
    BY <1>1 DEF Frame, Innermost
<1>3. Locals(n) = [frames EXCEPT ![last] = more]
    BY DEF Locals
<1>4. /\ Locals(n) \in Seq(Frame) /\ Len(Locals(n)) = Len(frames)
      /\ \A i \in 1 .. Len(frames) :
             Locals(n)[i] = IF i = last THEN more ELSE frames[i]
    BY <1>1, <1>2, <1>3, ExceptSeq
<1>5. DOMAIN Locals(n) = 1 .. Len(frames) /\ DOMAIN frames = 1 .. Len(frames)
    BY <1>4, LenProperties
<1> QED
    BY <1>1, <1>2, <1>4, <1>5

\* A program that is no longer tidy is promised nothing.
LEMMA Untidy ==
    ASSUME ~tidy' PROVE FramesMatch' /\ (tidy => FrameChain)'
  BY DEF FramesMatch

\* Whatever happens to the history, what it no longer tells of is well typed.
LEMMA UntidyKeeps ==
    ASSUME NEW f, NEW clean, Keep(f, clean), ~tidy', CpuInv
    PROVE  frames' \in Seq(Frame) /\ tidy' \in BOOLEAN
<1>1. frames' = << >> /\ tidy' \in BOOLEAN
    BY DEF Keep
<1> QED
    BY <1>1, EmptySeq

LEMMA InitCpu == CpuInit => CpuInv
<1> SUFFICES ASSUME CpuInit PROVE CpuInv
    OBVIOUS
<1> DEFINE outer == [at |-> StackTop, ret |-> Sentinel, locals |-> 0]
           top == WordAt(StackTop)
<1>1. outer \in Frame /\ frames = <<outer>>
    BY FrameNumbers DEF CpuInit, Frame, Sentinel
<1>2. frames \in Seq(Frame) /\ Len(frames) = 1 /\ frames[1] = outer /\ DOMAIN frames = {1}
    BY <1>1
<1>3. /\ memory = [a \in Backed |-> IF a \in top THEN Piece(Sentinel, a - StackTop) ELSE Data]
      /\ rip = 1 /\ rsp = StackTop /\ halted = "no" /\ tidy = TRUE
    BY DEF CpuInit
<1>4. \A p \in 0 .. WordBytes - 1 : /\ StackTop + p \in Backed /\ StackTop + p \in top
                                    /\ (StackTop + p) - StackTop = p
    <2> DEFINE w == WordBytes
    <2>1. w \in Nat /\ StackTop \in Int
        BY FrameNumbers
    <2> HIDE DEF w
    <2>2. \A p \in 0 .. w - 1 : /\ StackTop + p \in StackTop .. StackTop + w - 1
                                /\ (StackTop + p) - StackTop = p
        BY <2>1
    <2> QED
        BY <2>1, <2>2, FrameNumbers DEF WordAt, w
<1>5. \A a \in top : a - StackTop \in 0 .. WordBytes - 1
    <2> DEFINE w == WordBytes
    <2>1. w \in Nat /\ StackTop \in Int
        BY FrameNumbers
    <2> HIDE DEF w
    <2>2. \A a \in StackTop .. StackTop + w - 1 : a - StackTop \in 0 .. w - 1
        BY <2>1
    <2> QED
        BY <2>2 DEF WordAt, w
<1>6. memory \in [Backed -> Cell]
    <2>1. Sentinel \in Word
        BY FrameNumbers DEF Word, Sentinel
    <2>2. \A a \in top : Piece(Sentinel, a - StackTop) \in Cell
        BY <1>5, <2>1 DEF Piece, Cell
    <2>3. Data \in Cell
        BY DEF Cell
    <2> HIDE DEF top
    <2> QED
        BY <1>3, <2>2, <2>3
<1>7. CpuTypeOK
    BY <1>2, <1>3, <1>6, FrameNumbers DEF CpuTypeOK, Frame, Cell, Word, HaltReason
<1>8. Holds(StackTop, Sentinel)
    <2> HIDE DEF top
    <2> QED
        BY <1>3, <1>4 DEF Holds
<1>9. FramesMatch
    <2>1. Innermost.at = rsp + Innermost.locals
        BY <1>2, <1>3, FrameNumbers DEF Innermost
    <2> QED
        BY <1>2, <1>3, <1>8, <2>1 DEF FramesMatch
<1>10. FrameChain
    BY <1>2 DEF FrameChain
<1> QED
    BY <1>7, <1>9, <1>10 DEF CpuInv

\* The steps that leave the stack pointer, memory and the calls alone.
LEMMA QuietStep ==
    ASSUME CpuInv, halted = "no", rip' \in Word, halted' \in HaltReason \union {"no"},
           UNCHANGED <<rsp, memory, frames, tidy>>
    PROVE  CpuInv'
<1>1. tidy => frames # << >>
    BY DEF CpuInv, FramesMatch
<1>2. tidy /\ frames # << >> => Innermost.at = rsp + Innermost.locals
    BY DEF CpuInv, FramesMatch
<1>3. CpuTypeOK'
    BY DEF CpuInv, CpuTypeOK
<1>4. FramesMatch'
    BY <1>1, <1>2 DEF CpuInv, FramesMatch, Innermost, Holds
<1> QED
    BY <1>3, <1>4 DEF CpuInv, FrameChain

\* sub rsp and add rsp of a program that stays tidy.
LEMMA LocalsStep ==
    ASSUME CpuInv, tidy, halted = "no", NEW n \in Int,
           rsp - n \in Pointer, Innermost.locals + n \in Nat,
           rip' \in Word, rsp' = rsp - n, frames' = Locals(n),
           UNCHANGED <<memory, halted, tidy>>
    PROVE  CpuInv'
<1> DEFINE last == Len(frames)
<1>1. /\ last \in Nat \ {0} /\ DOMAIN frames = 1 .. last /\ frames \in Seq(Frame)
      /\ Innermost \in Frame /\ Innermost.at = rsp + Innermost.locals
      /\ Innermost.at \in Int /\ Innermost.locals \in Nat
      /\ \A i \in DOMAIN frames : frames[i] \in Frame
    BY Running
<1>2. /\ frames' \in Seq(Frame) /\ Len(frames') = last /\ DOMAIN frames' = 1 .. last
      /\ \A i \in 1 .. last :
             /\ frames'[i].at = frames[i].at /\ frames'[i].ret = frames[i].ret
             /\ i # last => frames'[i].locals = frames[i].locals
      /\ frames'[last].locals = Innermost.locals + n
    BY <1>1, MoreLocals
<1>3. CpuTypeOK'
    BY <1>2 DEF CpuInv, CpuTypeOK, Frame
<1>4. Innermost' = frames'[last] /\ Innermost'.at = rsp' + Innermost'.locals
    <2>1. Innermost' = frames'[last]
        BY <1>2 DEF Innermost
    <2>2. frames'[last].at = Innermost.at /\ frames'[last].locals = Innermost.locals + n
        <3>1. last \in 1 .. last
            BY <1>1
        <3> QED
            BY <3>1, <1>2 DEF Innermost
    <2>3. rsp \in Int
        BY FrameNumbers DEF CpuInv, CpuTypeOK
    <2> QED
        BY <2>1, <2>2, <2>3, <1>1
<1>5. frames' # << >>
    BY <1>1, <1>2, EmptySeq
<1>6. FramesMatch'
    <2>1. (\A i \in DOMAIN frames : Holds(frames[i].at, frames[i].ret))'
        BY <1>1, <1>2 DEF CpuInv, FramesMatch, Holds
    <2>2. ASSUME NEW i \in DOMAIN frames', NEW j \in DOMAIN frames', i < j
          PROVE  frames'[j].at + WordBytes <= frames'[i].at
        <3>1. i \in 1 .. last /\ j \in 1 .. last
            BY <2>2, <1>2
        <3>2. frames[j].at + WordBytes <= frames[i].at
            BY <2>2, <3>1, <1>1 DEF CpuInv, FramesMatch
        <3> QED
            BY <3>1, <3>2, <1>2
    <2>3. /\ frames'[1].at = StackTop /\ frames'[1].ret = Sentinel
          /\ \A i \in DOMAIN frames' : frames'[i].ret = Sentinel => i = 1
        <3>1. frames # << >> /\ 1 \in 1 .. last
            BY <1>1, EmptySeq
        <3> QED
            BY <3>1, <1>1, <1>2 DEF CpuInv, FramesMatch
    <2> QED
        BY <2>1, <2>2, <2>3, <1>4, <1>5 DEF FramesMatch
<1>7. FrameChain'
    <2>1. FrameChain
        BY DEF CpuInv
    <2>2. ASSUME NEW i \in 1 .. last - 1
          PROVE  frames'[i].at = frames'[i + 1].at + WordBytes + frames'[i].locals
        <3>0. last \in Nat
            BY <1>1
        <3>1. i \in 1 .. last /\ i + 1 \in 1 .. last /\ i # last
            BY <3>0
        <3>2. frames[i].at = frames[i + 1].at + WordBytes + frames[i].locals
            BY <2>1 DEF FrameChain
        <3>3. /\ frames'[i].at = frames[i].at /\ frames'[i].locals = frames[i].locals
              /\ frames'[i + 1].at = frames[i + 1].at
            BY <1>2, <3>1
        <3> QED
            BY <3>2, <3>3, Zenon
    <2> QED
        BY <1>2, <2>2 DEF FrameChain
<1> QED
    BY <1>3, <1>6, <1>7 DEF CpuInv

\* What Overwrite makes of memory has its type.
LEMMA OverwriteTypes ==
    ASSUME CpuInv, NEW s, memory' = [a \in Backed |-> IF a \in s THEN Data ELSE memory[a]]
    PROVE  memory' \in [Backed -> Cell]
<1>1. memory \in [Backed -> Cell] /\ Data \in Cell
    BY DEF CpuInv, CpuTypeOK, Cell
<1> QED
    BY <1>1

\* Data is written, by a store or by a system call.
LEMMA OverwriteStep ==
    ASSUME CpuInv, halted = "no", NEW s, Overwrite(s), rip' \in Word,
           halted' \in {"no", "ExitProcess", "MemoryFault"}, rsp' = rsp
    PROVE  CpuInv'
<1>1. /\ memory' = [a \in Backed |-> IF a \in s THEN Data ELSE memory[a]]
      /\ Keep(frames, s \cap ReturnBytes = {})
    BY DEF Overwrite
<1>2. memory' \in [Backed -> Cell]
    BY <1>1, OverwriteTypes
<1>3. CASE tidy'
    <2>1. tidy /\ s \cap ReturnBytes = {} /\ frames' = frames /\ tidy' = tidy
        BY <1>1, <1>3 DEF Keep, CpuInv, CpuTypeOK
    <2>2. CpuTypeOK'
        BY <1>2, <2>1 DEF CpuInv, CpuTypeOK, HaltReason, Cell
    <2>3. ASSUME NEW k \in DOMAIN frames PROVE Holds(frames[k].at, frames[k].ret)'
        <3> DEFINE at == frames[k].at
        <3>1. at \in Int /\ Accessible(WordAt(at))
            BY <2>1, Running DEF Frame
        <3> HIDE DEF at
        <3>2. WordAt(at) \subseteq Backed /\ WordBytes \in Nat
            BY <3>1, FrameNumbers
        <3>3. WordAt(at) \subseteq ReturnBytes
            BY DEF ReturnBytes, at
        <3>4. \A p \in 0 .. WordBytes - 1 : at + p \in WordAt(at)
            <4> DEFINE w == WordBytes
            <4>1. w \in Nat
                BY <3>2
            <4> HIDE DEF w
            <4>2. \A p \in 0 .. w - 1 : at + p \in at .. at + w - 1
                BY <3>1, <4>1
            <4> QED
                BY <4>2 DEF WordAt, w
        <3>5. \A p \in 0 .. WordBytes - 1 : memory'[at + p] = memory[at + p]
            BY <1>1, <2>1, <3>2, <3>3, <3>4
        <3>6. Holds(at, frames[k].ret)
            BY <2>1 DEF CpuInv, FramesMatch, at
        <3>7. Holds(at, frames[k].ret)'
            BY <2>1, <3>5, <3>6 DEF Holds, at
        <3> QED
            BY <3>7 DEF at
    <2>4. FramesMatch'
        <3>1. frames # << >> /\ Innermost.at = rsp + Innermost.locals
            BY <2>1 DEF CpuInv, FramesMatch
        <3> QED
            BY <2>1, <2>3, <3>1 DEF CpuInv, FramesMatch, Innermost
    <2> QED
        BY <2>1, <2>2, <2>4 DEF CpuInv, FrameChain
<1>4. CASE ~tidy'
    <2>1. frames' \in Seq(Frame) /\ tidy' \in BOOLEAN
        BY <1>1, <1>4, UntidyKeeps
    <2> QED
        BY <1>2, <1>4, <2>1, Untidy DEF CpuInv, CpuTypeOK, Frame, HaltReason, Cell
<1> QED
    BY <1>3, <1>4

\* A call into the program, whose return address memory holds.
LEMMA PushStep ==
    ASSUME CpuInv, halted = "no", rip \in Code, NEW target \in Word,
           rsp' = Minus(rsp, WordBytes), Push(target)
    PROVE  CpuInv'
<1> DEFINE last == Len(frames)
           at == Minus(rsp, WordBytes)
           new == [at |-> at, ret |-> After, locals |-> 0]
           w == WordBytes
<1>1. /\ Accessible(WordAt(at)) /\ rsp' = at /\ rip' = target /\ halted' = halted
      /\ memory' = [a \in Backed |-> IF a \in WordAt(at) THEN Piece(After, a - at) ELSE memory[a]]
      /\ Keep(Append(frames, new), TRUE)
    BY DEF Push
<1>2. After \in 0 .. LastCode + 1 /\ After # Sentinel /\ After \in Word
    BY FrameNumbers DEF After, Code, Sentinel, Word
<1>3. /\ w \in Nat /\ w > 0 /\ rsp \in 0 .. AddressSpace - 1 /\ AddressSpace \in Nat
      /\ at = IF w <= rsp THEN rsp - w ELSE rsp - w + AddressSpace
    BY FrameNumbers DEF CpuInv, CpuTypeOK, Minus
<1> HIDE DEF at, w
<1>4. at \in Int
    BY <1>3
<1>5. /\ WordAt(at) \subseteq Backed /\ 0 <= at /\ at + w + w <= AddressSpace
    BY <1>1, <1>4, FrameNumbers DEF w
<1>6. at = rsp - w /\ at \in Pointer
    BY <1>3, <1>4, <1>5, FrameNumbers
<1>7. \A p \in 0 .. w - 1 : at + p \in WordAt(at) /\ at + p \in Backed /\ (at + p) - at = p
    <2>1. \A p \in 0 .. w - 1 : at + p \in at .. at + w - 1 /\ (at + p) - at = p
        BY <1>3, <1>4
    <2> QED
        BY <1>5, <2>1 DEF WordAt, w
<1>8. \A a \in WordAt(at) : a - at \in 0 .. WordBytes - 1
    <2>1. \A a \in at .. at + w - 1 : a - at \in 0 .. w - 1
        BY <1>3, <1>4
    <2> QED
        BY <2>1 DEF WordAt, w
<1>9. memory' \in [Backed -> Cell]
    <2>1. \A a \in WordAt(at) : Piece(After, a - at) \in Cell
        BY <1>2, <1>8 DEF Piece, Cell
    <2>2. memory \in [Backed -> Cell]
        BY DEF CpuInv, CpuTypeOK, Cell
    <2> QED
        BY <1>1, <2>1, <2>2
<1>10. CASE ~tidy'
    <2>1. frames' \in Seq(Frame) /\ tidy' \in BOOLEAN
        BY <1>1, <1>10, UntidyKeeps
    <2> QED
        BY <1>1, <1>6, <1>9, <1>10, <2>1, Untidy DEF CpuInv, CpuTypeOK, Frame, Cell
<1>11. CASE tidy'
    <2>1. tidy /\ frames' = Append(frames, new) /\ tidy' = tidy
        BY <1>1, <1>11 DEF Keep, CpuInv, CpuTypeOK
    <2>2. /\ last \in Nat \ {0} /\ DOMAIN frames = 1 .. last /\ frames \in Seq(Frame)
          /\ Innermost \in Frame /\ Innermost.at = rsp + Innermost.locals
          /\ Innermost.at \in Int /\ Innermost.locals \in Nat
          /\ \A i \in 1 .. last :
                 frames[i] \in Frame /\ frames[i].at \in Int /\ Innermost.at <= frames[i].at
        BY <2>1, Running
    <2>3. new \in Frame /\ new.at = at /\ new.ret = After /\ new.locals = 0
        BY <1>1, <1>2, <1>6 DEF Frame
    <2> HIDE DEF new
    <2>4. /\ frames' \in Seq(Frame) /\ Len(frames') = last + 1
          /\ \A i \in 1 .. last : frames'[i] = frames[i]
          /\ frames'[last + 1] = new
        BY <2>1, <2>2, <2>3, AppendProperties
    <2>5. DOMAIN frames' = 1 .. last + 1 /\ frames' # << >>
        BY <2>2, <2>4, LenProperties, EmptySeq
    <2>6. \A i \in 1 .. last : at + w <= frames[i].at
        BY <1>3, <1>6, <2>2
    <2>7. CpuTypeOK'
        BY <1>1, <1>6, <1>9, <2>1, <2>4 DEF CpuInv, CpuTypeOK, Frame, Cell
    <2>8. ASSUME NEW i \in 1 .. last PROVE Holds(frames[i].at, frames[i].ret)'
        <3> DEFINE b == frames[i].at
        <3>1. b \in Int /\ Accessible(WordAt(b)) /\ at + w <= b
            BY <2>2, <2>6 DEF Frame
        <3>2. Holds(b, frames[i].ret)
            BY <2>1, <2>2 DEF CpuInv, FramesMatch
        <3> HIDE DEF b
        <3>3. WordAt(b) \subseteq Backed
            BY <3>1, FrameNumbers
        <3>4. \A p \in 0 .. w - 1 : b + p \in b .. b + w - 1 /\ b + p \notin at .. at + w - 1
            BY <1>3, <1>4, <3>1
        <3>5. \A p \in 0 .. WordBytes - 1 : memory'[b + p] = memory[b + p]
            BY <1>1, <3>3, <3>4 DEF WordAt, w
        <3>6. frames'[i] = frames[i]
            BY <2>4
        <3> QED
            BY <3>2, <3>5, <3>6 DEF Holds, b
    <2>9. ASSUME NEW i, i = last + 1 PROVE Holds(frames[i].at, frames[i].ret)'
        <3>1. \A p \in 0 .. w - 1 : memory'[at + p] = Piece(After, p)
            BY <1>1, <1>7
        <3>2. frames'[i].at = at /\ frames'[i].ret = After
            BY <2>3, <2>4, <2>9
        <3>3. \A p \in 0 .. WordBytes - 1 :
                  memory'[frames'[i].at + p] = Piece(frames'[i].ret, p)
            BY <3>1, <3>2 DEF w
        <3> QED
            BY <3>3 DEF Holds
    <2>10. \A i \in DOMAIN frames' : Holds(frames[i].at, frames[i].ret)'
        <3>1. \A i \in 1 .. last + 1 : i = last + 1 \/ i \in 1 .. last
            BY <2>2
        <3> QED
            BY <2>5, <2>8, <2>9, <3>1
    <2>11. \A i, j \in DOMAIN frames' : i < j => frames'[j].at + WordBytes <= frames'[i].at
        <3> SUFFICES ASSUME NEW i \in 1 .. last + 1, NEW j \in 1 .. last + 1, i < j
                     PROVE  frames'[j].at + WordBytes <= frames'[i].at
            BY <2>5
        <3>1. i \in 1 .. last /\ frames'[i] = frames[i]
            BY <2>2, <2>4
        <3>2. CASE j = last + 1
            BY <2>3, <2>4, <2>6, <3>1, <3>2 DEF w
        <3>3. CASE j # last + 1
            <4>1. j \in 1 .. last /\ frames'[j] = frames[j]
                BY <2>2, <2>4, <3>3
            <4> QED
                BY <2>1, <2>2, <3>1, <4>1 DEF CpuInv, FramesMatch
        <3> QED
            BY <3>2, <3>3
    <2>12. Innermost' = new /\ Innermost'.at = rsp' + Innermost'.locals
        BY <1>1, <1>4, <2>3, <2>4 DEF Innermost
    <2>13. /\ frames'[1].at = StackTop /\ frames'[1].ret = Sentinel
           /\ \A i \in DOMAIN frames' : frames'[i].ret = Sentinel => i = 1
        <3>1. frames # << >> /\ 1 \in 1 .. last
            BY <2>2, EmptySeq
        <3>2. \A i \in 1 .. last + 1 : i = last + 1 \/ i \in 1 .. last
            BY <2>2
        <3> QED
            BY <1>2, <2>1, <2>2, <2>3, <2>4, <2>5, <3>1, <3>2 DEF CpuInv, FramesMatch
    <2>14. FramesMatch'
        BY <2>5, <2>10, <2>11, <2>12, <2>13 DEF FramesMatch
    <2>15. FrameChain'
        <3>1. frames[last].at = frames'[last + 1].at + WordBytes + frames[last].locals
            <4>1. frames'[last + 1].at = rsp - w /\ frames[last] = Innermost
                BY <1>6, <2>3, <2>4 DEF Innermost
            <4>2. Innermost.at = (rsp - w) + w + Innermost.locals
                BY <1>3, <2>2
            <4> QED
                BY <4>1, <4>2 DEF w
        <3>2. \A i \in 1 .. last - 1 : frames[i].at = frames[i + 1].at + WordBytes + frames[i].locals
            BY <2>1 DEF CpuInv, FrameChain
        <3>3. ASSUME NEW i \in 1 .. (last + 1) - 1
              PROVE  frames'[i].at = frames'[i + 1].at + WordBytes + frames'[i].locals
            <4>1. i \in 1 .. last /\ frames'[i] = frames[i]
                BY <2>2, <2>4
            <4>2. CASE i = last
                BY <3>1, <4>1, <4>2
            <4>3. CASE i # last
                <5>1. i \in 1 .. last - 1 /\ i + 1 \in 1 .. last
                    <6>1. last \in Nat /\ i \in 1 .. last
                        BY <2>2, <4>1
                    <6> HIDE DEF last
                    <6> QED
                        BY <6>1, <4>3
                <5>2. frames'[i + 1] = frames[i + 1]
                    BY <2>4, <5>1
                <5> QED
                    BY <3>2, <4>1, <5>1, <5>2
            <4> QED
                BY <4>2, <4>3
        <3> QED
            BY <2>4, <3>3 DEF FrameChain
    <2> QED
        BY <2>1, <2>7, <2>14, <2>15 DEF CpuInv
<1> QED
    BY <1>10, <1>11

\* A ret with all locals given back.
LEMMA RetStep ==
    ASSUME CpuInv, tidy, Ret, Innermost.locals = 0,
           frames' = SubSeq(frames, 1, Len(frames) - 1), UNCHANGED tidy
    PROVE  CpuInv'
<1> DEFINE last == Len(frames)
           w == WordBytes
<1>1. /\ last \in Nat \ {0} /\ DOMAIN frames = 1 .. last /\ frames \in Seq(Frame)
      /\ Innermost \in Frame /\ Innermost.at = rsp + Innermost.locals
      /\ \A i \in 1 .. last : frames[i] \in Frame /\ frames[i].at \in Int
    BY Running DEF Ret, Decoded
<1>2. /\ Accessible(WordAt(rsp)) /\ rsp' = Plus(rsp, WordBytes) /\ memory' = memory
      /\ rsp \in Int /\ w \in Nat /\ w > 0 /\ AddressSpace \in Nat
    BY FrameNumbers DEF Ret, CpuInv, CpuTypeOK
<1>3. rsp' = rsp + w /\ rsp' \in Pointer
    <2>1. 0 <= rsp /\ rsp + w + w <= AddressSpace
        BY <1>2, FrameNumbers
    <2>2. rsp' = IF rsp + w < AddressSpace THEN rsp + w ELSE rsp + w - AddressSpace
        BY <1>2 DEF Plus
    <2> HIDE DEF w
    <2> QED
        BY <1>2, <2>1, <2>2, FrameNumbers
<1>4. Innermost.at = rsp /\ Holds(rsp, Innermost.ret) /\ Innermost.ret \in 0 .. LastCode + 1
    <2>1. Innermost.at = rsp
        BY <1>1, <1>2
    <2>2. Innermost.ret \in 0 .. LastCode + 1
        BY <1>1 DEF Frame
    <2>3. \A i \in DOMAIN frames : Holds(frames[i].at, frames[i].ret)
        BY DEF CpuInv, FramesMatch
    <2>4. Holds(Innermost.at, Innermost.ret)
        <3>1. last \in DOMAIN frames /\ Innermost = frames[last]
            BY <1>1 DEF Innermost
        <3> QED
            BY <3>1, <2>3
    <2> QED
        BY <2>1, <2>2, <2>4
<1>5. Read(rsp) = {Innermost.ret} /\ Innermost.ret \in Word
    <2>1. Innermost.ret \in Word
        BY <1>4 DEF Word
    <2>2. ASSUME NEW v \in Word, Holds(rsp, v) PROVE v = Innermost.ret
        <3>1. 0 \in 0 .. WordBytes - 1
            BY FrameNumbers
        <3>2. memory[rsp + 0] = <<v, 0>> /\ memory[rsp + 0] = <<Innermost.ret, 0>>
            BY <1>4, <2>2, <3>1 DEF Holds, Piece
        <3> QED
            BY <3>2
    <2>3. {v \in Word : Holds(rsp, v)} = {Innermost.ret}
        BY <1>4, <2>1, <2>2
    <2> QED
        BY <2>1, <2>3 DEF Read
<1>6. IF Innermost.ret = Sentinel THEN halted' = "ExitProcess" /\ rip' = rip
      ELSE rip' = Innermost.ret /\ halted' = halted
    BY <1>5 DEF Ret
<1>7. /\ frames' \in Seq(Frame) /\ Len(frames') = last - 1
      /\ \A i \in 1 .. last - 1 : frames'[i] = frames[i]
    <2>1. \A i \in 1 .. last - 1 : frames[i] \in Frame
        BY <1>1
    <2>2. /\ SubSeq(frames, 1, last - 1) \in Seq(Frame)
          /\ Len(SubSeq(frames, 1, last - 1))
                 = IF 1 <= last - 1 THEN (last - 1) - 1 + 1 ELSE 0
          /\ \A i \in 1 .. (last - 1) - 1 + 1 :
                 SubSeq(frames, 1, last - 1)[i] = frames[1 + i - 1]
        BY <2>1, <1>1, SubSeqProperties
    <2> QED
        BY <2>2, <1>1
<1>8. DOMAIN frames' = 1 .. last - 1
    BY <1>7, LenProperties
<1>9. CpuTypeOK'
    <2>1. rip' \in Word /\ halted' \in HaltReason \union {"no"}
        BY <1>5, <1>6 DEF CpuInv, CpuTypeOK, HaltReason
    <2> QED
        BY <2>1, <1>2, <1>3, <1>7 DEF CpuInv, CpuTypeOK, Frame
<1> HIDE DEF w
<1>10. CASE last = 1
    <2>1. Innermost.ret = Sentinel /\ rsp = StackTop
        <3>1. frames # << >> /\ Innermost = frames[1]
            BY <1>1, <1>10, EmptySeq DEF Innermost
        <3> QED
            BY <3>1, <1>4 DEF CpuInv, FramesMatch
    <2>2. halted' = "ExitProcess" /\ rsp' = StackTop + WordBytes
        BY <2>1, <1>3, <1>6 DEF w
    <2>3. frames' = << >> /\ DOMAIN frames' = {}
        BY <1>7, <1>8, <1>10, EmptySeq
    <2> QED
        BY <2>2, <2>3, <1>9, <1>10, <1>7 DEF CpuInv, FramesMatch, FrameChain
<1>11. CASE last > 1
    <2>1. Innermost.ret # Sentinel
        BY <1>11, <1>1 DEF CpuInv, FramesMatch, Innermost
    <2>2. halted' = halted
        BY <2>1, <1>6
    <2>3. frames' # << >> /\ Innermost' = frames[last - 1]
        <3>1. Len(frames') = last - 1 /\ last - 1 \in 1 .. last - 1 /\ last - 1 # 0
            BY <1>1, <1>7, <1>11
        <3>2. frames'[last - 1] = frames[last - 1]
            BY <1>7, <3>1
        <3>3. frames' # << >>
            BY <3>1, EmptySeq
        <3> QED
            BY <3>1, <3>2, <3>3 DEF Innermost
    <2>4. Innermost'.at = rsp' + Innermost'.locals
        <3>1. frames[last - 1].at = frames[last].at + w + frames[last - 1].locals
            BY <1>1, <1>11 DEF CpuInv, FrameChain, w
        <3>2. frames[last].at = rsp
            BY <1>4 DEF Innermost
        <3> QED
            BY <3>1, <3>2, <2>3, <1>3
    <2>5. \A i \in DOMAIN frames' : Holds(frames[i].at, frames[i].ret)'
        BY <1>1, <1>2, <1>7, <1>8 DEF CpuInv, FramesMatch, Holds
    <2>6. FramesMatch'
        BY <2>2, <2>3, <2>4, <2>5, <1>1, <1>7, <1>8, <1>11 DEF CpuInv, FramesMatch
    <2>7. FrameChain'
        BY <1>1, <1>7 DEF CpuInv, FrameChain
    <2> QED
        BY <2>6, <2>7, <1>9 DEF CpuInv
<1> QED
    BY <1>1, <1>10, <1>11

LEMMA NextCpu == CpuInv /\ [CpuNext]_cpuVars => CpuInv'
<1> SUFFICES ASSUME CpuInv, [CpuNext]_cpuVars PROVE CpuInv'
    OBVIOUS
<1>1. CASE UNCHANGED cpuVars
    <2>1. CpuTypeOK'
        BY <1>1 DEF cpuVars, CpuInv, CpuTypeOK
    <2>2. FramesMatch'
        BY <1>1 DEF cpuVars, CpuInv, FramesMatch, Innermost, Holds
    <2>3. (tidy => FrameChain)'
        BY <1>1 DEF cpuVars, CpuInv, FrameChain
    <2> QED
        BY <2>1, <2>2, <2>3 DEF CpuInv
<1> SUFFICES ASSUME CpuNext, halted = "no" PROVE CpuInv'
    BY <1>1 DEF CpuNext, HaltBadly, SubRsp, AddRsp, SetRsp, Store, Advance, Jump, Call,
                Ret, RetFault, Decoded
<1>2. /\ rip \in Word /\ (rip \in Code => After \in Word)
      /\ rsp \in 0 .. AddressSpace - 1 /\ AddressSpace \in Nat
    BY FrameNumbers DEF CpuInv, CpuTypeOK, After, Code, Word
<1>3. CASE HaltBadly \/ Advance \/ Jump \/ RetFault
    <2>1. /\ rip' \in Word /\ halted' \in HaltReason \union {"no"}
          /\ UNCHANGED <<rsp, memory, frames, tidy>>
        BY <1>2, <1>3 DEF HaltBadly, Advance, Jump, RetFault, Decoded, HaltReason
    <2> QED
        BY <2>1, QuietStep
\* A step that moves rsp, of a program that is no longer tidy.
<1>4. ASSUME rip' \in Word, rsp' \in Pointer, halted' \in HaltReason \union {"no"},
             memory' = memory, NEW f, NEW clean, Keep(f, clean), ~tidy'
      PROVE  CpuInv'
    <2>1. frames' \in Seq(Frame) /\ tidy' \in BOOLEAN
        BY <1>4, UntidyKeeps
    <2> QED
        BY <1>4, <2>1, Untidy DEF CpuInv, CpuTypeOK, Frame
<1>5. ASSUME NEW n \in Pointer
      PROVE  /\ Minus(rsp, n) \in Pointer /\ Plus(rsp, n) \in Pointer
             /\ n <= rsp => Minus(rsp, n) = rsp - n
             /\ rsp + n < AddressSpace => Plus(rsp, n) = rsp + n
    <2>1. n \in 0 .. AddressSpace - 1 /\ Pointer = 0 .. AddressSpace - 1
        BY <1>5, FrameNumbers
    <2> QED
        BY <1>2, <2>1 DEF Minus, Plus
<1>6. CASE SubRsp
    <2>1. PICK n \in Immediate : rsp' = Minus(rsp, n) /\ Keep(Locals(n), n <= rsp)
        BY <1>6 DEF SubRsp
    <2>2. n \in Pointer /\ n \in Nat /\ rsp \in Int
        BY <1>2, FrameNumbers
    <2>3. rip' \in Word /\ rsp' \in Pointer /\ memory' = memory /\ halted' = halted
        BY <1>2, <1>5, <1>6, <2>1, <2>2 DEF SubRsp, Decoded
    <2>4. CASE ~tidy'
        BY <1>4, <2>1, <2>3, <2>4 DEF HaltReason
    <2>5. CASE tidy'
        <3>1. tidy /\ n <= rsp /\ frames' = Locals(n) /\ tidy' = tidy
            BY <2>1, <2>5 DEF Keep, CpuInv, CpuTypeOK
        <3>2. rsp' = rsp - n
            BY <1>5, <2>1, <2>2, <3>1
        <3>3. Innermost.locals + n \in Nat
            BY <2>2, <3>1, Running
        <3> QED
            BY <2>2, <2>3, <3>1, <3>2, <3>3, LocalsStep
    <2> QED
        BY <2>4, <2>5
<1>7. CASE AddRsp
    <2>1. PICK n \in Immediate :
              rsp' = Plus(rsp, n) /\ Keep(Locals(-n), tidy /\ n <= Innermost.locals)
        BY <1>7 DEF AddRsp
    <2>2. n \in Pointer /\ n \in Nat /\ rsp \in Int
        BY <1>2, FrameNumbers
    <2>3. rip' \in Word /\ rsp' \in Pointer /\ memory' = memory /\ halted' = halted
        BY <1>2, <1>5, <1>7, <2>1, <2>2 DEF AddRsp, Decoded
    <2>4. CASE ~tidy'
        BY <1>4, <2>1, <2>3, <2>4 DEF HaltReason
    <2>5. CASE tidy'
        <3>1. tidy /\ n <= Innermost.locals /\ frames' = Locals(-n) /\ tidy' = tidy
            BY <2>1, <2>5 DEF Keep, CpuInv, CpuTypeOK
        <3>2. /\ Innermost.locals \in Nat /\ Innermost.at \in Int
              /\ Innermost.at = rsp + Innermost.locals /\ Innermost.at < AddressSpace
            <4>1. /\ Innermost.locals \in Nat /\ Innermost.at \in Int
                  /\ Innermost.at = rsp + Innermost.locals /\ Innermost \in Frame
                BY <3>1, Running
            <4>2. Innermost.at \in Pointer
                BY <4>1 DEF Frame
            <4> QED
                BY <1>2, <4>1, <4>2, FrameNumbers
        <3>3. rsp + n < AddressSpace
            BY <1>2, <2>2, <3>1, <3>2
        <3>4. rsp' = rsp - (-n) /\ -n \in Int /\ Innermost.locals + (-n) \in Nat
            BY <1>5, <2>1, <2>2, <3>1, <3>2, <3>3
        <3> QED
            BY <2>3, <3>1, <3>4, LocalsStep
    <2> QED
        BY <2>4, <2>5
<1>8. CASE SetRsp
    <2>1. PICK a \in Pointer : rsp' = a /\ Keep(frames, a = rsp)
        BY <1>8 DEF SetRsp
    <2>2. rip' \in Word /\ memory' = memory /\ halted' = halted
        BY <1>2, <1>8 DEF SetRsp, Decoded
    <2>3. CASE ~tidy'
        BY <1>4, <2>1, <2>2, <2>3 DEF HaltReason
    <2>4. CASE tidy'
        <3>1. rsp' = rsp /\ frames' = frames /\ tidy' = tidy
            BY <2>1, <2>4 DEF Keep, CpuInv, CpuTypeOK
        <3> QED
            BY <2>2, <3>1, QuietStep
    <2> QED
        BY <2>3, <2>4
<1>9. CASE Store
    <2>1. PICK a \in Pointer, n \in {HalfWord, WordBytes} : Overwrite(a .. a + n - 1)
        BY <1>9 DEF Store
    <2>2. rip' \in Word /\ rsp' = rsp /\ halted' = "no"
        BY <1>2, <1>9 DEF Store, Decoded
    <2> QED
        BY <2>1, <2>2, OverwriteStep
<1>10. CASE Call
    <2>1. PICK target \in Word : CallTarget(target)
        BY <1>10 DEF Call
    <2>2. rip \in Code /\ After \in Word
        BY <1>2, <1>10 DEF Call, Decoded
    <2>3. CASE target = Stub
        <3>1. DispatchStub /\ rsp' = rsp
            BY <2>1, <2>3 DEF CallTarget
        <3>2. PICK x \in SUBSET {a \in Backed : memory[a] # Data} : Overwrite(x)
            BY <3>1 DEF DispatchStub
        <3> QED
            BY <2>2, <3>1, <3>2, OverwriteStep DEF DispatchStub
    <2>4. CASE target # Stub /\ Push(target)
        BY <2>1, <2>2, <2>4, PushStep DEF CallTarget
    <2>5. CASE target # Stub /\ PushFault
        <3>1. /\ rsp' = Minus(rsp, WordBytes) /\ rip' = After /\ halted' = "StackFault"
              /\ UNCHANGED <<memory, frames, tidy>>
            BY <2>1, <2>5 DEF CallTarget, PushFault
        <3>2. WordBytes \in Pointer
            <4> DEFINE w == WordBytes
            <4>1. w \in Nat /\ w > 0 /\ StackTop \in Int /\ 0 <= StackTop
                BY FrameNumbers
            <4>2. StackTop + w + w <= AddressSpace
                BY FrameNumbers, <4>1
            <4> HIDE DEF w
            <4>3. w \in 0 .. AddressSpace - 1
                BY <1>2, <4>1, <4>2
            <4> QED
                BY <4>3, FrameNumbers DEF w
        <3>3. rsp' \in Pointer
            BY <1>5, <3>1, <3>2
        <3>4. CpuTypeOK'
            BY <3>1, <3>3, <2>2 DEF CpuInv, CpuTypeOK, HaltReason
        <3>5. FramesMatch'
            <4>1. tidy => frames # << >>
                BY DEF CpuInv, FramesMatch
            <4> QED
                BY <3>1, <4>1 DEF CpuInv, FramesMatch, Holds
        <3> QED
            BY <3>1, <3>4, <3>5 DEF CpuInv, FrameChain
    <2> QED
        BY <2>1, <2>3, <2>4, <2>5 DEF CallTarget
<1>11. CASE Ret
    <2> DEFINE popped == SubSeq(frames, 1, Len(frames) - 1)
               clean == tidy /\ Innermost.locals = 0
    <2>1. Keep(popped, clean)
        BY <1>11 DEF Ret
    <2>2. CASE tidy'
        <3>1. tidy /\ Innermost.locals = 0 /\ frames' = popped /\ tidy' = tidy
            BY <2>1, <2>2 DEF Keep, CpuInv, CpuTypeOK
        <3> QED
            BY <1>11, <3>1, RetStep
    <2>3. CASE ~tidy'
        <3>1. Read(rsp) \subseteq Word
            BY DEF Read
        <3>2. /\ rip' \in Word /\ halted' \in HaltReason \union {"no"} /\ memory' = memory
            BY <1>2, <1>11, <3>1 DEF Ret, HaltReason, Decoded
        <3>3. rsp' \in Pointer
            <4> DEFINE w == WordBytes
            <4>1. Accessible(WordAt(rsp)) /\ rsp' = Plus(rsp, w) /\ rsp \in Int
                BY <1>2, <1>11 DEF Ret
            <4>2. w \in Nat /\ w > 0 /\ 0 <= rsp /\ rsp + w + w <= AddressSpace
                BY <4>1, FrameNumbers
            <4> HIDE DEF w
            <4>3. rsp + w \in 0 .. AddressSpace - 1 /\ rsp + w < AddressSpace
                BY <1>2, <4>1, <4>2
            <4> QED
                BY <4>1, <4>3, FrameNumbers DEF Plus
        <3> HIDE DEF popped, clean
        <3> QED
            BY <1>4, <2>1, <2>3, <3>2, <3>3
    <2> QED
        BY <2>2, <2>3
<1> QED
    BY <1>3, <1>6, <1>7, <1>8, <1>9, <1>10, <1>11 DEF CpuNext

-----------------------------------------------------------------------------
\* For a program of any length and memory of any layout: as long as it gives back
\* its locals, moves rsp in no other way and leaves return addresses alone, every
\* ret returns to its call, the stubs that are run in place included, and the
\* last one ends the run with the stack empty, even if it grew out of its region.
THEOREM CallsNest == CpuSpec => []FramesMatch
<1>1. CpuInv => FramesMatch
    BY DEF CpuInv
<1> QED
    BY <1>1, InitCpu, NextCpu, PTL DEF CpuSpec

-----------------------------------------------------------------------------
(* Files, for any paths, any number of handles and any content.  HandlesFresh   *)
(* and the types are inductive together: what a write makes of a file is as     *)
(* long as the position it leaves, because no position lies behind the end.     *)

FilesInv == FilesTypeOK /\ HandlesFresh

HandleRecord == [open : BOOLEAN, path : Path, content : Content, pos : 0 .. MaxLen]

\* What content is: its length is bounded and its elements are octets.
LEMMA ContentShape ==
    /\ MaxLen \in Nat \ {0} /\ LastHandle \in Nat \ {0}
    /\ \A s \in Content : /\ s \in Seq(Octet) /\ Len(s) \in 0 .. MaxLen
                          /\ DOMAIN s = 1 .. Len(s)
                          /\ \A i \in 1 .. Len(s) : s[i] \in Octet
    /\ \A n \in 0 .. MaxLen : \A s \in [1 .. n -> Octet] : s \in Content /\ Len(s) = n
    /\ << >> \in Content /\ NoFile \notin Content
<1>1. MaxLen \in Nat \ {0} /\ LastHandle \in Nat \ {0}
    BY FilesAssumption
<1>2. ASSUME NEW n \in 0 .. MaxLen, NEW s \in [1 .. n -> Octet]
      PROVE  s \in Content /\ s \in Seq(Octet) /\ Len(s) = n /\ DOMAIN s = 1 .. n
    BY <1>1 DEF Content
<1>3. ASSUME NEW s \in Content
      PROVE  /\ s \in Seq(Octet) /\ Len(s) \in 0 .. MaxLen
             /\ DOMAIN s = 1 .. Len(s) /\ \A i \in 1 .. Len(s) : s[i] \in Octet
    <2>1. PICK n \in 0 .. MaxLen : s \in [1 .. n -> Octet]
        BY DEF Content
    <2> QED
        BY <1>1, <1>2, <2>1
<1>4. << >> \in Content
    <2>1. << >> \in [1 .. 0 -> Octet]
        OBVIOUS
    <2> QED
        BY <1>1, <2>1 DEF Content
<1> QED
    BY <1>1, <1>2, <1>3, <1>4, FilesAssumption

\* A write puts the data where the position is and leaves the rest: the content
\* is never shorter than before, and never than the new position.
LEMMA WrittenShape ==
    ASSUME FilesInv, NEW h \in Handle, handle[h].open, NEW data \in Content,
           handle[h].pos + Len(data) <= MaxLen
    PROVE  /\ Written(h, data) \in Content
           /\ handle[h].pos + Len(data) <= Len(Written(h, data))
<1> DEFINE old == handle[h].content  pos == handle[h].pos
           end == pos + Len(data)
           n == IF end > Len(old) THEN end ELSE Len(old)
<1>1. handle[h] \in HandleRecord /\ old \in Content /\ pos \in 0 .. MaxLen /\ pos <= Len(old)
    BY DEF FilesInv, FilesTypeOK, HandlesFresh, HandleRecord
<1>2. /\ Len(old) \in 0 .. MaxLen /\ Len(data) \in 0 .. MaxLen /\ MaxLen \in Nat
      /\ \A i \in 1 .. Len(old) : old[i] \in Octet
      /\ \A i \in 1 .. Len(data) : data[i] \in Octet
    BY <1>1, ContentShape
<1>3. n \in 0 .. MaxLen /\ end <= n /\ end \in Nat
    BY <1>1, <1>2
<1>4. ASSUME NEW i \in 1 .. n
      PROVE  (IF i > pos /\ i <= end THEN data[i - pos] ELSE old[i]) \in Octet
    <2>1. CASE i > pos /\ i <= end
        <3>1. i - pos \in 1 .. Len(data)
            BY <1>1, <1>2, <2>1
        <3> QED
            BY <1>2, <2>1, <3>1
    <2>2. CASE ~(i > pos /\ i <= end)
        <3>1. i \in 1 .. Len(old)
            BY <1>1, <1>2, <1>3, <2>2
        <3> QED
            BY <1>2, <2>2, <3>1
    <2> QED
        BY <2>1, <2>2
<1>5. Written(h, data) = [i \in 1 .. n |-> IF i > pos /\ i <= end THEN data[i - pos] ELSE old[i]]
    BY DEF Written
<1>6. Written(h, data) \in [1 .. n -> Octet]
    BY <1>4, <1>5
<1> HIDE DEF n, end
<1> QED
    BY <1>3, <1>6, ContentShape DEF end, pos

LEMMA InitFiles == FilesInit => FilesInv
<1> SUFFICES ASSUME FilesInit PROVE FilesInv
    OBVIOUS
<1>1. Closed \in HandleRecord /\ ~Closed.open
    BY ContentShape, FilesAssumption DEF Closed, HandleRecord
<1>2. FilesTypeOK
    BY <1>1, ContentShape DEF FilesInit, FilesTypeOK, HandleRecord
<1>3. HandlesFresh
    BY <1>1 DEF FilesInit, HandlesFresh
<1> QED
    BY <1>2, <1>3 DEF FilesInv

LEMMA NextFiles == FilesInv /\ [FilesNext]_fileVars => FilesInv'
<1> SUFFICES ASSUME FilesInv, [FilesNext]_fileVars PROVE FilesInv'
    OBVIOUS
<1>0. /\ FilesTypeOK /\ HandlesFresh /\ handle \in [Handle -> HandleRecord]
      /\ files \in [Path -> Content \union {NoFile}]
      /\ host \in [HostName -> Content \union {NoFile}]
    BY DEF FilesInv, FilesTypeOK, HandleRecord
<1>7. \A data \in Chunk : data \in Seq(Octet) /\ Len(data) \in Nat
    <2> SUFFICES ASSUME NEW data \in Chunk PROVE data \in Seq(Octet) /\ Len(data) \in Nat
        OBVIOUS
    <2>1. PICK k \in 1 .. 2 : data \in [1 .. k -> Octet]
        BY DEF Chunk
    <2>2. k \in Nat
        OBVIOUS
    <2> QED
        BY <2>1, <2>2
<1>1. ASSUME NEW p \in Path, CreateFileA(p) PROVE FilesInv'
    <2> DEFINE r == [open |-> TRUE, path |-> p, content |-> Current(p), pos |-> 0]
    <2>1. Current(p) \in Content /\ (files[p] # NoFile => Current(p) = files[p])
        BY <1>0, ContentShape DEF Current
    <2>2. nextHandle \in Handle /\ nextHandle' \in 1 .. LastHandle + 1 /\ r \in HandleRecord
        BY <1>0, <1>1, <2>1, ContentShape DEF CreateFileA, FilesTypeOK, Handle, HandleRecord
    <2>3. /\ handle' = [handle EXCEPT ![nextHandle] = r]
          /\ files' = [files EXCEPT ![p] = Current(p)] /\ UNCHANGED <<stdout, host, stale>>
        BY <1>1 DEF CreateFileA
    <2>4. FilesTypeOK'
        BY <1>0, <2>1, <2>2, <2>3 DEF FilesTypeOK, HandleRecord
    <2>5. ASSUME NEW h \in Handle, handle'[h].open
          PROVE  /\ h \notin stale' => handle'[h].content = files'[handle'[h].path]
                 /\ handle'[h].pos <= Len(handle'[h].content)
        <3>1. CASE h = nextHandle
            BY <1>0, <2>1, <2>2, <2>3, <3>1, ContentShape
        <3>2. CASE h # nextHandle
            <4>1. handle'[h] = handle[h] /\ handle[h] \in HandleRecord
                BY <1>0, <2>3, <3>2
            <4>2. handle[h].content # NoFile
                BY <4>1, ContentShape DEF HandleRecord
            <4>3. \A q \in Path : files[q] # NoFile => files'[q] = files[q]
                BY <1>0, <2>1, <2>3
            <4> QED
                BY <1>0, <2>3, <2>5, <4>1, <4>2, <4>3 DEF HandlesFresh, HandleRecord
        <3> QED
            BY <3>1, <3>2
    <2> QED
        BY <2>4, <2>5 DEF FilesInv, HandlesFresh
<1>2. ASSUME NEW h \in Handle, NEW data \in Chunk, WriteFile(h, data) PROVE FilesInv'
    <2> DEFINE p == handle[h].path  w == Written(h, data)  end == handle[h].pos + Len(data)
               r == [handle[h] EXCEPT !.content = w, !.pos = end]
    <2>1. handle[h].open /\ end <= MaxLen /\ handle[h] \in HandleRecord /\ p \in Path
        BY <1>0, <1>2 DEF WriteFile, HandleRecord
    <2>2. data \in Content
        <3>1. PICK k \in 1 .. 2 : data \in [1 .. k -> Octet]
            BY DEF Chunk
        <3>2. Len(data) = k /\ handle[h].pos \in Nat
            BY <2>1, <3>1 DEF HandleRecord
        <3>3. k \in 0 .. MaxLen
            BY <2>1, <3>1, <3>2, ContentShape
        <3> QED
            BY <3>1, <3>3, ContentShape
    <2>3. w \in Content /\ end <= Len(w)
        BY <2>1, <2>2, WrittenShape
    <2>4. r \in HandleRecord /\ end \in 0 .. MaxLen
        <3>1. Len(data) \in Nat /\ handle[h].pos \in 0 .. MaxLen /\ MaxLen \in Nat
            BY <1>7, <2>1, ContentShape DEF HandleRecord
        <3>2. end \in 0 .. MaxLen
            BY <2>1, <3>1
        <3> HIDE DEF end, w
        <3> QED
            BY <2>1, <2>3, <3>2 DEF HandleRecord
    <2>5. /\ handle' = [handle EXCEPT ![h] = r]
          /\ files' = [files EXCEPT ![p] = w]
          /\ host' = [host EXCEPT ![NameOf[p]] = data]
          /\ stale' = (stale \ {h}) \union Others(h) /\ UNCHANGED <<nextHandle, stdout>>
        BY <1>0, <1>2 DEF WriteFile
    <2>6. r.open = handle[h].open /\ r.path = p /\ r.content = w /\ r.pos = end
        BY <2>1 DEF HandleRecord
    <2> HIDE DEF r, w, end
    <2>7. FilesTypeOK'
        <3>1. handle' \in [Handle -> HandleRecord] /\ files' \in [Path -> Content \union {NoFile}]
            BY <1>0, <2>1, <2>3, <2>4, <2>5
        <3>2. host' \in [HostName -> Content \union {NoFile}] /\ stale' \subseteq Handle
            BY <1>0, <2>2, <2>5 DEF FilesTypeOK, Others
        <3> QED
            BY <1>0, <2>5, <3>1, <3>2 DEF FilesTypeOK, HandleRecord
    <2>8. ASSUME NEW g \in Handle, handle'[g].open
          PROVE  /\ g \notin stale' => handle'[g].content = files'[handle'[g].path]
                 /\ handle'[g].pos <= Len(handle'[g].content)
        <3>1. CASE g = h
            BY <1>0, <2>1, <2>3, <2>5, <2>6, <3>1
        <3>2. CASE g # h
            <4>1. handle'[g] = handle[g] /\ handle[g].open /\ handle[g].path \in Path
                BY <1>0, <2>5, <2>8, <3>2 DEF HandleRecord
            <4>2. g \notin stale' => g \notin stale /\ handle[g].path # p
                BY <2>5, <3>2, <4>1 DEF Others
            <4>3. \A q \in Path \ {p} : files'[q] = files[q]
                BY <1>0, <2>5
            <4> QED
                BY <1>0, <4>1, <4>2, <4>3 DEF HandlesFresh
        <3> QED
            BY <3>1, <3>2
    <2> QED
        BY <2>7, <2>8 DEF FilesInv, HandlesFresh
<1>3. ASSUME NEW h \in Handle, NEW max \in 1 .. 2, ReadFile(h, max) PROVE FilesInv'
    <2> DEFINE left == Len(handle[h].content) - handle[h].pos
               pos == handle[h].pos + (IF max < left THEN max ELSE left)
    <2>1. handle[h].open /\ handle[h] \in HandleRecord
        BY <1>0, <1>3 DEF ReadFile
    <2>2. handle[h].pos <= Len(handle[h].content)
        BY <1>0, <2>1 DEF HandlesFresh
    <2>3. pos \in 0 .. MaxLen /\ pos <= Len(handle[h].content)
        BY <2>1, <2>2, ContentShape DEF HandleRecord
    <2>4. /\ handle' = [handle EXCEPT ![h] = [handle[h] EXCEPT !.pos = pos]]
          /\ UNCHANGED <<files, nextHandle, stdout, host, stale>>
        BY <1>0, <1>3 DEF ReadFile
    <2> HIDE DEF pos
    <2>5. [handle[h] EXCEPT !.pos = pos] \in HandleRecord
        BY <2>1, <2>3 DEF HandleRecord
    <2>6. FilesTypeOK'
        BY <1>0, <2>4, <2>5 DEF FilesTypeOK, HandleRecord
    <2>7. HandlesFresh'
        <3>1. ASSUME NEW g \in Handle, g # h PROVE handle'[g] = handle[g]
            BY <1>0, <2>4, <3>1
        <3>2. /\ handle'[h].content = handle[h].content /\ handle'[h].path = handle[h].path
              /\ handle'[h].pos = pos
            BY <1>0, <2>1, <2>4 DEF HandleRecord
        <3> QED
            BY <1>0, <2>1, <2>3, <2>4, <3>1, <3>2 DEF HandlesFresh
    <2> QED
        BY <2>6, <2>7 DEF FilesInv
<1>4. ASSUME NEW h \in Handle, CloseHandle(h) PROVE FilesInv'
    <2>1. Closed \in HandleRecord /\ ~Closed.open
        BY ContentShape, FilesAssumption DEF Closed, HandleRecord
    <2>2. /\ handle' = [handle EXCEPT ![h] = Closed] /\ stale' = stale \ {h}
          /\ UNCHANGED <<files, nextHandle, stdout, host>>
        BY <1>4 DEF CloseHandle
    <2>3. FilesTypeOK'
        BY <1>0, <2>1, <2>2 DEF FilesTypeOK, HandleRecord
    <2>4. HandlesFresh'
        BY <1>0, <2>1, <2>2 DEF HandlesFresh
    <2> QED
        BY <2>3, <2>4 DEF FilesInv
<1>5. ASSUME NEW data \in Chunk, WriteStdout(data) PROVE FilesInv'
    <2>1. stdout \o data \in Content
        <3>1. stdout \in Seq(Octet) /\ Len(stdout) \in Nat
            BY <1>0, ContentShape DEF FilesTypeOK
        <3>2. data \in Seq(Octet) /\ Len(data) \in Nat
            BY <1>7
        <3>3. stdout \o data \in [1 .. Len(stdout) + Len(data) -> Octet]
            <4>1. stdout \o data \in Seq(Octet) /\ Len(stdout \o data) = Len(stdout) + Len(data)
                BY <3>1, <3>2
            <4> QED
                BY <4>1, LenProperties
        <3>4. Len(stdout) + Len(data) \in 0 .. MaxLen
            BY <1>5, <3>1, <3>2, ContentShape DEF WriteStdout
        <3> QED
            BY <3>3, <3>4, ContentShape
    <2>2. FilesTypeOK'
        BY <1>0, <1>5, <2>1 DEF WriteStdout, FilesTypeOK
    <2>3. HandlesFresh'
        BY <1>0, <1>5 DEF WriteStdout, HandlesFresh
    <2> QED
        BY <2>2, <2>3 DEF FilesInv
<1>6. CASE UNCHANGED fileVars
    BY <1>0, <1>6 DEF fileVars, FilesInv, FilesTypeOK, HandlesFresh
<1> QED
    BY <1>1, <1>2, <1>3, <1>4, <1>5, <1>6 DEF FilesNext

\* Whatever number of handles a program opens, reads, writes and closes on its
\* files, a handle reads what the file holds unless another handle wrote the
\* file since, and no position lies behind the end.
THEOREM HandlesStayFresh == FilesSpec => []HandlesFresh
<1>1. FilesInv => HandlesFresh
    BY DEF FilesInv
<1> QED
    BY <1>1, InitFiles, NextFiles, PTL DEF FilesSpec

-----------------------------------------------------------------------------
\* Windows are numbered in order, so that a number not given out yet has left no
\* trace, and a WM_DESTROY names a window.
Numbered ==
    /\ \A w \in Window : w >= nextWindow =>
           /\ window[w] = "absent" /\ w \notin gone
           /\ \A i \in DOMAIN queue : queue[i].hwnd # w
    /\ \A i \in DOMAIN queue : queue[i].message = "WM_DESTROY" => queue[i].hwnd \in Window

WindowsInv == WindowsTypeOK /\ NothingAfterDestroy /\ Numbered

\* What NothingAfterDestroy says of the queue, message by message, and of the
\* windows that are there.
EndsLast(w) ==
    /\ w \in gone => \A i \in 1 .. Len(queue) : queue[i].hwnd # w
    /\ \A i \in 1 .. Len(queue) : \A j \in 1 .. Len(queue) :
           (queue[i].hwnd = w /\ queue[i].message = "WM_DESTROY" /\ i < j) => queue[j].hwnd # w

Untouched(w) ==
    /\ w \notin gone
    /\ \A i \in 1 .. Len(queue) : ~ (queue[i].hwnd = w /\ queue[i].message = "WM_DESTROY")

LEMMA MessageParts ==
    ASSUME NEW q \in Seq(QueuedMessage)
    PROVE  /\ Len(q) \in Nat /\ DOMAIN q = 1 .. Len(q)
           /\ \A i \in 1 .. Len(q) : q[i] \in QueuedMessage
           /\ \A i \in 1 .. Len(q) : \A w, m :
                  q[i] = [hwnd |-> w, message |-> m] <=> q[i].hwnd = w /\ q[i].message = m
<1>1. Len(q) \in Nat /\ DOMAIN q = 1 .. Len(q) /\ \A i \in 1 .. Len(q) : q[i] \in QueuedMessage
    BY ElementOfSeq
<1>2. \A e \in QueuedMessage : \A w, m :
          e = [hwnd |-> w, message |-> m] <=> e.hwnd = w /\ e.message = m
    <2> SUFFICES ASSUME NEW e \in QueuedMessage, NEW w, NEW m
                 PROVE  e = [hwnd |-> w, message |-> m] <=> e.hwnd = w /\ e.message = m
        OBVIOUS
    <2>1. e = [hwnd |-> e.hwnd, message |-> e.message]
        BY DEF QueuedMessage
    <2> QED
        BY <2>1
<1> QED
    BY <1>1, <1>2

Ordinary == \A w \in Window : EndsLast(w) /\ (window[w] # "absent" => Untouched(w))

Queued == queue \in Seq(QueuedMessage)

LEMMA MessageByMessage == Queued => (NothingAfterDestroy <=> Ordinary)
<1> SUFFICES ASSUME queue \in Seq(QueuedMessage) PROVE NothingAfterDestroy <=> Ordinary
    BY DEF Queued
<1>1. Len(queue) \in Nat /\ DOMAIN queue = 1 .. Len(queue)
    BY MessageParts
<1>2. ASSUME NEW w, NEW i
      PROVE  i \in Of(w, "WM_DESTROY") <=>
                 i \in 1 .. Len(queue) /\ queue[i].hwnd = w /\ queue[i].message = "WM_DESTROY"
    BY <1>1, MessageParts DEF Of
<1>3. \A i \in 1 .. Len(queue) : \A j :
          j \in i + 1 .. Len(queue) <=> j \in 1 .. Len(queue) /\ i < j
    BY <1>1
<1>4. ASSUME NEW w \in Window
      PROVE  /\ (\A i \in Of(w, "WM_DESTROY") : \A j \in i + 1 .. Len(queue) : queue[j].hwnd # w)
                <=> \A i \in 1 .. Len(queue) : \A j \in 1 .. Len(queue) :
                        (queue[i].hwnd = w /\ queue[i].message = "WM_DESTROY" /\ i < j)
                            => queue[j].hwnd # w
             /\ Of(w, "WM_DESTROY") = {}
                <=> \A i \in 1 .. Len(queue) :
                        ~ (queue[i].hwnd = w /\ queue[i].message = "WM_DESTROY")
    BY <1>2, <1>3
<1> QED
    BY <1>1, <1>4 DEF NothingAfterDestroy, Ordinary, EndsLast, Untouched

LEMMA MessageByMessageNext == Queued' => (NothingAfterDestroy' <=> Ordinary')
  BY MessageByMessage, PTL

\* A message for w joins the queue.
LEMMA Posted ==
    ASSUME queue \in Seq(QueuedMessage), NEW w \in Window \union {NoWindow},
           NEW m \in {"WM_CREATE", "WM_PAINT", "WM_DESTROY", "WM_QUIT"}, Post(w, m)
    PROVE  /\ queue' \in Seq(QueuedMessage) /\ Len(queue') <= MaxQueue
           /\ Len(queue) \in Nat /\ Len(queue') = Len(queue) + 1
           /\ \A i \in 1 .. Len(queue) : queue'[i] = queue[i]
           /\ queue'[Len(queue) + 1].hwnd = w /\ queue'[Len(queue) + 1].message = m
<1>1. [hwnd |-> w, message |-> m] \in QueuedMessage
    BY DEF QueuedMessage
<1>2. Len(queue) \in Nat /\ MaxQueue \in Nat
    BY WindowsAssumption
<1>3. queue' = Append(queue, [hwnd |-> w, message |-> m]) /\ Len(queue) < MaxQueue
    BY DEF Post
<1> QED
    BY <1>1, <1>2, <1>3, AppendProperties

\* A message may join the queue for a window of which no WM_DESTROY was posted:
\* every window's messages end as they did, and a WM_DESTROY is new for w only.
LEMMA PostKeeps ==
    ASSUME queue \in Seq(QueuedMessage), NEW w \in Window \union {NoWindow},
           NEW m \in {"WM_CREATE", "WM_PAINT", "WM_DESTROY", "WM_QUIT"}, Post(w, m),
           gone' = gone, w \in Window => Untouched(w), NEW v \in Window, EndsLast(v)
    PROVE  /\ EndsLast(v)'
           /\ Untouched(v) /\ (v = w => m # "WM_DESTROY") => Untouched(v)'
<1>1. /\ Len(queue) \in Nat /\ Len(queue') = Len(queue) + 1
      /\ \A i \in 1 .. Len(queue) : queue'[i] = queue[i]
      /\ queue'[Len(queue) + 1].hwnd = w /\ queue'[Len(queue) + 1].message = m
    BY Posted
<1>2. \A i \in 1 .. Len(queue') : i \in 1 .. Len(queue) \/ i = Len(queue) + 1
    BY <1>1
<1>3. v = w => Untouched(v)
    OBVIOUS
<1>4. EndsLast(v)'
    <2>1. ASSUME v \in gone, NEW i \in 1 .. Len(queue') PROVE queue'[i].hwnd # v
        BY <1>1, <1>2, <1>3, <2>1 DEF EndsLast, Untouched
    <2>2. ASSUME NEW i \in 1 .. Len(queue'), NEW j \in 1 .. Len(queue'),
                 queue'[i].hwnd = v, queue'[i].message = "WM_DESTROY", i < j
          PROVE  queue'[j].hwnd # v
        <3>1. i \in 1 .. Len(queue) /\ queue'[i] = queue[i]
            BY <1>1, <2>2
        <3>2. ~Untouched(v)
            BY <2>2, <3>1 DEF Untouched
        <3>3. CASE j \in 1 .. Len(queue)
            BY <1>1, <2>2, <3>1, <3>3 DEF EndsLast
        <3>4. CASE j = Len(queue) + 1
            BY <1>1, <1>3, <3>2, <3>4
        <3> QED
            BY <1>2, <3>3, <3>4
    <2> QED
        BY <2>1, <2>2 DEF EndsLast
<1>5. ASSUME Untouched(v), v = w => m # "WM_DESTROY" PROVE Untouched(v)'
    BY <1>1, <1>2, <1>5 DEF Untouched
<1> QED
    BY <1>4, <1>5

\* The messages of windows that have a number stay so.
LEMMA PostNumbered ==
    ASSUME WindowsInv, NEW w \in Window \union {NoWindow}, w < nextWindow',
           NEW m \in {"WM_CREATE", "WM_PAINT", "WM_DESTROY", "WM_QUIT"}, Post(w, m),
           gone' = gone, m = "WM_DESTROY" => w \in Window,
           nextWindow' \in Nat, nextWindow <= nextWindow',
           \A v \in Window : v >= nextWindow' => window'[v] = window[v]
    PROVE  Numbered'
<1>1. queue \in Seq(QueuedMessage) /\ nextWindow \in Nat
    BY WindowsAssumption DEF WindowsInv, WindowsTypeOK
<1>2. /\ queue' \in Seq(QueuedMessage) /\ Len(queue) \in Nat /\ Len(queue') = Len(queue) + 1
      /\ \A i \in 1 .. Len(queue) : queue'[i] = queue[i]
      /\ queue'[Len(queue) + 1].hwnd = w /\ queue'[Len(queue) + 1].message = m
    BY <1>1, Posted
<1>3. DOMAIN queue' = 1 .. Len(queue) + 1 /\ DOMAIN queue = 1 .. Len(queue)
    BY <1>1, <1>2, MessageParts
<1>4. \A i \in DOMAIN queue' : (i \in DOMAIN queue /\ queue'[i] = queue[i]) \/ i = Len(queue) + 1
    BY <1>2, <1>3
<1>5. ASSUME NEW v \in Window, v >= nextWindow'
      PROVE  /\ window'[v] = "absent" /\ v \notin gone'
             /\ \A i \in DOMAIN queue' : queue'[i].hwnd # v
    <2>1. v \in Nat /\ w \in Nat /\ v >= nextWindow /\ v # w
        BY <1>1, <1>5, WindowsAssumption DEF Window, NoWindow
    <2> QED
        BY <1>2, <1>4, <1>5, <2>1 DEF WindowsInv, Numbered
<1>6. \A i \in DOMAIN queue' : queue'[i].message = "WM_DESTROY" => queue'[i].hwnd \in Window
    BY <1>2, <1>4 DEF WindowsInv, Numbered
<1> QED
    BY <1>5, <1>6 DEF Numbered

\* What is shown of a window stays in its type.
LEMMA GuiTypes ==
    LET G == [hwnd : 0 .. LastWindow, visible : BOOLEAN, closed : BOOLEAN, frames : 0 .. MaxFrames]
    IN  \A g \in G : Presented(g) \in G /\ Evidence(g) \in G
<1>1. MaxFrames \in Nat \ {0}
    BY WindowsAssumption
<1> QED
    BY <1>1 DEF Presented, Evidence

LEMMA InitWindows == WindowsInit => WindowsInv
<1> SUFFICES ASSUME WindowsInit PROVE WindowsInv
    OBVIOUS
<1>1. queue = << >> /\ queue \in Seq(QueuedMessage) /\ Len(queue) = 0 /\ DOMAIN queue = {}
    BY DEF WindowsInit
<1>2. WindowsTypeOK
    BY <1>1, WindowsAssumption DEF WindowsInit, WindowsTypeOK, NoWindow
<1>3. NothingAfterDestroy
    BY <1>1, MessageByMessage DEF WindowsInit, Queued, Ordinary, EndsLast, Untouched
<1>4. Numbered
    BY <1>1 DEF WindowsInit, Numbered
<1> QED
    BY <1>2, <1>3, <1>4 DEF WindowsInv

\* A step that leaves the queue, what was taken from it and the windows alone.
LEMMA SameMessages ==
    ASSUME WindowsInv, UNCHANGED <<queue, gone>>,
           nextWindow' \in 1 .. LastWindow + 1, nextWindow <= nextWindow',
           window' \in [Window -> {"absent", "hidden", "visible"}],
           \A v \in Window : (v >= nextWindow' \/ window[v] = "absent") => window'[v] = window[v]
    PROVE  NothingAfterDestroy' /\ Numbered'
<1>1. queue \in Seq(QueuedMessage) /\ nextWindow \in Nat
    BY WindowsAssumption DEF WindowsInv, WindowsTypeOK
<1>2. \A v \in Window : EndsLast(v) /\ (window[v] # "absent" => Untouched(v))
    BY <1>1, MessageByMessage DEF WindowsInv, Queued, Ordinary
<1>3. queue' \in Seq(QueuedMessage)
    BY <1>1
<1>4. NothingAfterDestroy'
    <2>1. \A v \in Window : EndsLast(v)' /\ (window'[v] # "absent" => Untouched(v)')
        BY <1>2 DEF EndsLast, Untouched
    <2> QED
        BY <1>3, <2>1, MessageByMessageNext DEF Queued, Ordinary
<1>5. Numbered'
    BY <1>1, WindowsAssumption DEF WindowsInv, Numbered, Window
<1> QED
    BY <1>4, <1>5

\* A step that posts a message m for w, a window of which no WM_DESTROY was
\* posted, and changes no other window.
LEMMA PostStep ==
    ASSUME WindowsInv, NEW w \in Window \union {NoWindow},
           NEW m \in {"WM_CREATE", "WM_PAINT", "WM_DESTROY", "WM_QUIT"}, Post(w, m), gone' = gone,
           nextWindow' \in 1 .. LastWindow + 1, nextWindow <= nextWindow', w < nextWindow',
           w \in Window => Untouched(w),
           m = "WM_DESTROY" => w \in Window /\ window'[w] = "absent",
           \A v \in Window \ {w} : window'[v] = window[v]
    PROVE  /\ queue' \in Seq(QueuedMessage) /\ Len(queue') <= MaxQueue
           /\ NothingAfterDestroy' /\ Numbered'
<1>1. queue \in Seq(QueuedMessage) /\ nextWindow \in Nat /\ nextWindow' \in Nat
    BY WindowsAssumption DEF WindowsInv, WindowsTypeOK
<1>2. queue' \in Seq(QueuedMessage) /\ Len(queue') <= MaxQueue
    BY <1>1, Posted
<1>3. Numbered'
    <2>1. \A v \in Window : v >= nextWindow' => window'[v] = window[v]
        BY <1>1, WindowsAssumption DEF Window, NoWindow
    <2> QED
        BY <1>1, <2>1, PostNumbered
<1>4. \A v \in Window : EndsLast(v) /\ (window[v] # "absent" => Untouched(v))
    BY <1>1, MessageByMessage DEF WindowsInv, Queued, Ordinary
<1>5. ASSUME NEW v \in Window PROVE EndsLast(v)' /\ (window'[v] # "absent" => Untouched(v)')
    <2>1. /\ EndsLast(v)'
          /\ Untouched(v) /\ (v = w => m # "WM_DESTROY") => Untouched(v)'
        BY <1>1, <1>4, PostKeeps
    <2>2. CASE v = w
        BY <2>1, <2>2
    <2>3. CASE v # w
        BY <1>4, <2>1, <2>3
    <2> QED
        BY <2>2, <2>3
<1> QED
    BY <1>2, <1>3, <1>5, MessageByMessageNext DEF Queued, Ordinary

\* Taking the oldest message leaves the order of the others.
LEMMA TakeStep ==
    ASSUME WindowsInv, GetMessageA
    PROVE  /\ queue' \in Seq(QueuedMessage) /\ Len(queue') <= MaxQueue /\ gone' \subseteq Window
           /\ NothingAfterDestroy' /\ Numbered'
<1> DEFINE first == queue[1]
<1>1. queue \in Seq(QueuedMessage) /\ Len(queue) \in Nat /\ Len(queue) <= MaxQueue /\ gone \subseteq Window
    BY DEF WindowsInv, WindowsTypeOK
<1>2. /\ queue # << >> /\ queue' = Tail(queue) /\ UNCHANGED <<window, nextWindow>>
      /\ gone' = IF first.message = "WM_DESTROY" THEN gone \union {first.hwnd} ELSE gone
    <2>1. Head(queue) = first
        BY <1>1
    <2> QED
        BY <2>1 DEF GetMessageA
<1>3. /\ queue' \in Seq(QueuedMessage) /\ Len(queue') = Len(queue) - 1 /\ Len(queue) # 0
      /\ \A i \in 1 .. Len(queue') : queue'[i] = queue[i + 1]
    BY <1>1, <1>2, HeadTailProperties, EmptySeq
<1>4. /\ Len(queue') \in Nat /\ 1 \in 1 .. Len(queue)
      /\ \A i \in 1 .. Len(queue') : i + 1 \in 1 .. Len(queue) /\ i \in Nat
      /\ DOMAIN queue = 1 .. Len(queue) /\ DOMAIN queue' = 1 .. Len(queue')
    BY <1>1, <1>3, MessageParts
<1>5. first.message = "WM_DESTROY" => first.hwnd \in Window
    BY <1>4 DEF WindowsInv, Numbered
<1>6. \A v \in Window : EndsLast(v) /\ (window[v] # "absent" => Untouched(v))
    BY <1>1, MessageByMessage DEF WindowsInv, Queued, Ordinary
<1>7. Numbered'
    BY <1>2, <1>3, <1>4 DEF WindowsInv, Numbered
<1>8. ASSUME NEW v \in Window PROVE EndsLast(v)' /\ (window'[v] # "absent" => Untouched(v)')
    <2>1. ASSUME v \in gone', NEW i \in 1 .. Len(queue') PROVE queue'[i].hwnd # v
        <3>1. queue'[i] = queue[i + 1] /\ i + 1 \in 1 .. Len(queue) /\ 1 < i + 1
            BY <1>3, <1>4
        <3>2. CASE v \in gone
            BY <1>6, <3>1, <3>2 DEF EndsLast
        <3>3. CASE first.message = "WM_DESTROY" /\ first.hwnd = v
            BY <1>4, <1>6, <3>1, <3>3 DEF EndsLast
        <3> QED
            BY <1>2, <2>1, <3>2, <3>3
    <2>2. ASSUME NEW i \in 1 .. Len(queue'), NEW j \in 1 .. Len(queue'),
                 queue'[i].hwnd = v, queue'[i].message = "WM_DESTROY", i < j
          PROVE  queue'[j].hwnd # v
        <3>1. /\ queue'[i] = queue[i + 1] /\ i + 1 \in 1 .. Len(queue)
              /\ queue'[j] = queue[j + 1] /\ j + 1 \in 1 .. Len(queue) /\ i + 1 < j + 1
            BY <1>3, <1>4, <2>2
        <3> QED
            BY <1>6, <2>2, <3>1 DEF EndsLast
    <2>3. ASSUME window'[v] # "absent" PROVE Untouched(v)'
        <3>1. Untouched(v)
            BY <1>2, <1>6, <2>3
        <3>2. v \notin gone'
            BY <1>2, <1>4, <3>1 DEF Untouched
        <3> QED
            BY <1>3, <1>4, <3>1, <3>2 DEF Untouched
    <2> QED
        BY <2>1, <2>2, <2>3 DEF EndsLast
<1> QED
    <2>1. NothingAfterDestroy'
        BY <1>3, <1>8, MessageByMessageNext DEF Queued, Ordinary
    <2>2. gone' \subseteq Window
        BY <1>1, <1>2, <1>5
    <2>3. Len(queue') <= MaxQueue
        BY <1>1, <1>3, WindowsAssumption
    <2> QED
        BY <1>3, <1>7, <2>1, <2>2, <2>3

LEMMA NextWindows == WindowsInv /\ [WindowsNext]_windowVars => WindowsInv'
<1> SUFFICES ASSUME WindowsInv, [WindowsNext]_windowVars PROVE WindowsInv'
    OBVIOUS
<1> DEFINE Gui == [hwnd : 0 .. LastWindow, visible : BOOLEAN, closed : BOOLEAN, frames : 0 .. MaxFrames]
<1>0. /\ WindowsTypeOK /\ gui \in Gui /\ queue \in Seq(QueuedMessage) /\ NoWindow \in 0 .. LastWindow
      /\ \A g \in Gui : Presented(g) \in Gui /\ Evidence(g) \in Gui
      /\ {LastWindow, LastDc, MaxQueue} \subseteq Nat \ {0} /\ nextWindow \in 1 .. LastWindow + 1
    BY GuiTypes, WindowsAssumption DEF WindowsInv, WindowsTypeOK, NoWindow
<1>1. \A v \in Window : v \in 1 .. LastWindow /\ (window[v] # "absent" => Untouched(v) /\ v < nextWindow)
    BY <1>0, MessageByMessage DEF WindowsInv, Queued, Ordinary, Numbered, Window
<1>2. nextWindow <= LastWindow => nextWindow \in Window /\ Untouched(nextWindow)
    <2> SUFFICES ASSUME nextWindow <= LastWindow PROVE nextWindow \in Window /\ Untouched(nextWindow)
        OBVIOUS
    <2>1. nextWindow \in Window /\ nextWindow >= nextWindow
        BY <1>0 DEF Window
    <2>2. DOMAIN queue = 1 .. Len(queue)
        BY <1>0, MessageParts
    <2> QED
        BY <2>1, <2>2 DEF WindowsInv, Numbered, Untouched
<1> HIDE DEF Gui
<1>3. ASSUME UNCHANGED <<queue, gone, nextWindow>>, gui' \in Gui,
             classes' \subseteq Class, contexts' \subseteq Dc, sized' \subseteq Dc,
             nextDc' \in 1 .. LastDc + 1, window' \in [Window -> {"absent", "hidden", "visible"}],
             \A v \in Window : window[v] = "absent" => window'[v] = "absent"
      PROVE  WindowsInv'
    <2>1. \A v \in Window : v >= nextWindow' => window[v] = "absent"
        BY <1>3 DEF WindowsInv, Numbered
    <2>2. NothingAfterDestroy' /\ Numbered'
        BY <1>0, <1>3, <2>1, SameMessages
    <2> QED
        BY <1>0, <1>3, <2>2 DEF WindowsInv, WindowsTypeOK, Gui
<1>4. ASSUME NEW w \in Window \union {NoWindow}, NEW m \in {"WM_CREATE", "WM_PAINT", "WM_DESTROY", "WM_QUIT"},
             Post(w, m), UNCHANGED <<classes, gone, contexts, sized, nextDc>>, gui' \in Gui,
             window' \in [Window -> {"absent", "hidden", "visible"}],
             nextWindow' \in 1 .. LastWindow + 1, nextWindow <= nextWindow', w < nextWindow',
             w \in Window => Untouched(w), m = "WM_DESTROY" => w \in Window /\ window'[w] = "absent",
             \A v \in Window \ {w} : window'[v] = window[v]
      PROVE  WindowsInv'
    <2>1. /\ queue' \in Seq(QueuedMessage) /\ Len(queue') <= MaxQueue
          /\ NothingAfterDestroy' /\ Numbered'
        BY <1>4, PostStep
    <2> QED
        BY <1>0, <1>4, <2>1 DEF WindowsInv, WindowsTypeOK, Gui
<1>5. ASSUME NEW c \in Class, RegisterClassA(c) PROVE WindowsInv'
    BY <1>0, <1>3, <1>5 DEF RegisterClassA, dcVars, WindowsTypeOK
<1>6. ASSUME NEW c \in Class, CreateWindowExA(c) PROVE WindowsInv'
    <2>1. /\ Post(nextWindow, "WM_CREATE") /\ nextWindow \in Window /\ nextWindow' = nextWindow + 1
          /\ window' = [window EXCEPT ![nextWindow] = "hidden"] /\ Untouched(nextWindow)
          /\ gui' = [gui EXCEPT !.hwnd = nextWindow]
          /\ UNCHANGED <<classes, gone, contexts, sized, nextDc>>
        BY <1>2, <1>6 DEF CreateWindowExA, dcVars
    <2>2. gui' \in Gui
        BY <1>0, <1>1, <2>1 DEF Gui
    <2>3. window' \in [Window -> {"absent", "hidden", "visible"}] /\ nextWindow' \in 1 .. LastWindow + 1
        BY <1>0, <1>1, <2>1 DEF WindowsTypeOK
    <2> QED
        BY SMTT(30), <1>0, <1>4, <2>1, <2>2, <2>3 DEF WindowsTypeOK
<1>7. ASSUME NEW w \in Window, Show(w) PROVE WindowsInv'
    <2>1. [gui EXCEPT !.visible = TRUE, !.hwnd = Named(w)] \in Gui
        <3>1. Named(w) \in 0 .. LastWindow
            BY <1>0, <1>1 DEF Gui, Named
        <3> QED
            BY <1>0, <3>1 DEF Gui
    <2>2. gui' \in Gui
        BY <1>0, <1>7, <2>1 DEF Show
    <2> QED
        BY <1>0, <1>1, <1>4, <1>7, <2>2 DEF Show, dcVars, WindowsTypeOK
<1>8. ASSUME NEW w \in Window, Hide(w) \/ ShowNothing(w) PROVE WindowsInv'
    <2>1. gui' \in Gui
        <3>1. Named(w) \in 0 .. LastWindow
            BY <1>0, <1>1 DEF Gui, Named
        <3>2. gui' = [gui EXCEPT !.visible = FALSE, !.hwnd = Named(w)]
            BY <1>8 DEF Hide, ShowNothing
        <3> QED
            BY <1>0, <3>1, <3>2 DEF Gui
    <2> QED
        BY <1>0, <1>3, <1>8, <2>1 DEF Hide, ShowNothing, dcVars, WindowsTypeOK
<1>9. ASSUME NEW w \in Window, UpdateWindow(w) PROVE WindowsInv'
    BY <1>0, <1>1, <1>4, <1>9 DEF UpdateWindow, dcVars, WindowsTypeOK
<1>10. ASSUME NEW w \in Window, DestroyWindow(w) PROVE WindowsInv'
    <2>1. [gui EXCEPT !.visible = FALSE, !.closed = TRUE] \in Gui
        BY <1>0 DEF Gui
    <2>2. gui' \in Gui
        BY <1>0, <1>10, <2>1 DEF DestroyWindow
    <2> QED
        BY SMTT(30), <1>0, <1>1, <1>4, <1>10, <2>2 DEF DestroyWindow, dcVars, WindowsTypeOK
<1>11. ASSUME GetMessageA PROVE WindowsInv'
    BY <1>0, <1>11, TakeStep DEF GetMessageA, dcVars, WindowsInv, WindowsTypeOK
<1>12. ASSUME DispatchMessageA \/ BitBlt PROVE WindowsInv'
    BY <1>0, <1>3, <1>12 DEF DispatchMessageA, BitBlt, dcVars, WindowsTypeOK
<1>13. ASSUME PostQuitMessage PROVE WindowsInv'
    <2>1. NoWindow \notin Window /\ NoWindow < nextWindow
        BY <1>0 DEF Window, NoWindow
    <2> QED
        BY <1>0, <1>4, <1>13, <2>1 DEF PostQuitMessage, dcVars, WindowsTypeOK
<1>14. ASSUME GetDC \/ \E d \in Dc : DeleteDC(d) PROVE WindowsInv'
    <2>1. /\ contexts \subseteq Dc /\ sized \subseteq Dc /\ nextDc \in 1 .. LastDc + 1
          /\ classes \subseteq Class /\ window \in [Window -> {"absent", "hidden", "visible"}]
        BY <1>0 DEF WindowsTypeOK
    <2>2. CASE GetDC
        <3>1. nextDc \in Dc /\ nextDc' \in 1 .. LastDc + 1
            BY <1>0, <2>1, <2>2 DEF GetDC, Dc
        <3> QED
            BY <1>0, <1>3, <2>1, <2>2, <3>1 DEF GetDC
    <2>3. ASSUME NEW d \in Dc, DeleteDC(d) PROVE WindowsInv'
        BY <1>0, <1>3, <2>1, <2>3 DEF DeleteDC
    <2> QED
        BY <1>14, <2>2, <2>3
<1>15. CASE UNCHANGED windowVars
    BY <1>0, <1>3, <1>15 DEF windowVars, WindowsTypeOK
<1> QED
    BY <1>5, <1>6, <1>7, <1>8, <1>9, <1>10, <1>11, <1>12, <1>13, <1>14, <1>15 DEF WindowsNext

\* For any number of windows, and any length of the message queue: the messages
\* of a window end with its WM_DESTROY, in the queue and in the order they are
\* taken, and a window that is there has none.
THEOREM WindowsEndOnce == WindowsSpec => []NothingAfterDestroy
<1>1. WindowsInv => NothingAfterDestroy
    BY DEF WindowsInv
<1> QED
    BY <1>1, InitWindows, NextWindows, PTL DEF WindowsSpec

-----------------------------------------------------------------------------
\* Regions lie one behind the other, in the order they were allocated and below
\* next_base, and next_base cannot have wrapped.
Laid ==
    /\ Len(regions) <= MaxRegions /\ nextBase <= FirstBase + Len(regions) * MaxBytes
    /\ \A i \in DOMAIN regions : regions[i].base + regions[i].size <= nextBase
    /\ \A i \in DOMAIN regions : \A j \in DOMAIN regions :
           i < j => regions[i].base + regions[i].size <= regions[j].base
    /\ \A a \in written : a < nextBase

\* What a region holds is what was written at its addresses, or nothing.
Held ==
    \A i \in DOMAIN regions :
        /\ regions[i].committed =>
               regions[i].data = {a - regions[i].base : a \in written \intersect Extent(i)}
        /\ ~regions[i].committed => regions[i].data = {}

\* The region free found for a base is the one it finds again.
FreedFirst == \A base \in freed : \E i \in AtBase(base) : ~regions[i].committed

MemoryInv == MemoryTypeOK /\ Laid /\ Held /\ FreedFirst

MemoryRegion == [base : Address, size : Address, committed : BOOLEAN, data : SUBSET Address]

LEMMA SmallModulus == ASSUME NEW x \in Nat, NEW n \in Nat \ {0}, x < n PROVE x % n = x
  BY SMT

LEMMA ModulusRange == ASSUME NEW x \in Nat, NEW n \in Nat \ {0} PROVE x % n \in 0 .. n - 1
  BY SMT

\* Rounding to a page stays within a word.
LEMMA AlignedRange == \A size \in Size : Aligned(size) \in Address
<1> SUFFICES ASSUME NEW size \in Size PROVE Aligned(size) \in Address
    OBVIOUS
<1> DEFINE sum == (size + PageSize - 1) % WordSize
<1>1. WordSize \in Nat \ {0} /\ PageSize \in Nat \ {0} /\ size + PageSize - 1 \in Nat
    BY MemorySizeAssumption
<1>2. sum \in 0 .. WordSize - 1
    BY <1>1, ModulusRange
<1>3. Aligned(size) = sum - (sum % PageSize)
    BY DEF Aligned
<1> HIDE DEF sum
<1>4. sum % PageSize \in 0 .. PageSize - 1
    BY <1>1, <1>2, ModulusRange
<1>5. sum % PageSize <= sum
    <2>1. CASE sum < PageSize
        BY <1>1, <1>2, <2>1, SmallModulus
    <2>2. CASE PageSize <= sum
        BY <1>1, <1>2, <1>4, <2>2
    <2> QED
        BY <1>1, <1>2, <2>1, <2>2
<1> QED
    BY <1>1, <1>2, <1>3, <1>4, <1>5 DEF Address

LEMMA RegionParts ==
    ASSUME MemoryInv
    PROVE  /\ regions \in Seq(MemoryRegion) /\ Len(regions) \in Nat /\ DOMAIN regions = 1 .. Len(regions)
           /\ WordSize \in Nat \ {0} /\ nextBase \in Nat /\ nextBase < WordSize
           /\ \A i \in DOMAIN regions :
                  /\ i \in Nat /\ regions[i] \in MemoryRegion
                  /\ regions[i].base \in Nat /\ regions[i].size \in Nat
                  /\ regions[i].base < WordSize /\ regions[i].data \subseteq Nat
<1>1. /\ regions \in Seq(MemoryRegion) /\ Len(regions) \in Nat /\ DOMAIN regions = 1 .. Len(regions)
      /\ nextBase \in Address /\ WordSize \in Nat \ {0}
    BY MemorySizeAssumption DEF MemoryInv, MemoryTypeOK, MemoryRegion
<1>2. \A i \in DOMAIN regions : regions[i] \in MemoryRegion
    BY <1>1, ElementOfSeq
<1> QED
    BY <1>1, <1>2 DEF MemoryRegion, Address

\* An address lies in one region at most.
LEMMA Disjoint ==
    ASSUME MemoryInv
    PROVE  \A i \in DOMAIN regions : \A j \in DOMAIN regions :
               i # j => Extent(i) \intersect Extent(j) = {}
<1> SUFFICES ASSUME NEW i \in DOMAIN regions, NEW j \in DOMAIN regions, i # j,
                    NEW a \in Extent(i), a \in Extent(j)
             PROVE  FALSE
    OBVIOUS
<1>1. /\ a \in Int /\ regions[i].base <= a /\ a < regions[i].base + regions[i].size
      /\ regions[j].base <= a /\ a < regions[j].base + regions[j].size
    <2>1. /\ regions[i].base \in Nat /\ regions[i].size \in Nat
          /\ regions[j].base \in Nat /\ regions[j].size \in Nat
        BY RegionParts
    <2> QED
        BY <2>1 DEF Extent
<1>2. i < j \/ j < i
    BY RegionParts
<1>3. /\ i < j => regions[i].base + regions[i].size <= regions[j].base
      /\ j < i => regions[j].base + regions[j].size <= regions[i].base
    BY DEF MemoryInv, Laid
<1>4. /\ regions[i].base \in Nat /\ regions[i].size \in Nat
      /\ regions[j].base \in Nat /\ regions[j].size \in Nat
    BY RegionParts
<1> QED
    BY <1>1, <1>2, <1>3, <1>4

LEMMA AtBaseIs ==
    \A b, i : i \in AtBase(b) <=>
        i \in DOMAIN regions /\ regions[i].base = b /\ \A j \in 1 .. i - 1 : regions[j].base # b
  BY DEF AtBase, First

LEMMA AtIs ==
    \A a, i : i \in At(a) =>
        /\ i \in DOMAIN regions /\ regions[i].committed
        /\ regions[i].base <= a /\ a < regions[i].base + regions[i].size
  BY DEF At, First

\* A freed base is in no block, unless the block that starts there is empty.
LEMMA MemoryApart == MemoryInv => RegionsApart
<1> SUFFICES ASSUME MemoryInv PROVE RegionsApart
    OBVIOUS
<1>1. ASSUME NEW base \in freed
      PROVE  At(base) = {} \/ \E i \in AtBase(base) : regions[i].size = 0
    <2>1. PICK i \in AtBase(base) : ~regions[i].committed
        BY DEF MemoryInv, FreedFirst
    <2>2. i \in DOMAIN regions /\ regions[i].base = base
        BY AtBaseIs
    <2>3. ASSUME NEW k \in At(base), regions[i].size # 0 PROVE FALSE
        <3>1. /\ k \in DOMAIN regions /\ k # i
              /\ regions[k].base <= base /\ base < regions[k].base + regions[k].size
            BY <2>1, AtIs
        <3>2. base \in Extent(i) /\ base \in Extent(k)
            <4>1. /\ regions[i].base \in Nat /\ regions[i].size \in Nat
                  /\ regions[k].base \in Nat /\ regions[k].size \in Nat
                BY <2>2, <3>1, RegionParts
            <4> QED
                BY <2>2, <2>3, <3>1, <4>1 DEF Extent
        <3> QED
            BY <2>2, <3>1, <3>2, Disjoint
    <2> QED
        BY <2>3
<1>2. \A i, j \in DOMAIN regions : i # j => Extent(i) \intersect Extent(j) = {}
    BY Disjoint
<1> QED
    BY <1>1, <1>2 DEF RegionsApart, MemoryInv, Laid, Held

LEMMA InitMemory == MemoryInit => MemoryInv
<1> SUFFICES ASSUME MemoryInit PROVE MemoryInv
    OBVIOUS
<1>1. regions = << >> /\ Len(regions) = 0 /\ DOMAIN regions = {} /\ nextBase = FirstBase
    BY DEF MemoryInit
<1>2. FirstBase \in Nat /\ MaxRegions \in Nat /\ MaxBytes \in Nat /\ WordSize \in Nat
    BY MemorySizeAssumption
<1>3. FirstBase < WordSize
    <2>1. MaxRegions * MaxBytes \in Nat
        BY <1>2
    <2> QED
        BY <1>2, <2>1, MemorySizeAssumption
<1>4. MemoryTypeOK
    BY <1>1, <1>2, <1>3 DEF MemoryInit, MemoryTypeOK, Address
<1> QED
    BY <1>1, <1>2, <1>4 DEF MemoryInit, MemoryInv, Laid, Held, FreedFirst

\* Free and WriteBytes change one region, and leave where it lies.
LEMMA SameLayout ==
    ASSUME MemoryInv, NEW k \in DOMAIN regions, NEW r \in MemoryRegion,
           regions' = [regions EXCEPT ![k] = r], nextBase' = nextBase,
           r.base = regions[k].base, r.size = regions[k].size,
           \A a \in written' : a < nextBase
    PROVE  /\ regions' \in Seq(MemoryRegion) /\ DOMAIN regions' = DOMAIN regions
           /\ \A i \in DOMAIN regions :
                  /\ regions'[i].base = regions[i].base /\ regions'[i].size = regions[i].size
                  /\ Extent(i)' = Extent(i) /\ (i # k => regions'[i] = regions[i])
           /\ regions'[k] = r
           /\ Laid' /\ \A b : AtBase(b)' = AtBase(b)
<1>1. /\ regions \in Seq(MemoryRegion) /\ Len(regions) \in Nat /\ DOMAIN regions = 1 .. Len(regions)
    BY RegionParts
<1>2. /\ regions' \in Seq(MemoryRegion) /\ Len(regions') = Len(regions)
      /\ DOMAIN regions' = DOMAIN regions
      /\ \A i \in DOMAIN regions : i # k => regions'[i] = regions[i]
      /\ regions'[k] = r
    BY <1>1, ExceptSeq
<1>3. \A i \in DOMAIN regions :
          regions'[i].base = regions[i].base /\ regions'[i].size = regions[i].size
    BY <1>2
<1>4. \A i \in DOMAIN regions : Extent(i)' = Extent(i)
    BY <1>3 DEF Extent
<1>5. Laid'
    BY <1>2, <1>3 DEF MemoryInv, Laid
<1>6. ASSUME NEW b PROVE AtBase(b)' = AtBase(b)
    <2>1. AtBase(b) = {i \in DOMAIN regions :
              regions[i].base = b /\ \A j \in 1 .. i - 1 : regions[j].base # b}
        BY DEF AtBase, First
    <2>2. AtBase(b)' = {i \in DOMAIN regions' :
              regions'[i].base = b /\ \A j \in 1 .. i - 1 : regions'[j].base # b}
        BY DEF AtBase, First
    <2>3. \A i \in DOMAIN regions : \A j \in 1 .. i - 1 : j \in DOMAIN regions
        BY <1>1
    <2> QED
        BY <1>2, <1>3, <2>1, <2>2, <2>3
<1> QED
    BY <1>2, <1>3, <1>4, <1>5, <1>6

LEMMA AllocateStep ==
    ASSUME MemoryInv, NEW size \in Size, Allocate(size)
    PROVE  MemoryInv'
<1>0. PICK n \in Nat : n = Len(regions)
    BY RegionParts
<1> DEFINE r == [base |-> nextBase, size |-> Aligned(size), committed |-> TRUE, data |-> {}]
<1>1. /\ regions \in Seq(MemoryRegion) /\ n \in Nat /\ DOMAIN regions = 1 .. n
      /\ nextBase \in Nat /\ nextBase < WordSize /\ Aligned(size) \in Nat
      /\ Aligned(size) \in Address /\ nextBase \in Address
    BY <1>0, RegionParts, AlignedRange DEF Address, MemoryInv, MemoryTypeOK
<1>2. {WordSize, FirstBase, MaxRegions, MaxBytes} \subseteq Nat \ {0}
    BY MemorySizeAssumption
<1>3. /\ n < MaxRegions /\ Aligned(size) <= MaxBytes
      /\ regions' = Append(regions, r) /\ nextBase' = (nextBase + Aligned(size)) % WordSize
      /\ UNCHANGED <<written, freed>>
    BY <1>0 DEF Allocate
<1>4. r \in MemoryRegion
    BY <1>1 DEF MemoryRegion
<1>5. /\ regions' \in Seq(MemoryRegion) /\ Len(regions') = n + 1 /\ DOMAIN regions' = 1 .. n + 1
      /\ \A i \in 1 .. n : regions'[i] = regions[i]
      /\ regions'[n + 1] = r
    BY <1>0, <1>1, <1>3, <1>4, AppendProperties, LenProperties
<1>6. nextBase <= FirstBase + n * MaxBytes
    BY <1>0 DEF MemoryInv, Laid
<1>7. nextBase + Aligned(size) <= FirstBase + (n + 1) * MaxBytes
    BY <1>1, <1>2, <1>3, <1>6
<1>8. FirstBase + (n + 1) * MaxBytes < WordSize
    <2>1. (n + 1) * MaxBytes <= MaxRegions * MaxBytes
        <3>1. PICK k \in Nat : MaxRegions = (n + 1) + k
            <4>1. MaxRegions - (n + 1) \in Nat
                BY <1>1, <1>2, <1>3
            <4>2. MaxRegions = (n + 1) + (MaxRegions - (n + 1))
                BY <1>1, <1>2
            <4> QED
                BY <4>1, <4>2
        <3>2. MaxRegions * MaxBytes = (n + 1) * MaxBytes + k * MaxBytes
            BY <1>1, <1>2, <3>1
        <3>3. k * MaxBytes \in Nat /\ (n + 1) * MaxBytes \in Nat
            BY <1>1, <1>2
        <3> QED
            BY <3>2, <3>3
    <2>2. MaxRegions * MaxBytes \in Nat /\ (n + 1) * MaxBytes \in Nat
        BY <1>1, <1>2
    <2> QED
        BY <1>2, <2>1, <2>2, MemorySizeAssumption
<1>9. nextBase' = nextBase + Aligned(size) /\ nextBase' < WordSize
    <2>1. (n + 1) * MaxBytes \in Nat
        BY <1>1, <1>2
    <2>2. nextBase + Aligned(size) \in Nat /\ nextBase + Aligned(size) < WordSize
        BY <1>1, <1>2, <1>7, <1>8, <2>1
    <2>3. (nextBase + Aligned(size)) % WordSize = nextBase + Aligned(size)
        BY <1>2, <2>2, SmallModulus
    <2> QED
        BY <1>3, <2>2, <2>3
<1>10. \A i \in DOMAIN regions' : (i \in DOMAIN regions /\ regions'[i] = regions[i]) \/ i = n + 1
    BY <1>1, <1>5
<1>11. MemoryTypeOK'
    <2>1. nextBase' \in Address
        BY <1>1, <1>2, <1>9 DEF Address
    <2> QED
        BY <1>3, <1>5, <2>1 DEF MemoryInv, MemoryTypeOK, MemoryRegion
<1>12. \A i \in DOMAIN regions : regions[i].base \in Nat /\ regions[i].size \in Nat
    BY RegionParts
<1>13. Laid'
    <2>1. Len(regions') <= MaxRegions /\ nextBase' <= FirstBase + Len(regions') * MaxBytes
        BY <1>1, <1>2, <1>3, <1>5, <1>7, <1>9
    <2>2. \A i \in DOMAIN regions' : regions'[i].base + regions'[i].size <= nextBase'
        BY <1>1, <1>5, <1>9, <1>10, <1>12 DEF MemoryInv, Laid
    <2>3. ASSUME NEW i \in DOMAIN regions', NEW j \in DOMAIN regions', i < j
          PROVE  regions'[i].base + regions'[i].size <= regions'[j].base
        <3>1. i \in DOMAIN regions /\ regions'[i] = regions[i]
            BY <1>1, <1>5, <2>3
        <3>2. CASE j = n + 1
            BY <1>5, <3>1, <3>2 DEF MemoryInv, Laid
        <3>3. CASE j \in DOMAIN regions /\ regions'[j] = regions[j]
            BY <2>3, <3>1, <3>3 DEF MemoryInv, Laid
        <3> QED
            BY <1>10, <3>2, <3>3
    <2>4. \A a \in written' : a < nextBase'
        <3>1. written \subseteq Nat
            BY <1>2 DEF MemoryInv, MemoryTypeOK, Address
        <3> QED
            BY <1>1, <1>3, <1>9, <3>1 DEF MemoryInv, Laid
    <2> QED
        BY <2>1, <2>2, <2>3, <2>4 DEF Laid
<1>14. Held'
    <2>1. ASSUME NEW i \in DOMAIN regions, regions'[i] = regions[i]
          PROVE  /\ regions'[i].committed => regions'[i].data =
                        {a - regions'[i].base : a \in written' \intersect Extent(i)'}
                 /\ ~regions'[i].committed => regions'[i].data = {}
        BY <1>3, <2>1 DEF MemoryInv, Held, Extent
    <2>2. written' \intersect Extent(n + 1)' = {}
        <3>1. Extent(n + 1)' = nextBase .. nextBase + Aligned(size) - 1
            BY <1>5 DEF Extent
        <3>2. \A a \in written : a \in Nat /\ a < nextBase
            BY <1>2 DEF MemoryInv, MemoryTypeOK, Address, Laid
        <3> QED
            BY <1>1, <1>3, <3>1, <3>2
    <2>3. regions'[n + 1].committed /\ regions'[n + 1].data = {}
        BY <1>5
    <2>4. {a - regions'[n + 1].base : a \in written' \intersect Extent(n + 1)'} = {}
        BY <2>2
    <2>5. ASSUME NEW i \in DOMAIN regions'
          PROVE  /\ regions'[i].committed => regions'[i].data =
                        {a - regions'[i].base : a \in written' \intersect Extent(i)'}
                 /\ ~regions'[i].committed => regions'[i].data = {}
        <3>1. CASE i = n + 1
            BY <2>3, <2>4, <3>1
        <3>2. CASE i \in DOMAIN regions /\ regions'[i] = regions[i]
            BY <2>1, <3>2
        <3> QED
            BY <1>10, <3>1, <3>2
    <2> QED
        BY <2>5 DEF Held
<1>15. FreedFirst'
    <2> SUFFICES ASSUME NEW base \in freed' PROVE \E i \in AtBase(base)' : ~regions'[i].committed
        BY DEF FreedFirst
    <2>1. PICK i \in AtBase(base) : ~regions[i].committed
        BY <1>3 DEF MemoryInv, FreedFirst
    <2>2. i \in DOMAIN regions /\ regions[i].base = base /\ \A j \in 1 .. i - 1 : regions[j].base # base
        BY AtBaseIs
    <2>3. i \in DOMAIN regions' /\ regions'[i] = regions[i] /\ \A j \in 1 .. i - 1 : regions'[j] = regions[j]
        BY <1>1, <1>5, <2>2
    <2>4. i \in AtBase(base)'
        BY <2>2, <2>3 DEF AtBase, First
    <2> QED
        BY <2>1, <2>3, <2>4
<1> QED
    BY <1>11, <1>13, <1>14, <1>15 DEF MemoryInv

LEMMA FreeStep ==
    ASSUME MemoryInv, NEW base, Free(base)
    PROVE  MemoryInv'
<1>1. PICK k \in AtBase(base) :
          /\ regions' = [regions EXCEPT ![k].committed = FALSE, ![k].data = {}]
          /\ written' = written \ {regions[k].base + o : o \in regions[k].data}
          /\ freed' = freed \union {base} /\ nextBase' = nextBase
    BY DEF Free
<1> DEFINE r == [regions[k] EXCEPT !.committed = FALSE, !.data = {}]
<1>2. k \in DOMAIN regions /\ regions[k] \in MemoryRegion /\ regions[k].base = base
    BY AtBaseIs, RegionParts
<1>3. /\ r \in MemoryRegion /\ r.base = regions[k].base /\ r.size = regions[k].size
      /\ ~r.committed /\ r.data = {}
    BY <1>2 DEF MemoryRegion
<1>4. regions' = [regions EXCEPT ![k] = r] /\ \A a \in written' : a < nextBase
    BY <1>1, <1>2, RegionParts DEF MemoryInv, Laid
<1> HIDE DEF r
<1>5. /\ regions' \in Seq(MemoryRegion) /\ DOMAIN regions' = DOMAIN regions
      /\ \A i \in DOMAIN regions :
             /\ regions'[i].base = regions[i].base /\ regions'[i].size = regions[i].size
             /\ Extent(i)' = Extent(i) /\ (i # k => regions'[i] = regions[i])
      /\ regions'[k] = r
      /\ Laid' /\ \A b : AtBase(b)' = AtBase(b)
    BY <1>1, <1>2, <1>3, <1>4, SameLayout
<1>6. MemoryTypeOK'
    BY <1>1, <1>2, <1>5 DEF MemoryInv, MemoryTypeOK, MemoryRegion
<1>7. ASSUME NEW i \in DOMAIN regions, i # k
      PROVE  written' \intersect Extent(i) = written \intersect Extent(i)
    <2> SUFFICES ASSUME NEW o \in regions[k].data PROVE regions[k].base + o \notin Extent(i)
        BY <1>1
    <2>1. regions[k].committed
        BY <1>2 DEF MemoryInv, Held
    <2>2. PICK a \in written \intersect Extent(k) : o = a - regions[k].base
        BY <1>2, <2>1 DEF MemoryInv, Held
    <2>3. a \in Int /\ regions[k].base \in Nat
        BY <1>2, RegionParts DEF Extent
    <2>4. regions[k].base + o = a
        BY <2>2, <2>3
    <2> QED
        BY <1>2, <1>7, <2>2, <2>4, Disjoint
<1>8. Held'
    <2>1. ASSUME NEW i \in DOMAIN regions'
          PROVE  /\ regions'[i].committed => regions'[i].data =
                        {a - regions'[i].base : a \in written' \intersect Extent(i)'}
                 /\ ~regions'[i].committed => regions'[i].data = {}
        <3>1. CASE i = k
            BY <1>3, <1>5, <3>1
        <3>2. CASE i # k
            BY <1>5, <1>7, <3>2 DEF MemoryInv, Held
        <3> QED
            BY <3>1, <3>2
    <2> QED
        BY <2>1 DEF Held
<1>9. FreedFirst'
    <2> SUFFICES ASSUME NEW b \in freed' PROVE \E i \in AtBase(b)' : ~regions'[i].committed
        BY DEF FreedFirst
    <2>1. CASE b = base
        BY <1>3, <1>5, <2>1
    <2>2. CASE b \in freed
        <3>1. PICK i \in AtBase(b) : ~regions[i].committed
            BY <2>2 DEF MemoryInv, FreedFirst
        <3>2. i \in DOMAIN regions
            BY AtBaseIs
        <3> QED
            BY <1>3, <1>5, <3>1, <3>2
    <2> QED
        BY <1>1, <2>1, <2>2
<1> QED
    BY <1>5, <1>6, <1>8, <1>9 DEF MemoryInv

LEMMA WriteStep ==
    ASSUME MemoryInv, NEW address \in Address, NEW len \in 1 .. 2, WriteBytes(address, len)
    PROVE  MemoryInv'
<1> DEFINE Bytes == address .. address + len - 1
<1>1. PICK k \in At(address) :
          /\ address + len <= regions[k].base + regions[k].size
          /\ regions' = [regions EXCEPT ![k].data = @ \union {a - regions[k].base : a \in Bytes}]
          /\ written' = written \union Bytes
          /\ nextBase' = nextBase /\ freed' = freed
    BY DEF WriteBytes
<1>2. /\ k \in DOMAIN regions /\ regions[k] \in MemoryRegion /\ regions[k].committed
      /\ regions[k].base \in Nat /\ regions[k].size \in Nat
      /\ address \in Nat /\ regions[k].base <= address /\ len \in Nat
      /\ WordSize \in Nat /\ nextBase \in Nat /\ nextBase < WordSize
    BY AtIs, RegionParts DEF Address
<1>3. regions[k].base + regions[k].size <= nextBase
    BY <1>2 DEF MemoryInv, Laid
<1>4. \A a \in Bytes : /\ a \in Extent(k) /\ a \in Address /\ a < nextBase
                       /\ a - regions[k].base \in Address
    BY <1>1, <1>2, <1>3 DEF Extent, Address
<1> HIDE DEF Bytes
<1> DEFINE new == regions[k].data \union {a - regions[k].base : a \in Bytes}
           r == [regions[k] EXCEPT !.data = new]
<1>5. new \subseteq Address
    BY <1>2, <1>4 DEF MemoryRegion
<1> HIDE DEF new
<1>6. /\ r \in MemoryRegion /\ r.base = regions[k].base /\ r.size = regions[k].size
      /\ r.committed /\ r.data = new
    BY <1>2, <1>5 DEF MemoryRegion
<1>7. regions' = [regions EXCEPT ![k] = r] /\ \A a \in written' : a < nextBase
    BY <1>1, <1>2, <1>4 DEF MemoryInv, Laid, new
<1> HIDE DEF r
<1>8. /\ regions' \in Seq(MemoryRegion) /\ DOMAIN regions' = DOMAIN regions
      /\ \A i \in DOMAIN regions :
             /\ regions'[i].base = regions[i].base /\ regions'[i].size = regions[i].size
             /\ Extent(i)' = Extent(i) /\ (i # k => regions'[i] = regions[i])
      /\ regions'[k] = r
      /\ Laid' /\ \A b : AtBase(b)' = AtBase(b)
    BY <1>1, <1>2, <1>6, <1>7, SameLayout
<1>9. MemoryTypeOK'
    BY <1>1, <1>4, <1>8 DEF MemoryInv, MemoryTypeOK, MemoryRegion
<1>10. Held'
    <2>1. ASSUME NEW i \in DOMAIN regions'
          PROVE  /\ regions'[i].committed => regions'[i].data =
                        {a - regions'[i].base : a \in written' \intersect Extent(i)'}
                 /\ ~regions'[i].committed => regions'[i].data = {}
        <3>1. CASE i = k
            <4>1. regions[k].data = {a - regions[k].base : a \in written \intersect Extent(k)}
                BY <1>2 DEF MemoryInv, Held
            <4>2. written' \intersect Extent(k) = (written \intersect Extent(k)) \union Bytes
                BY <1>1, <1>4
            <4>3. new = {a - regions[k].base : a \in written' \intersect Extent(k)}
                BY <4>1, <4>2 DEF new
            <4> QED
                BY <1>2, <1>6, <1>8, <3>1, <4>3
        <3>2. CASE i # k
            <4>1. Bytes \intersect Extent(i) = {}
                BY <1>2, <1>4, <1>8, <3>2, Disjoint
            <4>2. written' \intersect Extent(i) = written \intersect Extent(i)
                BY <1>1, <4>1
            <4> QED
                BY <1>8, <3>2, <4>2 DEF MemoryInv, Held
        <3> QED
            BY <3>1, <3>2
    <2> QED
        BY <2>1 DEF Held
<1>11. FreedFirst'
    <2> SUFFICES ASSUME NEW b \in freed PROVE \E i \in AtBase(b)' : ~regions'[i].committed
        BY <1>1 DEF FreedFirst
    <2>1. PICK i \in AtBase(b) : ~regions[i].committed
        BY DEF MemoryInv, FreedFirst
    <2>2. i \in DOMAIN regions /\ i # k
        BY <1>2, <2>1, AtBaseIs
    <2> QED
        BY <1>8, <2>1, <2>2
<1> QED
    BY <1>8, <1>9, <1>10, <1>11 DEF MemoryInv

LEMMA NextMemory == MemoryInv /\ [MemoryNext]_memoryVars => MemoryInv'
<1> SUFFICES ASSUME MemoryInv, [MemoryNext]_memoryVars PROVE MemoryInv'
    OBVIOUS
<1>1. CASE UNCHANGED memoryVars
    BY <1>1 DEF memoryVars, MemoryInv, MemoryTypeOK, Laid, Held, Extent, FreedFirst, AtBase, First
<1> QED
    BY <1>1, AllocateStep, FreeStep, WriteStep DEF MemoryNext

\* For sizes of any number and kind, up to the largest that a word holds: the
\* regions a program is given never overlap, a byte reads as written exactly if
\* it was, and freed memory is out of reach.
THEOREM MemoryStaysApart == MemorySpec => []RegionsApart
<1> QED
    BY MemoryApart, InitMemory, NextMemory, PTL DEF MemorySpec

-----------------------------------------------------------------------------
EventRecord == [open : BOOLEAN, signaled : BOOLEAN, auto : BOOLEAN, waiting : Seq(Client)]

ClosedIsEmpty == \A n \in Name : ~event[n].open => event[n].waiting = << >>

EventInv == EventTypeOK /\ NoLostWakeup /\ ClosedIsEmpty

-----------------------------------------------------------------------------
\* What a step that touches one event has to show: that event is as it should
\* be, and the processes asleep on any other are the same.
LEMMA OneEvent ==
    ASSUME EventInv, NEW n \in Name, NEW STATE e, e \in EventRecord,
           event' = [event EXCEPT ![n] = e],
           asleep' \in [Client -> Name \union {Awake, "stranded"}],
           e.signaled => e.waiting = << >>, ~e.open => e.waiting = << >>,
           ToSet(e.waiting) = {c \in Client : asleep'[c] = n}, IsInjective(e.waiting),
           \A c \in Client, m \in Name \ {n} : asleep'[c] = m <=> asleep[c] = m
    PROVE  EventInv'
<1>1. EventTypeOK'
    BY DEF EventInv, EventTypeOK, EventRecord
<1>2. event'[n] = e /\ \A m \in Name \ {n} : event'[m] = event[m]
    BY DEF EventInv, EventTypeOK
<1>3. ASSUME NEW m \in Name
      PROVE  /\ event'[m].signaled => event'[m].waiting = << >>
             /\ ToSet(event'[m].waiting) = {c \in Client : asleep'[c] = m}
             /\ IsInjective(event'[m].waiting)
             /\ ~event'[m].open => event'[m].waiting = << >>
    <2>1. CASE m = n
        BY <2>1, <1>2
    <2>2. CASE m # n
        <3>1. {c \in Client : asleep'[c] = m} = {c \in Client : asleep[c] = m}
            BY <2>2
        <3> QED
            BY <2>2, <3>1, <1>2 DEF EventInv, NoLostWakeup, ClosedIsEmpty, Woken
    <2> QED
        BY <2>1, <2>2
<1> QED
    BY <1>1, <1>3 DEF EventInv, NoLostWakeup, ClosedIsEmpty, Woken

LEMMA Nobody == ToSet(<< >>) = {} /\ IsInjective(<< >>)
  BY DEF ToSet, IsInjective

\* One more waiter at the end of the list.
LEMMA OneMoreWaiter ==
    ASSUME NEW s \in Seq(Client), NEW c \in Client, IsInjective(s), c \notin ToSet(s)
    PROVE  /\ Append(s, c) \in Seq(Client)
           /\ ToSet(Append(s, c)) = ToSet(s) \union {c} /\ IsInjective(Append(s, c))
<1>1. /\ Append(s, c) \in Seq(Client) /\ Len(Append(s, c)) = Len(s) + 1
      /\ \A i \in 1 .. Len(s) : Append(s, c)[i] = s[i]
      /\ Append(s, c)[Len(s) + 1] = c
    BY AppendProperties
<1>2. /\ Len(s) \in Nat /\ DOMAIN s = 1 .. Len(s)
      /\ DOMAIN Append(s, c) = 1 .. Len(s) + 1
    BY <1>1, LenProperties
<1>3. ToSet(Append(s, c)) = ToSet(s) \union {c}
    BY <1>1, <1>2 DEF ToSet
<1>4. \A i \in 1 .. Len(s) : s[i] # c
    BY <1>2 DEF ToSet
<1>5. IsInjective(Append(s, c))
    BY <1>1, <1>2, <1>4 DEF IsInjective
<1> QED
    BY <1>1, <1>3, <1>5

LEMMA InitEvents == EventInit => EventInv
<1> SUFFICES ASSUME EventInit PROVE EventInv
    OBVIOUS
<1>1. NoEvent \in EventRecord
    BY EmptySeq DEF NoEvent, EventRecord
<1>2. EventTypeOK
    BY <1>1 DEF EventInit, EventTypeOK, EventRecord
<1>3. NoLostWakeup /\ ClosedIsEmpty
    BY Nobody, NameAssumption
    DEF EventInit, NoLostWakeup, ClosedIsEmpty, NoEvent, Woken, Awake
<1> QED
    BY <1>2, <1>3 DEF EventInv

LEMMA NextEvents == EventInv /\ [EventNext]_eventVars => EventInv'
<1> SUFFICES ASSUME EventInv, [EventNext]_eventVars PROVE EventInv'
    OBVIOUS
<1>1. CASE UNCHANGED eventVars
    BY <1>1
    DEF eventVars, EventInv, EventTypeOK, NoLostWakeup, ClosedIsEmpty, Woken
<1> SUFFICES ASSUME NEW n \in Name,
                    \/ \E auto \in BOOLEAN : CreateEvent(n, auto)
                    \/ \E c \in Client : WaitSet(n, c) \/ WaitClear(n, c)
                    \/ SignalEvent(n) \/ ResetEvent(n) \/ CloseEvent(n)
             PROVE  EventInv'
    BY <1>1 DEF EventNext
<1>2. /\ event \in [Name -> EventRecord] /\ event[n] \in EventRecord
      /\ asleep \in [Client -> Name \union {Awake, "stranded"}]
      /\ event[n].waiting \in Seq(Client) /\ IsInjective(event[n].waiting)
      /\ ToSet(event[n].waiting) = {c \in Client : asleep[c] = n}
      /\ event[n].signaled => event[n].waiting = << >>
      /\ ~event[n].open => event[n].waiting = << >>
    BY DEF EventInv, EventTypeOK, EventRecord, NoLostWakeup, ClosedIsEmpty, Woken
<1>3. ASSUME NEW auto \in BOOLEAN, CreateEvent(n, auto) PROVE EventInv'
    <2> DEFINE e == [NoEvent EXCEPT !.open = TRUE, !.auto = auto]
    <2>1. event' = [event EXCEPT ![n] = e] /\ ~event[n].open /\ UNCHANGED asleep
        BY <1>3 DEF CreateEvent
    <2>2. e \in EventRecord /\ e.waiting = << >> /\ e.open
        BY EmptySeq DEF NoEvent, EventRecord
    <2> HIDE DEF e
    <2> QED
        BY <2>1, <2>2, <1>2, Nobody, OneEvent
<1>4. ASSUME NEW c \in Client, WaitSet(n, c) PROVE EventInv'
    <2> DEFINE e == [event[n] EXCEPT !.signaled = ~event[n].auto]
    <2>1. event' = [event EXCEPT ![n] = e] /\ event[n].signaled /\ UNCHANGED asleep
        BY <1>4 DEF WaitSet
    <2>2. e \in EventRecord /\ e.waiting = event[n].waiting /\ (e.open <=> event[n].open)
        BY <1>2 DEF EventRecord
    <2> HIDE DEF e
    <2> QED
        BY <2>1, <2>2, <1>2, OneEvent
<1>5. ASSUME NEW c \in Client, WaitClear(n, c) PROVE EventInv'
    <2>1. c \notin ToSet(event[n].waiting)
        BY <1>2, <1>5, NameAssumption DEF WaitClear, Awake
    <2> DEFINE e == [event[n] EXCEPT !.waiting = Append(event[n].waiting, c)]
    <2>2. /\ event' = [event EXCEPT ![n] = e] /\ event[n].open /\ ~event[n].signaled
          /\ asleep' = [asleep EXCEPT ![c] = n]
        BY <1>5, <2>1 DEF WaitClear
    <2>3. /\ Append(event[n].waiting, c) \in Seq(Client)
          /\ ToSet(Append(event[n].waiting, c)) = ToSet(event[n].waiting) \union {c}
          /\ IsInjective(Append(event[n].waiting, c))
        BY <1>2, <2>1, OneMoreWaiter
    <2>4. /\ e \in EventRecord /\ e.waiting = Append(event[n].waiting, c)
          /\ (e.signaled <=> event[n].signaled) /\ (e.open <=> event[n].open)
        BY <1>2, <2>3 DEF EventRecord
    <2>5. /\ asleep' \in [Client -> Name \union {Awake, "stranded"}]
          /\ {d \in Client : asleep'[d] = n} = {d \in Client : asleep[d] = n} \union {c}
          /\ \A d \in Client, m \in Name \ {n} : asleep'[d] = m <=> asleep[d] = m
        BY <1>2, <1>5, <2>2, NameAssumption DEF WaitClear, Awake
    <2> HIDE DEF e
    <2>6. ToSet(e.waiting) = {d \in Client : asleep'[d] = n} /\ IsInjective(e.waiting)
        BY <2>3, <2>4, <2>5, <1>2
    <2>7. (e.signaled => e.waiting = << >>) /\ (~e.open => e.waiting = << >>)
        BY <2>2, <2>4
    <2> QED
        BY <2>2, <2>4, <2>5, <2>6, <2>7, OneEvent
<1>6. CASE SignalEvent(n)
    <2> DEFINE set == ~event[n].auto \/ Woken(n) = {}
               e == [event[n] EXCEPT !.waiting = << >>, !.signaled = set]
    <2>1. /\ event' = [event EXCEPT ![n] = e] /\ event[n].open
          /\ asleep' = [c \in Client |-> IF c \in Woken(n) THEN Awake ELSE asleep[c]]
        BY <1>6 DEF SignalEvent
    <2>2. e \in EventRecord /\ e.waiting = << >>
        BY <1>2, EmptySeq DEF EventRecord
    <2>3. /\ asleep' \in [Client -> Name \union {Awake, "stranded"}]
          /\ {c \in Client : asleep'[c] = n} = {}
          /\ \A c \in Client, m \in Name \ {n} : asleep'[c] = m <=> asleep[c] = m
        BY <1>2, <2>1, NameAssumption DEF Woken, Awake
    <2> HIDE DEF e
    <2>4. ToSet(e.waiting) = {c \in Client : asleep'[c] = n} /\ IsInjective(e.waiting)
        BY <2>2, <2>3, Nobody
    <2> QED
        BY <2>1, <2>2, <2>3, <2>4, OneEvent
<1>7. CASE ResetEvent(n)
    <2> DEFINE e == [event[n] EXCEPT !.signaled = FALSE]
    <2>1. event' = [event EXCEPT ![n] = e] /\ event[n].open /\ UNCHANGED asleep
        BY <1>7 DEF ResetEvent
    <2>2. /\ e \in EventRecord /\ e.waiting = event[n].waiting /\ ~e.signaled
          /\ (e.open <=> event[n].open)
        BY <1>2 DEF EventRecord
    <2> HIDE DEF e
    <2> QED
        BY <2>1, <2>2, <1>2, OneEvent
<1>8. CASE CloseEvent(n)
    <2>1. /\ event' = [event EXCEPT ![n] = NoEvent]
          /\ asleep' = [c \in Client |-> IF asleep[c] = n THEN "stranded" ELSE asleep[c]]
        BY <1>8 DEF CloseEvent
    <2>2. NoEvent \in EventRecord /\ NoEvent.waiting = << >>
        BY EmptySeq DEF NoEvent, EventRecord
    <2>3. /\ asleep' \in [Client -> Name \union {Awake, "stranded"}]
          /\ {c \in Client : asleep'[c] = n} = {}
          /\ \A c \in Client, m \in Name \ {n} : asleep'[c] = m <=> asleep[c] = m
        BY <1>2, <2>1, NameAssumption
    <2> DEFINE e == NoEvent
    <2>4. /\ ToSet(e.waiting) = {c \in Client : asleep'[c] = n} /\ IsInjective(e.waiting)
          /\ event' = [event EXCEPT ![n] = e] /\ e \in EventRecord /\ e.waiting = << >>
        BY <2>1, <2>2, <2>3, Nobody
    <2> HIDE DEF e
    <2> QED
        BY <2>3, <2>4, <1>2, OneEvent
<1> QED
    BY <1>3, <1>4, <1>5, <1>6, <1>7, <1>8

-----------------------------------------------------------------------------
\* Whatever order events are created, waited for, signaled, reset and closed in,
\* by any processes: a process that waits is in the list of its event, which is
\* not set, so that the next signal wakes it.
THEOREM WakeupsKept == EventSpec => []NoLostWakeup
<1>1. EventInv => NoLostWakeup
    BY DEF EventInv
<1> QED
    BY <1>1, InitEvents, NextEvents, PTL DEF EventSpec

-----------------------------------------------------------------------------
(* Pipes.  A call means the first pipe of a name; what PipeKept adds to the *)
(* property is that a name without a pipe has carried nothing, so that the  *)
(* first pipe of that name starts right.                                    *)

PipeRecord == [name : Name, direction : Direction, peer : Client \union {Absent},
               buffer : Seq(Byte)]

PipeInv ==
    /\ pipes \in Seq(PipeRecord) /\ told \in [Name -> Seq(Byte)] /\ read \in [Name -> Seq(Byte)]
    /\ \A i \in 1 .. Len(pipes) :
           IF \A j \in 1 .. i - 1 : pipes[j].name # pipes[i].name
           THEN told[pipes[i].name] = read[pipes[i].name] \o pipes[i].buffer
           ELSE pipes[i].buffer = << >>
    /\ \A n \in Name : (\A i \in 1 .. Len(pipes) : pipes[i].name # n) =>
           told[n] = << >> /\ read[n] = << >>

\* A short sequence is a sequence.
LEMMA SmallIsSeq ==
    ASSUME NEW S, NEW n \in Nat PROVE SmallSeq(S, n) \subseteq Seq(S)
  BY SeqDef DEF SmallSeq

LEMMA Regroup == \A s, t, u \in Seq(Byte) : (s \o t) \o u = s \o (t \o u)
  BY ConcatAssociative

\* The pipe that a call with a name means.
LEMMA PipeMeant ==
    ASSUME PipeInv, NEW i, NEW n \in Name, IsPipe(i, n)
    PROVE  /\ i \in 1 .. Len(pipes) /\ pipes[i] \in PipeRecord /\ pipes[i].name = n
           /\ \A j \in 1 .. i - 1 : pipes[j].name # n
           /\ told[n] = read[n] \o pipes[i].buffer
<1>1. DOMAIN pipes = 1 .. Len(pipes)
    BY LenProperties DEF PipeInv
<1>2. i \in 1 .. Len(pipes) /\ pipes[i].name = n /\ \A j \in 1 .. i - 1 : pipes[j].name # n
    BY <1>1 DEF IsPipe
<1>3. pipes[i] \in PipeRecord
    BY <1>2, ElementOfSeq DEF PipeInv
<1> QED
    BY <1>2, <1>3 DEF PipeInv

\* A step on that pipe, which keeps its name and tells or gives the same bytes.
LEMMA PipeStep ==
    ASSUME PipeInv, NEW i, NEW n \in Name, IsPipe(i, n), NEW STATE e, e \in PipeRecord,
           e.name = n, pipes' = [pipes EXCEPT ![i] = e],
           NEW STATE t, t \in Seq(Byte), NEW STATE r, r \in Seq(Byte),
           told' = [told EXCEPT ![n] = t], read' = [read EXCEPT ![n] = r],
           t = r \o e.buffer
    PROVE  PipeInv'
<1>1. /\ i \in 1 .. Len(pipes) /\ pipes[i].name = n
      /\ \A j \in 1 .. i - 1 : pipes[j].name # n
    BY PipeMeant
<1>2. /\ pipes' \in Seq(PipeRecord) /\ Len(pipes') = Len(pipes) /\ Len(pipes) \in Nat
      /\ \A j \in 1 .. Len(pipes) : pipes'[j] = IF j = i THEN e ELSE pipes[j]
    BY <1>1, ExceptSeq, LenProperties DEF PipeInv
<1>3. told' \in [Name -> Seq(Byte)] /\ read' \in [Name -> Seq(Byte)]
    BY DEF PipeInv
<1>4. \A j \in 1 .. Len(pipes) : pipes'[j].name = pipes[j].name
    BY <1>1, <1>2
<1>5. \A m \in Name \ {n} : told'[m] = told[m] /\ read'[m] = read[m]
    BY DEF PipeInv
<1>6. told'[n] = t /\ read'[n] = r
    BY DEF PipeInv
<1>7. ASSUME NEW k \in 1 .. Len(pipes)
      PROVE  IF \A j \in 1 .. k - 1 : pipes'[j].name # pipes'[k].name
             THEN told'[pipes'[k].name] = read'[pipes'[k].name] \o pipes'[k].buffer
             ELSE pipes'[k].buffer = << >>
    <2>1. \A j \in 1 .. k - 1 : j \in 1 .. Len(pipes)
        BY <1>2
    <2>2. pipes[k].name \in Name
        BY ElementOfSeq DEF PipeInv, PipeRecord
    <2>3. CASE k = i
        BY <2>3, <2>1, <1>1, <1>2, <1>4, <1>6
    <2>4. CASE k # i /\ pipes[k].name = n
        <3>1. i \in 1 .. k - 1
            BY <2>4, <1>1, <1>2
        <3>2. pipes[k].buffer = << >>
            BY <3>1, <2>4, <1>1 DEF PipeInv
        <3> QED
            BY <3>1, <3>2, <2>1, <2>4, <1>1, <1>2, <1>4
    <2>5. CASE k # i /\ pipes[k].name # n
        <3>1. pipes'[k] = pipes[k]
            BY <2>5, <1>2
        <3>2. (\A j \in 1 .. k - 1 : pipes'[j].name # pipes'[k].name)
                  <=> (\A j \in 1 .. k - 1 : pipes[j].name # pipes[k].name)
            BY <3>1, <2>1, <1>4
        <3>3. told'[pipes[k].name] = told[pipes[k].name] /\ read'[pipes[k].name] = read[pipes[k].name]
            BY <2>2, <2>5, <1>5
        <3>4. IF \A j \in 1 .. k - 1 : pipes[j].name # pipes[k].name
              THEN told[pipes[k].name] = read[pipes[k].name] \o pipes[k].buffer
              ELSE pipes[k].buffer = << >>
            BY DEF PipeInv
        <3> QED
            BY <3>1, <3>2, <3>3, <3>4
    <2> QED
        BY <2>3, <2>4, <2>5
<1>8. ASSUME NEW m \in Name, \A k \in 1 .. Len(pipes) : pipes'[k].name # m
      PROVE  told'[m] = << >> /\ read'[m] = << >>
    <2>1. m # n /\ \A k \in 1 .. Len(pipes) : pipes[k].name # m
        BY <1>1, <1>4, <1>8
    <2> QED
        BY <2>1, <1>5 DEF PipeInv
<1> QED
    BY <1>2, <1>3, <1>7, <1>8 DEF PipeInv

LEMMA InitPipe == PipeInit => PipeInv
<1> SUFFICES ASSUME PipeInit PROVE PipeInv
    OBVIOUS
<1>1. pipes \in Seq(PipeRecord) /\ Len(pipes) = 0
    BY EmptySeq DEF PipeInit
<1>2. << >> \in Seq(Byte)
    BY EmptySeq
<1>3. told \in [Name -> Seq(Byte)] /\ read \in [Name -> Seq(Byte)]
    BY <1>2 DEF PipeInit
<1> QED
    BY <1>1, <1>3 DEF PipeInv, PipeInit

LEMMA NextPipe == PipeInv /\ [PipeNext]_pipeVars => PipeInv'
<1> SUFFICES ASSUME PipeInv, [PipeNext]_pipeVars PROVE PipeInv'
    OBVIOUS
<1>1. ASSUME NEW n \in Name, NEW d \in Direction, CreatePipe(n, d) PROVE PipeInv'
    <2> DEFINE new == [name |-> n, direction |-> d, peer |-> Absent, buffer |-> << >>]
    <2>1. new \in PipeRecord /\ new.name = n /\ new.buffer = << >>
        BY EmptySeq DEF PipeRecord
    <2>2. pipes' = Append(pipes, new) /\ UNCHANGED <<told, read>>
        BY <1>1 DEF CreatePipe
    <2> HIDE DEF new
    <2>3. /\ pipes' \in Seq(PipeRecord) /\ Len(pipes') = Len(pipes) + 1 /\ Len(pipes) \in Nat
          /\ \A i \in 1 .. Len(pipes) : pipes'[i] = pipes[i]
          /\ pipes'[Len(pipes) + 1] = new
        BY <2>1, <2>2, AppendProperties, LenProperties DEF PipeInv
    <2>4. told[n] \in Seq(Byte) /\ read[n] \in Seq(Byte)
        BY DEF PipeInv
    <2>5. ASSUME NEW k \in 1 .. Len(pipes')
          PROVE  IF \A j \in 1 .. k - 1 : pipes'[j].name # pipes'[k].name
                 THEN told'[pipes'[k].name] = read'[pipes'[k].name] \o pipes'[k].buffer
                 ELSE pipes'[k].buffer = << >>
        <3>1. CASE k = Len(pipes) + 1
            <4>1. CASE \A j \in 1 .. Len(pipes) : pipes[j].name # n
                <5>1. told[n] = << >> /\ read[n] = << >>
                    BY <4>1 DEF PipeInv
                <5>2. read[n] \o << >> = << >>
                    BY <5>1, <2>4, ConcatEmptySeq
                <5> QED
                    BY <5>1, <5>2, <3>1, <2>1, <2>2, <2>3
            <4>2. CASE \E j \in 1 .. Len(pipes) : pipes[j].name = n
                <5>1. PICK j \in 1 .. Len(pipes) : pipes[j].name = n
                    BY <4>2
                <5>2. j \in 1 .. k - 1 /\ pipes'[j].name = n /\ pipes'[k] = new
                    BY <5>1, <3>1, <2>3
                <5> QED
                    BY <5>2, <2>1
            <4> QED
                BY <4>1, <4>2
        <3>2. CASE k # Len(pipes) + 1
            <4>1. k \in 1 .. Len(pipes) /\ \A j \in 1 .. k - 1 : j \in 1 .. Len(pipes)
                BY <3>2, <2>3
            <4>2. pipes'[k] = pipes[k] /\ \A j \in 1 .. k - 1 : pipes'[j] = pipes[j]
                BY <4>1, <2>3
            <4> QED
                BY ZenonT(60), <4>1, <4>2, <2>2 DEF PipeInv
        <3> QED
            BY <3>1, <3>2
    <2>6. ASSUME NEW m \in Name, \A k \in 1 .. Len(pipes') : pipes'[k].name # m
          PROVE  told'[m] = << >> /\ read'[m] = << >>
        <3>1. \A k \in 1 .. Len(pipes) : k \in 1 .. Len(pipes') /\ pipes[k].name # m
            BY <2>3, <2>6
        <3> QED
            BY <3>1, <2>2 DEF PipeInv
    <2> QED
        BY <2>2, <2>3, <2>5, <2>6 DEF PipeInv
<1>2. ASSUME NEW n \in Name, NEW c \in Client, ConnectPipe(n, c) PROVE PipeInv'
    <2>1. PICK i \in DOMAIN pipes :
              IsPipe(i, n) /\ pipes' = [pipes EXCEPT ![i].peer = c] /\ UNCHANGED <<told, read>>
        BY <1>2 DEF ConnectPipe
    <2> DEFINE e == [pipes[i] EXCEPT !.peer = c]
    <2>2. e \in PipeRecord /\ e.name = n /\ e.buffer = pipes[i].buffer
        <3>1. pipes[i] \in PipeRecord /\ pipes[i].name = n
            BY <2>1, PipeMeant
        <3> QED
            BY <3>1 DEF PipeRecord
    <2>3. pipes' = [pipes EXCEPT ![i] = e]
        BY <2>1
    <2> HIDE DEF e
    <2>5. told[n] = read[n] \o e.buffer
        BY ZenonT(60), <2>1, <2>2, PipeMeant
    <2>4. /\ told[n] \in Seq(Byte) /\ read[n] \in Seq(Byte)
          /\ told' = [told EXCEPT ![n] = told[n]] /\ read' = [read EXCEPT ![n] = read[n]]
        BY <2>1 DEF PipeInv
    <2>11. IsPipe(i, n)
        BY <2>1
    <2> QED
        BY <2>11, <2>2, <2>3, <2>4, <2>5, PipeStep, Zenon
<1>3. ASSUME NEW n \in Name, NEW data \in SmallSeq(Byte, 2), WritePipe(n, data) PROVE PipeInv'
    <2>1. PICK i \in DOMAIN pipes :
              /\ IsPipe(i, n)
              /\ pipes' = [pipes EXCEPT ![i].buffer = @ \o Fitting(pipes[i].buffer, data)]
              /\ told' = [told EXCEPT ![n] = @ \o Fitting(pipes[i].buffer, data)]
              /\ UNCHANGED read
        BY <1>3 DEF WritePipe
    <2> DEFINE buffer == pipes[i].buffer
               part == Fitting(buffer, data)
               e == [pipes[i] EXCEPT !.buffer = buffer \o part]
    <2>2. /\ pipes[i] \in PipeRecord /\ pipes[i].name = n
          /\ buffer \in Seq(Byte) /\ told[n] = read[n] \o buffer
        BY <2>1, PipeMeant DEF PipeRecord
    <2>3. part \in Seq(Byte)
        <3> DEFINE m == IF Len(data) < PipeSize - Len(buffer) THEN Len(data)
                        ELSE PipeSize - Len(buffer)
        <3>1. data \in Seq(Byte)
            BY SmallIsSeq
        <3>2. Len(data) \in Nat /\ Len(buffer) \in Nat /\ PipeSize \in Nat
            BY <2>2, <3>1, LenProperties, IpcSizeAssumption
        <3>3. m \in Int /\ m <= Len(data)
            BY <3>2
        <3>4. \A j \in 1 .. m : data[j] \in Byte
            BY <3>1, <3>2, <3>3, ElementOfSeq
        <3>5. part = SubSeq(data, 1, m)
            BY DEF Fitting
        <3> HIDE DEF m
        <3> QED
            BY <3>3, <3>4, <3>5, SubSeqProperties
    <2>4. /\ told[n] \in Seq(Byte) /\ read[n] \in Seq(Byte)
          /\ told' = [told EXCEPT ![n] = told[n] \o part]
          /\ read' = [read EXCEPT ![n] = read[n]]
        BY <2>1 DEF PipeInv
    <2> HIDE DEF part
    <2>5. /\ buffer \o part \in Seq(Byte) /\ told[n] \o part \in Seq(Byte)
          /\ told[n] \o part = read[n] \o (buffer \o part)
        <3> HIDE DEF buffer
        <3>1. buffer \o part \in Seq(Byte) /\ told[n] \o part \in Seq(Byte)
            BY <2>2, <2>3, <2>4, ConcatProperties
        <3>2. (read[n] \o buffer) \o part = read[n] \o (buffer \o part)
            <4>1. read[n] \in Seq(Byte) /\ buffer \in Seq(Byte) /\ part \in Seq(Byte)
                BY <2>2, <2>3, <2>4
            <4> QED
                BY <4>1, Regroup, Zenon
        <3> QED
            BY <3>1, <3>2, <2>2
    <2>6. e \in PipeRecord /\ e.name = n /\ e.buffer = buffer \o part
        BY <2>2, <2>5 DEF PipeRecord
    <2>7. pipes' = [pipes EXCEPT ![i] = e]
        BY <2>1 DEF part
    <2> HIDE DEF e, buffer
    <2>8. told[n] \o part = read[n] \o e.buffer
        BY <2>5, <2>6
    <2>11. IsPipe(i, n)
        BY <2>1
    <2> QED
        BY <2>11, <2>4, <2>5, <2>6, <2>7, <2>8, PipeStep, Zenon
<1>4. ASSUME NEW n \in Name, NEW max \in 1 .. 2, ReadPipe(n, max) PROVE PipeInv'
    <2>1. PICK i \in DOMAIN pipes :
              LET k == IF max < Len(pipes[i].buffer) THEN max ELSE Len(pipes[i].buffer)
              IN  /\ IsPipe(i, n)
                  /\ read' = [read EXCEPT ![n] = @ \o SubSeq(pipes[i].buffer, 1, k)]
                  /\ pipes' = [pipes EXCEPT ![i].buffer = SubSeq(@, k + 1, Len(@))]
                  /\ UNCHANGED told
        BY <1>4 DEF ReadPipe
    <2> DEFINE buffer == pipes[i].buffer
               k == IF max < Len(buffer) THEN max ELSE Len(buffer)
               taken == SubSeq(buffer, 1, k)
               left == SubSeq(buffer, k + 1, Len(buffer))
               e == [pipes[i] EXCEPT !.buffer = left]
    <2>2. /\ pipes[i] \in PipeRecord /\ pipes[i].name = n
          /\ buffer \in Seq(Byte) /\ told[n] = read[n] \o buffer /\ Len(buffer) \in Nat
        BY <2>1, PipeMeant, LenProperties DEF PipeRecord
    <2>3. k \in 0 .. Len(buffer)
        BY <2>2
    <2>4. taken \in Seq(Byte) /\ left \in Seq(Byte)
        <3>1. /\ \A j \in 1 .. k : buffer[j] \in Byte
              /\ \A j \in k + 1 .. Len(buffer) : buffer[j] \in Byte
            BY <2>2, <2>3, ElementOfSeq
        <3> HIDE DEF k, buffer
        <3> QED
            BY <3>1, <2>2, <2>3, SubSeqProperties
    <2>5. taken \o left = buffer
        <3> HIDE DEF k, buffer
        <3>1. /\ 1 \in 1 .. Len(buffer) + 1 /\ k \in 1 - 1 .. Len(buffer)
              /\ Len(buffer) \in k .. Len(buffer)
            BY <2>2, <2>3
        <3>2. taken \o left = SubSeq(buffer, 1, Len(buffer))
            BY <2>2, <3>1, ConcatAdjacentSubSeq
        <3> QED
            BY <3>2, <2>2, SubSeqFull
    <2>6. /\ told[n] \in Seq(Byte) /\ read[n] \in Seq(Byte)
          /\ told' = [told EXCEPT ![n] = told[n]]
          /\ read' = [read EXCEPT ![n] = read[n] \o taken]
        BY <2>1 DEF PipeInv
    <2>7. pipes' = [pipes EXCEPT ![i] = e]
        BY <2>1
    <2> HIDE DEF taken, left
    <2>8. e \in PipeRecord /\ e.name = n /\ e.buffer = left
        BY <2>2, <2>4 DEF PipeRecord
    <2>9. read[n] \o taken \in Seq(Byte) /\ told[n] = (read[n] \o taken) \o left
        <3> HIDE DEF buffer
        <3>1. read[n] \o taken \in Seq(Byte)
            BY <2>4, <2>6, ConcatProperties
        <3>2. (read[n] \o taken) \o left = read[n] \o (taken \o left)
            BY <2>4, <2>6, Regroup
        <3> QED
            BY <3>1, <3>2, <2>2, <2>5
    <2> HIDE DEF e, buffer
    <2>10. told[n] = (read[n] \o taken) \o e.buffer
        BY <2>8, <2>9
    <2>11. IsPipe(i, n)
        BY <2>1
    <2> QED
        BY <2>11, <2>6, <2>7, <2>8, <2>9, <2>10, PipeStep, Zenon
<1>5. CASE UNCHANGED pipeVars
    BY <1>5 DEF pipeVars, PipeInv
<1> QED
    BY <1>1, <1>2, <1>3, <1>4, <1>5 DEF PipeNext

\* A buffer never holds more than it has room for.
PipeFits == \A i \in 1 .. Len(pipes) : Len(pipes[i].buffer) <= PipeSize

LEMMA BufferFits ==
    ASSUME PipeInv, PipeFits, NEW i \in DOMAIN pipes, NEW STATE e, e \in PipeRecord,
           Len(e.buffer) <= PipeSize, pipes' = [pipes EXCEPT ![i] = e]
    PROVE  PipeFits'
<1>1. i \in 1 .. Len(pipes)
    BY LenProperties DEF PipeInv
<1>2. /\ Len(pipes') = Len(pipes)
      /\ \A j \in 1 .. Len(pipes) : pipes'[j] = IF j = i THEN e ELSE pipes[j]
    BY <1>1, ExceptSeq, LenProperties DEF PipeInv
<1> QED
    BY <1>2 DEF PipeFits

\* What is written is cut to the room there is, and a read makes room.
LEMMA NextFits == PipeInv /\ PipeFits /\ [PipeNext]_pipeVars => PipeFits'
<1> SUFFICES ASSUME PipeInv, PipeFits, [PipeNext]_pipeVars PROVE PipeFits'
    OBVIOUS
<1>0. /\ PipeSize \in Nat
      /\ \A i \in DOMAIN pipes : /\ pipes[i] \in PipeRecord /\ pipes[i].buffer \in Seq(Byte)
                                 /\ Len(pipes[i].buffer) \in Nat
                                 /\ Len(pipes[i].buffer) <= PipeSize
    <2>1. DOMAIN pipes = 1 .. Len(pipes)
        BY LenProperties DEF PipeInv
    <2>2. \A i \in 1 .. Len(pipes) : pipes[i] \in PipeRecord
        BY ElementOfSeq DEF PipeInv
    <2>3. \A r \in PipeRecord : r.buffer \in Seq(Byte) /\ Len(r.buffer) \in Nat
        BY LenProperties DEF PipeRecord
    <2> QED
        BY <2>1, <2>2, <2>3, IpcSizeAssumption DEF PipeFits
<1>1. ASSUME NEW n \in Name, NEW d \in Direction, CreatePipe(n, d) PROVE PipeFits'
    <2> DEFINE new == [name |-> n, direction |-> d, peer |-> Absent, buffer |-> << >>]
    <2>1. new \in PipeRecord /\ new.buffer = << >> /\ Len(<< >>) = 0
        BY EmptySeq DEF PipeRecord
    <2>2. pipes' = Append(pipes, new)
        BY <1>1 DEF CreatePipe
    <2> HIDE DEF new
    <2>3. /\ Len(pipes') = Len(pipes) + 1 /\ Len(pipes) \in Nat
          /\ \A i \in 1 .. Len(pipes) : pipes'[i] = pipes[i]
          /\ pipes'[Len(pipes) + 1] = new
        BY <2>1, <2>2, AppendProperties, LenProperties DEF PipeInv
    <2> QED
        BY <1>0, <2>1, <2>3 DEF PipeFits
<1>2. ASSUME NEW n \in Name, NEW c \in Client, ConnectPipe(n, c) PROVE PipeFits'
    <2>1. PICK i \in DOMAIN pipes : pipes' = [pipes EXCEPT ![i].peer = c]
        BY <1>2 DEF ConnectPipe
    <2> DEFINE e == [pipes[i] EXCEPT !.peer = c]
    <2>2. pipes[i] \in PipeRecord
        BY <1>0
    <2>3. e \in PipeRecord /\ e.buffer = pipes[i].buffer
        BY <2>2 DEF PipeRecord
    <2>4. pipes' = [pipes EXCEPT ![i] = e]
        BY <2>1
    <2> HIDE DEF e
    <2> QED
        BY <1>0, <2>3, <2>4, BufferFits
<1>3. ASSUME NEW n \in Name, NEW data \in SmallSeq(Byte, 2), WritePipe(n, data) PROVE PipeFits'
    <2>1. PICK i \in DOMAIN pipes :
              pipes' = [pipes EXCEPT ![i].buffer = @ \o Fitting(pipes[i].buffer, data)]
        BY <1>3 DEF WritePipe
    <2> DEFINE b == pipes[i].buffer
               m == IF Len(data) < PipeSize - Len(b) THEN Len(data) ELSE PipeSize - Len(b)
               cut == SubSeq(data, 1, m)
               e == [pipes[i] EXCEPT !.buffer = b \o cut]
    <2>2. /\ pipes[i] \in PipeRecord /\ b \in Seq(Byte) /\ Len(b) \in Nat /\ Len(b) <= PipeSize
          /\ data \in Seq(Byte) /\ Len(data) \in Nat /\ PipeSize \in Nat
        <3>1. data \in Seq(Byte)
            BY SmallIsSeq
        <3> QED
            BY <1>0, <3>1, LenProperties
    <2>3. pipes' = [pipes EXCEPT ![i] = e]
        BY <2>1 DEF Fitting
    <2> HIDE DEF b
    <2>4. m \in 0 .. Len(data) /\ Len(b) + m <= PipeSize
        BY <2>2
    <2> HIDE DEF m
    <2>5. \A j \in 1 .. m : data[j] \in Byte
        BY <2>2, <2>4, ElementOfSeq
    <2>6. cut \in Seq(Byte) /\ Len(cut) = m
        BY <2>4, <2>5, SubSeqProperties
    <2> HIDE DEF cut
    <2>7. b \o cut \in Seq(Byte) /\ Len(b \o cut) = Len(b) + m
        BY <2>2, <2>6, ConcatProperties
    <2>8. e \in PipeRecord /\ e.buffer = b \o cut
        BY <2>2, <2>7 DEF PipeRecord
    <2> HIDE DEF e
    <2>9. Len(e.buffer) <= PipeSize
        BY <2>4, <2>7, <2>8
    <2> QED
        BY <2>3, <2>8, <2>9, BufferFits
<1>4. ASSUME NEW n \in Name, NEW max \in 1 .. 2, ReadPipe(n, max) PROVE PipeFits'
    <2>1. PICK i \in DOMAIN pipes :
              LET k == IF max < Len(pipes[i].buffer) THEN max ELSE Len(pipes[i].buffer)
              IN  pipes' = [pipes EXCEPT ![i].buffer = SubSeq(@, k + 1, Len(@))]
        BY <1>4 DEF ReadPipe
    <2> DEFINE b == pipes[i].buffer
               k == IF max < Len(b) THEN max ELSE Len(b)
               left == SubSeq(b, k + 1, Len(b))
               e == [pipes[i] EXCEPT !.buffer = left]
    <2>2. /\ pipes[i] \in PipeRecord /\ b \in Seq(Byte) /\ Len(b) \in Nat /\ Len(b) <= PipeSize
        BY <1>0
    <2>3. pipes' = [pipes EXCEPT ![i] = e]
        BY <2>1
    <2> HIDE DEF b
    <2>4. k \in 0 .. Len(b)
        BY <2>2
    <2> HIDE DEF k
    <2>5. \A j \in k + 1 .. Len(b) : b[j] \in Byte
        BY <2>2, <2>4, ElementOfSeq
    <2>6. left \in Seq(Byte) /\ Len(left) <= Len(b)
        BY <2>2, <2>4, <2>5, SubSeqProperties
    <2> HIDE DEF left
    <2>7. e \in PipeRecord /\ e.buffer = left
        BY <2>2, <2>6 DEF PipeRecord
    <2> HIDE DEF e
    <2>8. Len(e.buffer) <= PipeSize
        BY <1>0, <2>2, <2>6, <2>7, LenProperties
    <2> QED
        BY <2>3, <2>7, <2>8, BufferFits
<1>5. CASE UNCHANGED pipeVars
    BY <1>5 DEF pipeVars, PipeFits
<1> QED
    BY <1>1, <1>2, <1>3, <1>4, <1>5 DEF PipeNext

\* The type of the pipes bounds their buffers.
LEMMA PipeTypes == PipeInv /\ PipeFits => PipeTypeOK
<1> SUFFICES ASSUME PipeInv, PipeFits PROVE PipeTypeOK
    OBVIOUS
<1> DEFINE R == [name : Name, direction : Direction, peer : Client \union {Absent},
                 buffer : SmallSeq(Byte, PipeSize)]
<1>1. PipeSize \in Nat
    BY IpcSizeAssumption
<1>2. \A s \in Seq(Byte) : Len(s) <= PipeSize => s \in SmallSeq(Byte, PipeSize)
    BY <1>1, LenProperties DEF SmallSeq
<1>3. \A r \in PipeRecord : Len(r.buffer) <= PipeSize => r \in R
    BY <1>2 DEF PipeRecord
<1> HIDE DEF R
<1>4. \A i \in 1 .. Len(pipes) : pipes[i] \in R
    BY <1>3, ElementOfSeq DEF PipeInv, PipeFits
<1>5. pipes \in [1 .. Len(pipes) -> R] /\ Len(pipes) \in Nat
    BY <1>4, LenProperties DEF PipeInv
<1>6. pipes \in Seq(R)
    BY <1>5, SeqDef
<1> QED
    BY <1>6 DEF PipeInv, PipeTypeOK, R

-----------------------------------------------------------------------------
(* Sections and ports.                                                     *)

\* A name whose section was not created has stored nothing.
SectionInv ==
    /\ SectionTypeOK /\ \A n \in Name : section[n].data = stored[n]
    /\ \A n \in Name : section[n].size = 0 => stored[n] = Zero

LEMMA InitSection == SectionInit => SectionInv
<1> SUFFICES ASSUME SectionInit PROVE SectionInv
    OBVIOUS
<1>1. 0 \in 0 .. SectionSize /\ Zero \in [Offset -> Byte \union {0}]
    BY IpcSizeAssumption DEF Zero
<1> QED
    BY <1>1 DEF SectionInit, SectionInv, SectionTypeOK, NoSection

LEMMA NextSection == SectionInv /\ [SectionNext]_sectionVars => SectionInv'
<1> SUFFICES ASSUME SectionInv, [SectionNext]_sectionVars PROVE SectionInv'
    OBVIOUS
<1> USE DEF SectionInv
<1> DEFINE Section == [size : 0 .. SectionSize, data : [Offset -> Byte \union {0}],
                       mapped : SUBSET Client]
<1>1. ASSUME NEW n \in Name, NEW size \in 1 .. SectionSize, NEW c \in Client,
             CreateSection(n, size, c)
      PROVE  SectionInv'
    <2> DEFINE e == [size |-> size, data |-> Zero, mapped |-> {c}]
    <2>1. e \in Section /\ e.data = Zero /\ e.size # 0
        BY IpcSizeAssumption DEF Zero
    <2>2. section' = [section EXCEPT ![n] = e] /\ section[n].size = 0 /\ UNCHANGED stored
        BY <1>1 DEF CreateSection
    <2> HIDE DEF e
    <2> QED
        BY <2>1, <2>2 DEF SectionTypeOK
<1>2. ASSUME NEW n \in Name, NEW c \in Client, MapView(n, c) \/ UnmapView(n, c)
      PROVE  SectionInv'
    <2>1. PICK views \in SUBSET Client :
              section' = [section EXCEPT ![n].mapped = views] /\ UNCHANGED stored
        BY <1>2 DEF MapView, UnmapView, SectionTypeOK
    <2> DEFINE e == [section[n] EXCEPT !.mapped = views]
    <2>2. e \in Section /\ e.data = section[n].data /\ e.size = section[n].size
        BY DEF SectionTypeOK
    <2>3. section' = [section EXCEPT ![n] = e]
        BY <2>1
    <2> HIDE DEF e
    <2> QED
        BY <2>1, <2>2, <2>3 DEF SectionTypeOK
<1>3. ASSUME NEW n \in Name, NEW o \in Offset, NEW b \in Byte, NEW len \in 1 .. 2,
             WriteSection(n, o, b, len)
      PROVE  SectionInv'
    <2> DEFINE filled == [p \in Offset |-> IF p \in Reach(n, o, len) THEN b ELSE stored[n][p]]
               e == [section[n] EXCEPT !.data = filled]
    <2>1. section[n].data = stored[n] /\ stored[n] \in [Offset -> Byte \union {0}]
        BY DEF SectionTypeOK
    <2>2. filled \in [Offset -> Byte \union {0}]
        BY <2>1
    <2>3. stored' = [stored EXCEPT ![n] = filled]
        BY <1>3 DEF WriteSection
    <2>4. section' = [section EXCEPT ![n] = e]
        BY <1>3, <2>1 DEF WriteSection
    <2>5. section[n].size # 0
        BY <1>3, IpcSizeAssumption DEF WriteSection, SectionTypeOK, Offset
    <2> HIDE DEF filled
    <2>6. e \in Section /\ e.data = filled /\ e.size = section[n].size
        BY <2>2 DEF SectionTypeOK
    <2> HIDE DEF e
    <2> QED
        BY <2>2, <2>3, <2>4, <2>5, <2>6 DEF SectionTypeOK
<1>4. CASE UNCHANGED sectionVars
    BY <1>4 DEF sectionVars, SectionTypeOK
<1> QED
    BY <1>1, <1>2, <1>3, <1>4 DEF SectionNext

-----------------------------------------------------------------------------
(* Ports.  The id of the next message is one more than the number of messages *)
(* sent; a name without a port has seen none.                                 *)

PortRecord == [open : BOOLEAN, server : Client \union {Absent}, clients : SUBSET Client,
               queue : Seq(Message), nextId : 1 .. MaxSent + 1]

\* A port with what was sent to it and what was taken from it.
PortKept(e, sent, taken) ==
    /\ e.queue \in Seq(Message) /\ sent \in Seq(Message) /\ taken \in Seq(Message)
    /\ sent = taken \o e.queue
    /\ e.nextId = Len(sent) + 1
    /\ \A i \in 1 .. Len(sent) : sent[i].id = i
    /\ ~e.open => e.queue = << >> /\ sent = << >> /\ taken = << >>

PortInv ==
    /\ PortTypeOK
    /\ \A n \in Name : PortKept(port[n], posted[n], received[n])

LEMMA RegroupMessages == \A s, t, u \in Seq(Message) : (s \o t) \o u = s \o (t \o u)
  BY ConcatAssociative

LEMMA AppendMessage ==
    \A s \in Seq(Message), m \in Message :
        Append(s, m) = s \o <<m>> /\ <<m>> \in Seq(Message) /\ Append(s, m) \in Seq(Message)
  BY AppendIsConcat, AppendProperties

\* A sequence is its first element and the rest.
LEMMA HeadThenTail ==
    ASSUME NEW q \in Seq(Message), q # << >>
    PROVE  Head(q) \in Message /\ Tail(q) \in Seq(Message) /\ q = <<Head(q)>> \o Tail(q)
<1>1. Len(q) \in Nat \ {0}
    BY EmptySeq, LenProperties
<1>2. Head(q) = q[1] /\ q[1] \in Message /\ Tail(q) \in Seq(Message)
    BY <1>1, HeadTailProperties, ElementOfSeq
<1>3. q = SubSeq(q, 1, Len(q)) /\ Tail(q) = SubSeq(q, 2, Len(q))
    BY <1>1, SubSeqFull, TailIsSubSeq
<1>4. SubSeq(q, 1, Len(q)) = <<q[1]>> \o SubSeq(q, 1 + 1, Len(q))
    BY <1>1, SubSeqRecursiveFirst
<1> QED
    BY <1>2, <1>3, <1>4

\* A message more: it goes to the end of the queue with the next id.
LEMMA SentIsKept ==
    ASSUME NEW e, NEW sent, NEW taken, PortKept(e, sent, taken),
           NEW m \in Message, m.id = e.nextId,
           NEW f, f.queue = Append(e.queue, m), f.nextId = e.nextId + 1, f.open
    PROVE  PortKept(f, Append(sent, m), taken)
<1>1. e.queue \in Seq(Message) /\ sent \in Seq(Message) /\ taken \in Seq(Message)
    BY DEF PortKept
<1>2. /\ Len(Append(sent, m)) = Len(sent) + 1 /\ Len(sent) \in Nat
      /\ \A i \in 1 .. Len(sent) : Append(sent, m)[i] = sent[i]
      /\ Append(sent, m)[Len(sent) + 1] = m
    BY <1>1, AppendProperties, LenProperties
<1>3. Append(sent, m) = taken \o f.queue
    <2>1. sent = taken \o e.queue
        BY DEF PortKept
    <2>2. (taken \o e.queue) \o <<m>> = taken \o (e.queue \o <<m>>)
        BY <1>1, AppendMessage, RegroupMessages
    <2> QED
        BY <1>1, <2>1, <2>2, AppendMessage
<1>4. ASSUME NEW i \in 1 .. Len(Append(sent, m)) PROVE Append(sent, m)[i].id = i
    <2>1. CASE i \in 1 .. Len(sent)
        BY <2>1, <1>2 DEF PortKept
    <2>2. CASE i = Len(sent) + 1
        <3>1. m.id = Len(sent) + 1
            BY DEF PortKept
        <3> QED
            BY <3>1, <2>2, <1>2
    <2> QED
        BY <2>1, <2>2, <1>2
<1>5. Append(sent, m) \in Seq(Message) /\ f.queue \in Seq(Message)
    BY <1>1, AppendMessage
<1>6. f.nextId = Len(Append(sent, m)) + 1
    BY <1>2 DEF PortKept
<1> QED
    BY <1>1, <1>3, <1>4, <1>5, <1>6 DEF PortKept

\* A message less: the oldest one is taken.
LEMMA TakenIsKept ==
    ASSUME NEW e, NEW sent, NEW taken, PortKept(e, sent, taken), e.queue # << >>,
           NEW f, f.queue = Tail(e.queue), f.nextId = e.nextId, f.open <=> e.open
    PROVE  PortKept(f, sent, Append(taken, Head(e.queue)))
<1>1. e.queue \in Seq(Message) /\ sent \in Seq(Message) /\ taken \in Seq(Message) /\ e.open
    BY DEF PortKept
<1> DEFINE h == Head(e.queue)
           t == Tail(e.queue)
<1>2. h \in Message /\ t \in Seq(Message) /\ e.queue = <<h>> \o t
    BY <1>1, HeadThenTail
<1> HIDE DEF h, t
<1>3. Append(taken, h) = taken \o <<h>> /\ <<h>> \in Seq(Message)
      /\ Append(taken, h) \in Seq(Message)
    BY <1>1, <1>2, AppendMessage
<1>4. sent = Append(taken, h) \o t
    <2>1. sent = taken \o (<<h>> \o t)
        BY <1>2 DEF PortKept
    <2>2. taken \in Seq(Message) /\ <<h>> \in Seq(Message) /\ t \in Seq(Message)
        BY <1>1, <1>2, <1>3
    <2>3. (taken \o <<h>>) \o t = taken \o (<<h>> \o t)
        BY <2>2, RegroupMessages, Zenon
    <2> QED
        BY <2>1, <2>3, <1>3
<1>5. f.queue = t
    BY DEF t
<1>6. PortKept(f, sent, Append(taken, h))
    BY <1>1, <1>2, <1>3, <1>4, <1>5 DEF PortKept
<1> QED
    BY <1>6 DEF h

\* What a step on the port of one name has to show.
LEMMA PortStep ==
    ASSUME PortInv, NEW n \in Name, NEW STATE e, e \in PortRecord, NEW STATE p, NEW STATE r,
           port' = [port EXCEPT ![n] = e], posted' = [posted EXCEPT ![n] = p],
           received' = [received EXCEPT ![n] = r], PortKept(e, p, r)
    PROVE  PortInv'
<1>1. p \in Seq(Message) /\ r \in Seq(Message)
    BY DEF PortKept
<1>2. PortTypeOK'
    BY <1>1 DEF PortInv, PortTypeOK, PortRecord
<1>3. ASSUME NEW m \in Name PROVE PortKept(port'[m], posted'[m], received'[m])
    <2>1. CASE m = n
        <3>1. port'[m] = e /\ posted'[m] = p /\ received'[m] = r
            BY <2>1 DEF PortInv, PortTypeOK
        <3> QED
            BY <3>1
    <2>2. CASE m # n
        <3>1. port'[m] = port[m] /\ posted'[m] = posted[m] /\ received'[m] = received[m]
            BY <2>2 DEF PortInv, PortTypeOK
        <3>2. PortKept(port[m], posted[m], received[m])
            BY DEF PortInv
        <3> QED
            BY <3>1, <3>2
    <2> QED
        BY <2>1, <2>2
<1>4. \A m \in Name : PortKept(port[m], posted[m], received[m])'
    BY <1>3 DEF PortKept
<1> QED
    BY <1>2, <1>4 DEF PortInv

LEMMA InitPort == PortInit => PortInv
<1> SUFFICES ASSUME PortInit PROVE PortInv
    OBVIOUS
<1>1. NoPort \in PortRecord /\ NoPort.queue = << >> /\ NoPort.nextId = 1 /\ ~NoPort.open
    BY EmptySeq, IpcSizeAssumption DEF NoPort, PortRecord
<1>2. << >> \in Seq(Message) /\ Len(<< >>) = 0
    BY EmptySeq
<1>3. << >> \o << >> = << >>
    BY <1>2, ConcatEmptySeq
<1>4. PortTypeOK
    BY <1>1, <1>2 DEF PortInit, PortTypeOK, PortRecord
<1> HIDE DEF NoPort
<1>5. PortKept(NoPort, << >>, << >>)
    BY <1>1, <1>2, <1>3 DEF PortKept
<1> QED
    BY <1>4, <1>5 DEF PortInit, PortInv

LEMMA NextPort == PortInv /\ [PortNext]_portVars => PortInv'
<1> SUFFICES ASSUME PortInv, [PortNext]_portVars PROVE PortInv'
    OBVIOUS
<1>1. ASSUME NEW n \in Name
      PROVE  /\ port[n] \in PortRecord /\ PortKept(port[n], posted[n], received[n])
             /\ posted' = posted => posted' = [posted EXCEPT ![n] = posted[n]]
             /\ received' = received => received' = [received EXCEPT ![n] = received[n]]
    BY DEF PortInv, PortTypeOK, PortRecord
<1>2. ASSUME NEW n \in Name, NEW c \in Client, CreatePort(n, c) PROVE PortInv'
    <2> DEFINE e == [NoPort EXCEPT !.open = TRUE, !.server = c]
    <2>1. port' = [port EXCEPT ![n] = e] /\ ~port[n].open /\ UNCHANGED <<posted, received>>
        BY <1>2 DEF CreatePort
    <2>2. e.queue = << >> /\ e.nextId = 1 /\ e.open
        BY DEF NoPort
    <2>3. NoPort \in PortRecord
        BY EmptySeq, IpcSizeAssumption DEF NoPort, PortRecord
    <2>4. e \in PortRecord
        BY <2>3 DEF PortRecord
    <2> HIDE DEF e
    <2>5. PortKept(e, posted[n], received[n])
        <3>1. PortKept(port[n], posted[n], received[n])
            BY <1>1
        <3>2. /\ port[n].queue = << >> /\ posted[n] = << >> /\ received[n] = << >>
              /\ port[n].nextId = Len(posted[n]) + 1
            BY <3>1, <2>1 DEF PortKept
        <3>3. Len(<< >>) + 1 = 1
            OBVIOUS
        <3> QED
            BY <3>1, <3>2, <3>3, <2>2 DEF PortKept
    <2> QED
        BY <2>1, <2>4, <2>5, <1>1, PortStep, Zenon
<1>3. ASSUME NEW n \in Name, NEW c \in Client, ConnectPort(n, c) PROVE PortInv'
    <2> DEFINE e == [port[n] EXCEPT !.clients = @ \union {c}]
    <2>1. port' = [port EXCEPT ![n] = e] /\ port[n].open /\ UNCHANGED <<posted, received>>
        BY <1>3 DEF ConnectPort
    <2>2. e \in PortRecord /\ e.queue = port[n].queue /\ e.nextId = port[n].nextId
        BY <1>1 DEF PortRecord
    <2>3. e.open
        BY <2>1, <1>1 DEF PortRecord
    <2> HIDE DEF e
    <2>4. PortKept(e, posted[n], received[n])
        BY <2>1, <2>2, <2>3, <1>1 DEF PortKept
    <2> QED
        BY <2>1, <2>2, <2>4, <1>1, PortStep, Zenon
<1>4. ASSUME NEW n \in Name, NEW c \in Client, SendMessage(n, c) PROVE PortInv'
    <2> DEFINE m == [sender |-> c, id |-> port[n].nextId]
               q == Append(port[n].queue, m)
               e == [port[n] EXCEPT !.queue = q, !.nextId = port[n].nextId + 1]
    <2>1. /\ port' = [port EXCEPT ![n] = e] /\ port[n].open /\ port[n].nextId <= MaxSent
          /\ posted' = [posted EXCEPT ![n] = Append(posted[n], m)] /\ UNCHANGED received
        BY <1>4 DEF SendMessage
    <2>2. port[n] \in PortRecord /\ port[n].queue \in Seq(Message)
          /\ port[n].nextId \in 1 .. MaxSent + 1 /\ MaxSent \in Nat
        BY <1>1, IpcSizeAssumption DEF PortRecord
    <2>3. port[n].nextId \in 1 .. MaxSent /\ port[n].nextId + 1 \in 1 .. MaxSent + 1
        BY <2>1, <2>2
    <2>4. m \in Message /\ m.id = port[n].nextId
        BY <2>3 DEF Message
    <2> HIDE DEF m
    <2>5. q \in Seq(Message) /\ q = Append(port[n].queue, m)
        BY <2>2, <2>4, AppendMessage
    <2> HIDE DEF q
    <2>6. e \in PortRecord
        BY <2>2, <2>3, <2>5 DEF PortRecord
    <2>7. e.queue = q /\ e.nextId = port[n].nextId + 1
        BY <2>2 DEF PortRecord
    <2>8. e.open
        BY <2>1, <2>2 DEF PortRecord
    <2> HIDE DEF e
    <2>9. PortKept(e, Append(posted[n], m), received[n])
        BY <2>4, <2>5, <2>7, <2>8, <1>1, SentIsKept
    <2> QED
        BY <2>1, <2>6, <2>9, <1>1, PortStep, Zenon
<1>5. ASSUME NEW n \in Name, ReceiveMessage(n) PROVE PortInv'
    <2> DEFINE q == Tail(port[n].queue)
               h == Head(port[n].queue)
               e == [port[n] EXCEPT !.queue = q]
    <2>1. /\ port' = [port EXCEPT ![n] = e] /\ port[n].queue # << >> /\ UNCHANGED posted
          /\ received' = [received EXCEPT ![n] = Append(received[n], h)]
        BY <1>5 DEF ReceiveMessage
    <2>2. port[n] \in PortRecord /\ port[n].queue \in Seq(Message)
        BY <1>1 DEF PortRecord
    <2>3. q \in Seq(Message)
        BY <2>1, <2>2, HeadThenTail
    <2>4. q = Tail(port[n].queue) /\ h = Head(port[n].queue)
        OBVIOUS
    <2> HIDE DEF q, h
    <2>5. e \in PortRecord
        BY <2>2, <2>3 DEF PortRecord
    <2>6. e.queue = q /\ e.nextId = port[n].nextId
        BY <2>2 DEF PortRecord
    <2>7. e.open <=> port[n].open
        BY <2>2 DEF PortRecord
    <2> HIDE DEF e
    <2>8. PortKept(e, posted[n], Append(received[n], h))
        BY <2>1, <2>4, <2>6, <2>7, <1>1, TakenIsKept
    <2> QED
        BY <2>1, <2>5, <2>8, <1>1, PortStep, Zenon
<1>6. CASE UNCHANGED portVars
    BY <1>6 DEF portVars, PortInv, PortTypeOK, PortKept
<1> QED
    BY <1>2, <1>3, <1>4, <1>5, <1>6 DEF PortNext

-----------------------------------------------------------------------------
\* The invariants of the three namespaces say that nothing is lost.
LEMMA NamespacesShow == PipeInv /\ SectionInv /\ PortInv => NothingLost
<1> SUFFICES ASSUME PipeInv, SectionInv, PortInv PROVE NothingLost
    OBVIOUS
<1>1. ASSUME NEW n \in Name, NEW i \in DOMAIN pipes, pipes[i].name = n
      PROVE  IF IsPipe(i, n) THEN told[n] = read[n] \o pipes[i].buffer
             ELSE pipes[i].buffer = << >>
    BY <1>1, LenProperties DEF PipeInv, IsPipe
<1>2. \A n \in Name : DOMAIN posted[n] = 1 .. Len(posted[n])
    BY LenProperties DEF PortInv, PortTypeOK
<1> QED
    BY <1>1, <1>2 DEF SectionInv, PortInv, PortKept, NothingLost

\* The three namespaces share no state, so a session is the conjunction of their
\* specifications.  Whatever is written, sent and read, by any processes under
\* any names and with buffers of any size: what a writer was told is written is
\* read in order and exactly once.
THEOREM NothingIsLost == PipeSpec /\ SectionSpec /\ PortSpec => []NothingLost
<1>1. PipeInv /\ SectionInv /\ PortInv => NothingLost
    BY NamespacesShow
<1>2. PipeSpec => []PipeInv
    BY InitPipe, NextPipe, PTL DEF PipeSpec
<1>3. SectionSpec => []SectionInv
    BY InitSection, NextSection, PTL DEF SectionSpec
<1>4. PortSpec => []PortInv
    BY InitPort, NextPort, PTL DEF PortSpec
<1> QED
    BY <1>1, <1>2, <1>3, <1>4, PTL

-----------------------------------------------------------------------------
(* Images: how much of a table is left when the entries that cannot be read *)
(* are passed over, and where the calls of a program lead.                  *)

\* What Remaining has kept of each prefix of a list.
KeptOf(list, passedOver) ==
    CHOOSE upTo : upTo = [i \in 0 .. Len(list) |->
        IF i = 0 THEN << >>
        ELSE IF list[i] \in passedOver THEN upTo[i - 1] ELSE Append(upTo[i - 1], list[i])]

\* The loop is defined: its turns, and its result.
LEMMA KeptTurns ==
    ASSUME NEW S, NEW list \in Seq(S), NEW passedOver
    PROVE  /\ KeptOf(list, passedOver)[0] = << >>
           /\ \A i \in 1 .. Len(list) : KeptOf(list, passedOver)[i] =
                  IF list[i] \in passedOver THEN KeptOf(list, passedOver)[i - 1]
                  ELSE Append(KeptOf(list, passedOver)[i - 1], list[i])
           /\ \A i \in 0 .. Len(list) : KeptOf(list, passedOver)[i] \in Seq(S)
           /\ Remaining(list, passedOver) = KeptOf(list, passedOver)[Len(list)]
<1> DEFINE V == Seq(S)
           n == Len(list)
           empty == << >>
           Turn(v, i) == IF list[i] \in passedOver THEN v ELSE Append(v, list[i])
           step == [i \in 1 .. n |-> [v \in V |-> Turn(v, i)]]
           Runs(g) == g = [i \in 0 .. n |->
                           IF i = 0 THEN << >>
                           ELSE IF list[i] \in passedOver THEN g[i - 1] ELSE Append(g[i - 1], list[i])]
           K == KeptOf(list, passedOver)
<1>1. n \in Nat /\ empty \in V
    OBVIOUS
<1>2. \A i \in 1 .. n : list[i] \in S
    OBVIOUS
<1>3. \A i \in 1 .. n, v \in V : Turn(v, i) \in V
    BY <1>2
<1>4. step \in [1 .. n -> [V -> V]]
    BY <1>3
<1>5. \A i \in 1 .. n, v \in V : step[i][v] = Turn(v, i)
    OBVIOUS
<1> HIDE DEF V, step, n, empty
<1>6. PICK f \in [0 .. n -> V] : f[0] = empty /\ \A i \in 1 .. n : f[i] = step[i][f[i - 1]]
    <2>1. LoopRuns(n, V, empty, step) # {}
        BY <1>1, <1>4, LoopIsDefined
    <2> QED
        BY <2>1 DEF LoopRuns
<1>7. ASSUME NEW i \in 1 .. n PROVE f[i] = Turn(f[i - 1], i)
    <2>1. i - 1 \in 0 .. n
        BY <1>1
    <2>2. f[i - 1] \in V
        BY <2>1
    <2> QED
        BY <1>5, <1>6, <2>2
<1>8. Runs(f)
    <2> DEFINE h == [i \in 0 .. n |->
                     IF i = 0 THEN << >>
                     ELSE IF list[i] \in passedOver THEN f[i - 1] ELSE Append(f[i - 1], list[i])]
    <2>1. \A i \in 0 .. n : f[i] = h[i]
        <3>1. h[0] = << >> /\ \A i \in 1 .. n : h[i] = Turn(f[i - 1], i)
            BY <1>1
        <3>2. \A i \in 0 .. n : i = 0 \/ i \in 1 .. n
            BY <1>1
        <3> HIDE DEF h, Turn
        <3> QED
            BY <1>6, <1>7, <3>1, <3>2 DEF empty
    <2> QED
        BY <2>1
<1>9. Runs(K)
    <2>1. K = CHOOSE g : Runs(g)
        BY DEF KeptOf, n
    <2> HIDE DEF Runs, K
    <2> QED
        BY <1>8, <2>1
<1> HIDE DEF K
<1>10. K[0] = << >> /\ \A i \in 1 .. n : K[i] = Turn(K[i - 1], i)
    <2>1. K = [i \in 0 .. n |->
               IF i = 0 THEN << >>
               ELSE IF list[i] \in passedOver THEN K[i - 1] ELSE Append(K[i - 1], list[i])]
        BY <1>9
    <2>2. 0 \in 0 .. n /\ \A i \in 1 .. n : i \in 0 .. n /\ i # 0
        BY <1>1
    <2> QED
        BY <2>1, <2>2, Zenon
<1>11. \A i \in 0 .. n : K[i] \in V
    <2> DEFINE Good == {i \in 0 .. n : K[i] \in V}
    <2>1. 0 \in Good
        BY <1>1, <1>10 DEF empty
    <2>2. ASSUME NEW i \in 0 .. n - 1, i \in Good PROVE i + 1 \in Good
        <3>1. i + 1 \in 1 .. n /\ i + 1 \in 0 .. n /\ (i + 1) - 1 = i /\ K[i] \in V
            BY <1>1, <2>2
        <3>2. K[i + 1] = Turn(K[i], i + 1)
            BY <1>10, <3>1
        <3> HIDE DEF Turn
        <3> QED
            BY <1>3, <3>1, <3>2
    <2> HIDE DEF Good
    <2>3. \A i \in 0 .. n - 1 : i \in Good => i + 1 \in Good
        BY <2>2
    <2>4. \A i \in 0 .. n : i \in Good
        BY <1>1, <2>1, <2>3, NumberInduction
    <2> QED
        BY <2>4 DEF Good
<1>12. Remaining(list, passedOver) = K[n]
    BY DEF Remaining, KeptOf, n, K
<1> QED
    BY <1>10, <1>11, <1>12 DEF V, n, K

\* Entries before the first that is passed over keep their place.
LEMMA RemainingKeeps ==
    ASSUME NEW S, NEW list \in Seq(S), NEW passedOver
    PROVE  /\ Remaining(list, passedOver) \in Seq(S)
           /\ \A k \in 1 .. Len(list) :
                  (\A i \in 1 .. k : list[i] \notin passedOver) =>
                      /\ k \in 1 .. Len(Remaining(list, passedOver))
                      /\ Remaining(list, passedOver)[k] = list[k]
<1> DEFINE n == Len(list)
           K == KeptOf(list, passedOver)
<1>1. n \in Nat /\ \A i \in 1 .. n : list[i] \in S
    OBVIOUS
<1>2. /\ K[0] = << >>
      /\ \A i \in 1 .. n : K[i] = IF list[i] \in passedOver THEN K[i - 1]
                                  ELSE Append(K[i - 1], list[i])
      /\ \A i \in 0 .. n : K[i] \in Seq(S)
      /\ Remaining(list, passedOver) = K[n]
    BY KeptTurns
<1> HIDE DEF n, K
<1>3. n \in 0 .. n
    BY <1>1
<1>4. ASSUME NEW k \in 1 .. n, \A i \in 1 .. k : list[i] \notin passedOver
      PROVE  k \in 1 .. Len(K[n]) /\ K[n][k] = list[k]
    <2> DEFINE Same(i) == IF i < k THEN Len(K[i]) = i
                          ELSE k \in 1 .. Len(K[i]) /\ K[i][k] = list[k]
               Good == {i \in 0 .. n : Same(i)}
    <2>1. 0 \in Good
        <3>1. Len(K[0]) = 0 /\ 0 < k
            BY <1>1, <1>2
        <3> QED
            BY <1>1, <3>1
    <2>2. ASSUME NEW i \in 0 .. n - 1, i \in Good PROVE i + 1 \in Good
        <3>1. /\ i \in Nat /\ i + 1 \in 1 .. n /\ i + 1 \in 0 .. n /\ i \in 0 .. n
              /\ (i + 1) - 1 = i /\ Same(i) /\ k \in Nat
            BY <1>1, <2>2
        <3>2. K[i + 1] = IF list[i + 1] \in passedOver THEN K[i] ELSE Append(K[i], list[i + 1])
            BY <1>2, <3>1
        <3>3. K[i] \in Seq(S) /\ list[i + 1] \in S /\ Len(K[i]) \in Nat
            BY <1>1, <1>2, <3>1
        <3>4. CASE i + 1 <= k
            <4>1. i + 1 \in 1 .. k /\ i < k
                BY <3>1, <3>4
            <4>2. K[i + 1] = Append(K[i], list[i + 1]) /\ Len(K[i]) = i
                BY <1>4, <3>1, <3>2, <4>1
            <4>3. Len(K[i + 1]) = i + 1 /\ K[i + 1][i + 1] = list[i + 1]
                <5>1. /\ Len(Append(K[i], list[i + 1])) = Len(K[i]) + 1
                      /\ Append(K[i], list[i + 1])[Len(K[i]) + 1] = list[i + 1]
                    BY <3>3, AppendProperties
                <5> QED
                    BY <4>2, <5>1
            <4> QED
                BY <3>1, <3>4, <4>3
        <3>5. CASE i + 1 > k
            <4>1. k \in 1 .. Len(K[i]) /\ K[i][k] = list[k] /\ ~ (i + 1 < k)
                BY <3>1, <3>5
            <4>2. /\ Len(Append(K[i], list[i + 1])) = Len(K[i]) + 1
                  /\ \A x \in 1 .. Len(K[i]) : Append(K[i], list[i + 1])[x] = K[i][x]
                BY <3>3, AppendProperties
            <4>3. k \in 1 .. Len(K[i + 1]) /\ K[i + 1][k] = list[k]
                BY <3>2, <3>3, <4>1, <4>2
            <4> QED
                BY <3>1, <4>1, <4>3
        <3> QED
            BY <3>1, <3>4, <3>5
    <2> HIDE DEF Good
    <2>3. \A i \in 0 .. n - 1 : i \in Good => i + 1 \in Good
        BY <2>2
    <2>4. n \in Good
        BY <1>1, <1>3, <2>1, <2>3, NumberInduction
    <2>5. Same(n) /\ ~ (n < k)
        BY <1>1, <2>4 DEF Good
    <2> QED
        BY <2>5
<1> QED
    BY <1>2, <1>3, <1>4 DEF n, K

\* The import table as it is read.
LEMMA ImportsAre ==
    ASSUME image \in Images
    PROVE  /\ Len(Imports) \in Nat /\ DOMAIN Imports = 1 .. Len(Imports)
           /\ \A d \in 1 .. Len(Imports) :
                  /\ Len(Imports[d].functions) \in Nat
                  /\ Imports[d].thunk \in Nat
                  /\ DOMAIN Imports[d].table = 1 .. Len(Imports[d].table)
                  /\ \A k \in 1 .. Len(Imports[d].table) :
                         (\A n \in 1 .. k : Imports[d].table[n] # Unreadable) =>
                             /\ k \in 1 .. Len(Imports[d].functions)
                             /\ Imports[d].functions[k] = Imports[d].table[k]
<1> DEFINE list == image.imports
           S == {list[i] : i \in DOMAIN list}
           named == Remaining(list, {d \in ToSet(list) : d.dll = Unreadable})
<1>1. list \in Seq(S) /\ \A i \in DOMAIN list : IsList(list[i].table) /\ list[i].thunk \in Nat
    BY ImageAssumption DEF IsList
<1>2. \A x \in S : IsList(x.table) /\ x.thunk \in Nat
    BY <1>1
<1> HIDE DEF S
<1>3. named \in Seq(S)
    BY <1>1, RemainingKeeps
<1> HIDE DEF list
<1>4. Imports = [i \in DOMAIN named |-> [dll |-> named[i].dll, table |-> named[i].table,
                    functions |-> Functions(named[i].table), thunk |-> named[i].thunk]]
    BY DEF Imports, list
<1> HIDE DEF named
<1>5. DOMAIN named = 1 .. Len(named) /\ Len(named) \in Nat /\ \A d \in 1 .. Len(named) : named[d] \in S
    BY <1>3
<1>6. /\ DOMAIN Imports = 1 .. Len(named)
      /\ \A d \in 1 .. Len(named) : /\ Imports[d].table = named[d].table
                                    /\ Imports[d].thunk = named[d].thunk
                                    /\ Imports[d].functions = Functions(named[d].table)
    BY <1>4, <1>5
<1>7. Len(Imports) = Len(named)
    BY <1>4, <1>5
<1>8. ASSUME NEW d \in 1 .. Len(named)
      PROVE  /\ Len(Imports[d].functions) \in Nat /\ Imports[d].thunk \in Nat
             /\ DOMAIN Imports[d].table = 1 .. Len(Imports[d].table)
             /\ \A k \in 1 .. Len(Imports[d].table) :
                    (\A n \in 1 .. k : Imports[d].table[n] # Unreadable) =>
                        /\ k \in 1 .. Len(Imports[d].functions)
                        /\ Imports[d].functions[k] = Imports[d].table[k]
    <2> DEFINE t == named[d].table
               T == {t[i] : i \in DOMAIN t}
    <2>1. t \in Seq(T) /\ Imports[d].thunk \in Nat
        BY <1>2, <1>5, <1>6 DEF IsList
    <2> HIDE DEF T
    <2>2. Imports[d].table = t /\ Imports[d].functions = Remaining(t, {Unreadable})
        BY <1>6 DEF Functions
    <2> HIDE DEF t
    <2>3. /\ Remaining(t, {Unreadable}) \in Seq(T)
          /\ \A k \in 1 .. Len(t) :
                 (\A i \in 1 .. k : t[i] \notin {Unreadable}) =>
                     /\ k \in 1 .. Len(Remaining(t, {Unreadable}))
                     /\ Remaining(t, {Unreadable})[k] = t[k]
        BY <2>1, RemainingKeeps
    <2>4. Len(Remaining(t, {Unreadable})) \in Nat /\ DOMAIN t = 1 .. Len(t)
        BY <2>1, <2>3
    <2> QED
        BY <2>1, <2>2, <2>3, <2>4
<1> QED
    BY <1>5, <1>6, <1>7, <1>8

-----------------------------------------------------------------------------
\* The loader was at function k of descriptor d.
LookedAt(d, k) == d < importAt[1] \/ (d = importAt[1] /\ k < importAt[2])

IsFixed(f) == Contains(FixedName, f)

\* What an address of the image can hold.
MemoryCell == ({"file"} \X (0 .. image.length) \X {0})
                  \union ({"stub"} \X Nat \X (0 .. SlotBytes - 1))

\* What memory holds of the sections looked at, beside the slots.
MemoryCopied ==
    /\ copied \in 0 .. Len(image.sections)
    /\ mapped \in [ImageAddress -> MemoryCell]
    /\ \A i \in 1 .. copied, a \in ImageAddress :
           LET s == image.sections[i]
           IN  /\ Raw(s, a) /\ InFile(s)
               /\ \A j \in DOMAIN image.sections \ {i} : ~Covers(image.sections[j], a)
               /\ \A j \in DOMAIN resolved : ~Patched(j, a)
               => mapped[a] = FromFile(s.raw + a - s.va)

\* A slot that no later one overlaps holds the stub of its function.
StubsIntact ==
    \A i \in DOMAIN resolved, a \in ImageAddress :
        Patched(i, a) /\ (\A j \in DOMAIN resolved : j > i => ~Patched(j, a))
            => mapped[a] = OfStub(resolved[i].addr, a - resolved[i].slot)

\* Where the entries resolved so far lead: no dynamic stub is given out twice.
Resolutions ==
    /\ IsList(resolved)
    /\ nextStub \in Nat
    /\ nextStub = DynamicBase + Cardinality({i \in DOMAIN resolved : ~IsFixed(resolved[i].name)})
    /\ \A i \in DOMAIN resolved :
           IF IsFixed(resolved[i].name)
           THEN resolved[i].addr \in DOMAIN FixedStubs
                /\ FixedStubs[resolved[i].addr] = resolved[i].name
           ELSE resolved[i].addr \in DynamicBase .. nextStub - 1
    /\ \A i, j \in DOMAIN resolved :
           resolved[i].addr = resolved[j].addr => resolved[i].name = resolved[j].name

\* Slot at is patched for function f.
PatchedFor(at, f) == \E i \in DOMAIN resolved : resolved[i].name = f /\ resolved[i].slot = at

\* Every slot that the image holds is patched when its entry was looked at.
SlotsPatched ==
    /\ importAt = <<importAt[1], importAt[2]>> /\ importAt[1] \in Nat \ {0} /\ importAt[2] \in Nat
    /\ \A d \in 1 .. Len(Imports) : \A k \in 1 .. Len(Imports[d].functions) :
           LookedAt(d, k) /\ Imports[d].thunk # 0 /\ Slot(d, k) + SlotBytes <= ImageBytes
               => PatchedFor(Slot(d, k), Imports[d].functions[k])

ImageInv ==
    /\ image \in Images
    /\ imageStep \in {"Idle", "Parsing", "Mapping", "ResolvingImports", "Ready", "Peb", "Running"}
    /\ MemoryCopied /\ StubsIntact /\ Resolutions /\ SlotsPatched
    /\ IF imageStep \in {"Idle", "Parsing", "Mapping"} THEN DOMAIN resolved = {}
       ELSE copied = Len(image.sections)
    /\ imageStep \in {"Ready", "Peb", "Running"} => importAt[1] > Len(Imports)
    /\ imageStep = "Running" =>
           \A i \in DOMAIN resolved : /\ resolved[i].addr \in DOMAIN stubs
                                      /\ stubs[resolved[i].addr] = resolved[i].name

\* The specification of one load, of any file.
ImageSpec == (\E f \in Images : ImageInit(f)) /\ [][ImageNext]_imageVars

\* What is known of every file.
LEMMA ImageParts ==
    ASSUME image \in Images
    PROVE  /\ image.length \in Nat /\ Len(image.sections) \in Nat
           /\ DOMAIN image.sections = 1 .. Len(image.sections)
           /\ \A i \in 1 .. Len(image.sections) :
                  /\ image.sections[i].va \in Nat /\ image.sections[i].size \in Nat
                  /\ image.sections[i].raw \in Nat /\ image.sections[i].rawSize \in Nat
<1> DEFINE R == [va : Nat, size : Nat, raw : Nat, rawSize : Nat]
<1>1. image.length \in Nat /\ image.sections \in Seq(R)
    BY ImageAssumption
<1>2. \A s \in R : s.va \in Nat /\ s.size \in Nat /\ s.raw \in Nat /\ s.rawSize \in Nat
    OBVIOUS
<1> HIDE DEF R
<1>3. \A i \in 1 .. Len(image.sections) : image.sections[i] \in R
    BY <1>1
<1> QED
    BY <1>1, <1>2, <1>3

\* A fixed stub is one of the first addresses, and no other name is there.
LEMMA FixedAddress ==
    ASSUME NEW f
    PROVE  IF IsFixed(f)
           THEN /\ StubAddress(f) \in DOMAIN FixedStubs /\ FixedStubs[StubAddress(f)] = f
                /\ StubAddress(f) \in 0 .. DynamicBase - 1
           ELSE StubAddress(f) = nextStub
<1> DEFINE n == Len(FixedName)
<1>1. n \in Nat /\ n < DynamicBase /\ DynamicBase \in Nat
    BY ImageAssumption DEF IsList
<1>2. CASE IsFixed(f)
    <2>1. PICK i \in 1 .. n : FixedName[i] = f
        BY <1>2 DEF IsFixed, Contains
    <2>2. DOMAIN FixedStubs = 0 .. n - 1 /\ \A a \in 0 .. n - 1 : FixedStubs[a] = FixedName[a + 1]
        BY DEF FixedStubs
    <2> HIDE DEF n
    <2>3. i - 1 \in 0 .. n - 1 /\ (i - 1) + 1 = i
        BY <1>1
    <2>4. i - 1 \in DOMAIN FixedStubs /\ FixedStubs[i - 1] = f
        BY <2>1, <2>2, <2>3
    <2>5. StubAddress(f) = CHOOSE a \in DOMAIN FixedStubs : FixedStubs[a] = f
        BY <1>2 DEF StubAddress, IsFixed
    <2>6. StubAddress(f) \in DOMAIN FixedStubs /\ FixedStubs[StubAddress(f)] = f
        BY <2>4, <2>5
    <2> QED
        BY <1>1, <1>2, <2>2, <2>6
<1>3. CASE ~ IsFixed(f)
    BY <1>3 DEF StubAddress, IsFixed
<1> QED
    BY <1>2, <1>3

LEMMA InitImage == (\E f \in Images : ImageInit(f)) => ImageInv
<1> SUFFICES ASSUME NEW f \in Images, ImageInit(f) PROVE ImageInv
    OBVIOUS
<1>1. /\ image \in Images /\ imageStep = "Idle" /\ copied = 0 /\ importAt = <<1, 1>>
      /\ mapped = [a \in ImageAddress |-> FromFile(0)] /\ nextStub = DynamicBase
      /\ resolved = << >>
    BY DEF ImageInit
<1>2. image.length \in Nat /\ Len(image.sections) \in Nat
    BY <1>1, ImageParts
<1>3. MemoryCopied /\ StubsIntact /\ DOMAIN resolved = {}
    <2>1. FromFile(0) \in MemoryCell
        BY <1>2 DEF MemoryCell, FromFile
    <2>2. mapped \in [ImageAddress -> MemoryCell]
        BY <1>1, <2>1
    <2>3. Len(resolved) = 0 /\ DOMAIN resolved = {}
        BY <1>1
    <2>4. MemoryCopied
        BY <1>1, <1>2, <2>2 DEF MemoryCopied
    <2> QED
        BY <2>3, <2>4 DEF StubsIntact
<1>4. Resolutions
    <2>1. Len(resolved) = 0 /\ DOMAIN resolved = {}
        BY <1>1
    <2>2. {i \in DOMAIN resolved : ~IsFixed(resolved[i].name)} = {}
        BY <2>1
    <2>3. Cardinality({}) = 0
        BY FS_EmptySet
    <2> QED
        BY <1>1, <2>1, <2>2, <2>3, ImageAssumption DEF Resolutions, IsList
<1>5. SlotsPatched
    <2>1. Len(Imports) \in Nat /\ \A d \in 1 .. Len(Imports) : Len(Imports[d].functions) \in Nat
        BY <1>1, ImportsAre
    <2>2. \A d \in 1 .. Len(Imports) : \A k \in 1 .. Len(Imports[d].functions) : ~LookedAt(d, k)
        BY <1>1, <2>1 DEF LookedAt
    <2>3. importAt = <<importAt[1], importAt[2]>> /\ importAt[1] = 1 /\ importAt[2] = 1
        BY <1>1
    <2> QED
        BY <2>2, <2>3 DEF SlotsPatched
<1> QED
    BY <1>1, <1>3, <1>4, <1>5 DEF ImageInv

\* A section more is copied: the bytes that only an earlier one holds stay.
LEMMA CopyStep == ImageInv /\ CopySection => MemoryCopied'
<1> SUFFICES ASSUME ImageInv, CopySection PROVE MemoryCopied'
    OBVIOUS
<1> DEFINE s == image.sections[copied + 1]
<1>1. /\ image' = image /\ copied' = copied + 1 /\ copied < Len(image.sections)
      /\ resolved' = resolved
      /\ mapped' = IF ~InFile(s) THEN mapped ELSE [a \in ImageAddress |->
               IF s.va <= a /\ a < s.va + s.rawSize THEN FromFile(s.raw + a - s.va)
               ELSE mapped[a]]
    BY DEF CopySection
<1>2. /\ image.length \in Nat /\ Len(image.sections) \in Nat
      /\ DOMAIN image.sections = 1 .. Len(image.sections)
      /\ \A i \in 1 .. Len(image.sections) :
             /\ image.sections[i].va \in Nat /\ image.sections[i].size \in Nat
             /\ image.sections[i].raw \in Nat /\ image.sections[i].rawSize \in Nat
    BY ImageParts DEF ImageInv
<1>3. /\ copied \in 0 .. Len(image.sections) /\ mapped \in [ImageAddress -> MemoryCell]
      /\ copied + 1 \in 1 .. Len(image.sections) /\ copied + 1 \in 0 .. Len(image.sections)
    BY <1>1, <1>2 DEF ImageInv, MemoryCopied
<1>4. ImageAddress \subseteq Nat
    BY ImageAssumption DEF ImageAddress
<1>5. s.va \in Nat /\ s.size \in Nat /\ s.raw \in Nat /\ s.rawSize \in Nat
    BY <1>2, <1>3
<1>6. mapped' \in [ImageAddress -> MemoryCell] /\ MemoryCell' = MemoryCell
    <2>1. CASE InFile(s)
        <3>1. s.raw + s.rawSize - 1 <= image.length
            BY <2>1 DEF InFile
        <3> HIDE DEF s
        <3>2. ASSUME NEW a \in ImageAddress, s.va <= a /\ a < s.va + s.rawSize
              PROVE  FromFile(s.raw + a - s.va) \in MemoryCell
            <4>1. a \in Nat /\ image.length \in Nat
                BY <1>2, <1>4
            <4>2. s.raw + a - s.va \in 0 .. image.length
                BY <1>5, <3>1, <3>2, <4>1
            <4> QED
                BY <4>2 DEF MemoryCell, FromFile
        <3> QED
            BY <1>1, <1>3, <2>1, <3>2 DEF MemoryCell, SlotBytes
    <2> QED
        BY <1>1, <1>3, <2>1 DEF MemoryCell, SlotBytes
<1>7. ASSUME NEW i \in 1 .. copied + 1, NEW a \in ImageAddress,
             Raw(image.sections[i], a), InFile(image.sections[i]),
             \A j \in DOMAIN image.sections \ {i} : ~Covers(image.sections[j], a),
             \A j \in DOMAIN resolved : ~Patched(j, a)
      PROVE  mapped'[a] = FromFile(image.sections[i].raw + a - image.sections[i].va)
    <2>1. CASE i = copied + 1
        BY <1>1, <1>7, <2>1 DEF Raw
    <2>2. CASE i # copied + 1
        <3>1. i \in 1 .. copied
            BY <1>2, <1>3, <2>2
        <3>2. mapped[a] = FromFile(image.sections[i].raw + a - image.sections[i].va)
            BY <1>7, <3>1 DEF ImageInv, MemoryCopied
        <3>3. ~Covers(s, a)
            BY <1>2, <1>3, <1>7, <2>2
        <3> HIDE DEF s
        <3>4. ~ (s.va <= a /\ a < s.va + s.rawSize)
            BY <1>4, <1>5, <3>3 DEF Covers
        <3>5. mapped'[a] = mapped[a]
            BY <1>1, <3>4
        <3> QED
            BY <3>2, <3>5
    <2> QED
        BY <2>1, <2>2
<1>8. \A j, a : Patched(j, a)' <=> Patched(j, a)
    BY <1>1 DEF Patched, InSlot, SlotBytes
<1> QED
    BY <1>1, <1>3, <1>6, <1>7, <1>8 DEF MemoryCopied, Raw, InFile, Covers

\* A list with an entry more.
LEMMA ListAppend ==
    ASSUME NEW s, IsList(s), NEW e
    PROVE  /\ IsList(Append(s, e)) /\ Len(s) \in Nat /\ Len(Append(s, e)) = Len(s) + 1
           /\ DOMAIN s = 1 .. Len(s) /\ DOMAIN Append(s, e) = 1 .. Len(s) + 1
           /\ \A i \in 1 .. Len(s) : Append(s, e)[i] = s[i]
           /\ Append(s, e)[Len(s) + 1] = e
<1> DEFINE S == {s[i] : i \in DOMAIN s} \union {e}
           t == Append(s, e)
           T == {t[i] : i \in DOMAIN t}
<1>1. s \in Seq(S)
    <2>1. s \in Seq({s[i] : i \in DOMAIN s}) /\ {s[i] : i \in DOMAIN s} \subseteq S
        BY DEF IsList
    <2> HIDE DEF S
    <2> QED
        BY <2>1, SeqMonotonic
<1>2. e \in S
    OBVIOUS
<1> HIDE DEF S
<1>3. /\ t \in Seq(S) /\ Len(s) \in Nat /\ Len(t) = Len(s) + 1 /\ DOMAIN s = 1 .. Len(s)
      /\ DOMAIN t = 1 .. Len(s) + 1
      /\ \A i \in 1 .. Len(s) : t[i] = s[i]
      /\ t[Len(s) + 1] = e
    BY <1>1, <1>2
<1>4. t \in Seq(T)
    <2> HIDE DEF t
    <2>1. t = [i \in 1 .. Len(s) + 1 |-> t[i]] /\ \A i \in 1 .. Len(s) + 1 : t[i] \in T
        BY <1>3
    <2> HIDE DEF T
    <2>2. [i \in 1 .. Len(s) + 1 |-> t[i]] \in Seq(T)
        BY <1>3, <2>1, IsASeq
    <2> QED
        BY <2>1, <2>2
<1> QED
    BY <1>3, <1>4 DEF IsList

\* A function that is resolved: it gets the stub of its name, or the next one.
LEMMA ResolveKeeps == ImageInv /\ Resolve => Resolutions'
<1> SUFFICES ASSUME ImageInv, Resolve PROVE Resolutions'
    OBVIOUS
<1> DEFINE d == importAt[1]
           k == importAt[2]
           f == Imports[d].functions[k]
           addr == StubAddress(f)
           at == IF Imports[d].thunk # 0 /\ Slot(d, k) + SlotBytes <= ImageBytes
                 THEN Slot(d, k) ELSE ImageBytes
           e == [name |-> f, addr |-> addr, slot |-> at]
           n == Len(resolved)
<1>1. /\ nextStub' = IF addr = nextStub THEN nextStub + 1 ELSE nextStub
      /\ resolved' = Append(resolved, e)
    BY DEF Resolve
<1>3. /\ IsList(resolved) /\ nextStub \in Nat
      /\ nextStub = DynamicBase + Cardinality({i \in DOMAIN resolved : ~IsFixed(resolved[i].name)})
      /\ \A i \in DOMAIN resolved :
             IF IsFixed(resolved[i].name)
             THEN resolved[i].addr \in DOMAIN FixedStubs
                  /\ FixedStubs[resolved[i].addr] = resolved[i].name
             ELSE resolved[i].addr \in DynamicBase .. nextStub - 1
      /\ \A i, j \in DOMAIN resolved :
             resolved[i].addr = resolved[j].addr => resolved[i].name = resolved[j].name
    BY DEF ImageInv, Resolutions
<1>5. IF IsFixed(f)
      THEN /\ addr \in DOMAIN FixedStubs /\ FixedStubs[addr] = f /\ addr \in 0 .. DynamicBase - 1
      ELSE addr = nextStub
    BY FixedAddress
<1>6. DynamicBase \in Nat /\ DOMAIN FixedStubs = 0 .. Len(FixedName) - 1
      /\ Len(FixedName) \in Nat /\ Len(FixedName) < DynamicBase
    BY ImageAssumption DEF FixedStubs, IsList
<1> HIDE DEF f, addr, at
<1>7. /\ IsList(resolved') /\ n \in Nat /\ DOMAIN resolved = 1 .. n /\ DOMAIN resolved' = 1 .. n + 1
      /\ (\A i \in 1 .. n : resolved'[i] = resolved[i])
      /\ resolved'[n + 1].name = f /\ resolved'[n + 1].addr = addr
    <2>1. e.name = f /\ e.addr = addr
        OBVIOUS
    <2> HIDE DEF e
    <2>2. /\ IsList(Append(resolved, e)) /\ n \in Nat /\ DOMAIN resolved = 1 .. n
          /\ DOMAIN Append(resolved, e) = 1 .. n + 1
          /\ (\A i \in 1 .. n : Append(resolved, e)[i] = resolved[i])
          /\ Append(resolved, e)[n + 1] = e
        BY <1>3, ListAppend
    <2> QED
        BY <1>1, <2>1, <2>2
<1> HIDE DEF n
<1>8. \A i \in 1 .. n + 1 : i = n + 1 \/ i \in 1 .. n
    BY <1>7
<1>9. nextStub >= DynamicBase
    <2>1. IsFiniteSet(1 .. n)
        <3>1. n \in Int
            BY <1>7
        <3> QED
            BY <3>1, FS_Interval
    <2>2. {i \in DOMAIN resolved : ~IsFixed(resolved[i].name)} \subseteq 1 .. n
        BY <1>7
    <2>3. Cardinality({i \in DOMAIN resolved : ~IsFixed(resolved[i].name)}) \in Nat
        BY <2>1, <2>2, FS_Subset, FS_CardinalityType
    <2> QED
        BY <1>3, <1>6, <2>3
<1>10. nextStub' = IF IsFixed(f) THEN nextStub ELSE nextStub + 1
    <2>1. CASE IsFixed(f)
        BY <1>1, <1>3, <1>5, <1>6, <1>9, <2>1
    <2>2. CASE ~IsFixed(f)
        BY <1>1, <1>5, <2>2
    <2> QED
        BY <2>1, <2>2
<1>11. nextStub' = DynamicBase + Cardinality({i \in DOMAIN resolved' : ~IsFixed(resolved'[i].name)})
    <2> DEFINE A == {i \in DOMAIN resolved : ~IsFixed(resolved[i].name)}
               B == {i \in DOMAIN resolved' : ~IsFixed(resolved'[i].name)}
    <2>1. IsFiniteSet(A) /\ n + 1 \notin A
        <3>1. IsFiniteSet(1 .. n) /\ A \subseteq 1 .. n
            <4>1. n \in Int /\ DOMAIN resolved = 1 .. n
                BY <1>7
            <4>2. IsFiniteSet(1 .. n)
                BY <4>1, FS_Interval
            <4> QED
                BY <4>1, <4>2
        <3> QED
            BY <1>7, <3>1, FS_Subset
    <2>2. B = IF IsFixed(f) THEN A ELSE A \union {n + 1}
        <3>1. \A i \in 1 .. n : i \in 1 .. n + 1
            BY <1>7
        <3>2. n + 1 \in 1 .. n + 1
            BY <1>7
        <3> QED
            BY <1>7, <1>8, <3>1, <3>2
    <2> HIDE DEF A, B
    <2>3. Cardinality(A \union {n + 1}) = Cardinality(A) + 1 /\ Cardinality(A) \in Nat
        BY <2>1, FS_AddElement, FS_CardinalityType
    <2>4. nextStub = DynamicBase + Cardinality(A)
        BY <1>3 DEF A
    <2>5. nextStub' = DynamicBase + Cardinality(B)
        BY <1>6, <1>10, <2>2, <2>3, <2>4
    <2> QED
        BY <2>5 DEF B
<1>12. \A i \in DOMAIN resolved' :
           IF IsFixed(resolved'[i].name)
           THEN resolved'[i].addr \in DOMAIN FixedStubs
                /\ FixedStubs[resolved'[i].addr] = resolved'[i].name
           ELSE resolved'[i].addr \in DynamicBase .. nextStub' - 1
    <2> SUFFICES ASSUME NEW i \in 1 .. n + 1
                 PROVE  IF IsFixed(resolved'[i].name)
                        THEN resolved'[i].addr \in DOMAIN FixedStubs
                             /\ FixedStubs[resolved'[i].addr] = resolved'[i].name
                        ELSE resolved'[i].addr \in DynamicBase .. nextStub' - 1
        BY <1>7
    <2>1. CASE i \in 1 .. n
        <3>1. resolved'[i] = resolved[i] /\ i \in DOMAIN resolved
            BY <1>7, <2>1
        <3>2. resolved[i].addr \in DynamicBase .. nextStub - 1 =>
                  resolved[i].addr \in DynamicBase .. nextStub' - 1
            BY <1>3, <1>6, <1>10
        <3> QED
            BY <1>3, <3>1, <3>2
    <2>2. CASE i = n + 1
        <3>1. ~IsFixed(f) => addr \in DynamicBase .. nextStub' - 1
            BY <1>3, <1>5, <1>6, <1>9, <1>10
        <3> QED
            BY <1>5, <1>7, <2>2, <3>1
    <2> QED
        BY <1>8, <2>1, <2>2
<1>13. ASSUME NEW i \in 1 .. n, resolved[i].addr = addr PROVE resolved[i].name = f
    <2>1. CASE IsFixed(resolved[i].name)
        <3>1. resolved[i].addr \in DOMAIN FixedStubs /\ FixedStubs[resolved[i].addr] = resolved[i].name
            BY <1>3, <1>7, <2>1
        <3>2. addr \in 0 .. DynamicBase - 1
            BY <1>6, <1>13, <3>1
        <3>3. IsFixed(f)
            BY <1>3, <1>5, <1>6, <1>9, <3>2
        <3> QED
            BY <1>5, <1>13, <3>1, <3>3
    <2>2. CASE ~IsFixed(resolved[i].name)
        <3>1. resolved[i].addr \in DynamicBase .. nextStub - 1
            BY <1>3, <1>7, <2>2
        <3>2. ~ (addr \in 0 .. DynamicBase - 1) /\ addr # nextStub
            BY <1>3, <1>6, <1>13, <3>1
        <3> QED
            BY <1>5, <3>2
    <2> QED
        BY <2>1, <2>2
<1>14. \A i, j \in DOMAIN resolved' :
           resolved'[i].addr = resolved'[j].addr => resolved'[i].name = resolved'[j].name
    <2> SUFFICES ASSUME NEW i \in 1 .. n + 1, NEW j \in 1 .. n + 1,
                        resolved'[i].addr = resolved'[j].addr
                 PROVE  resolved'[i].name = resolved'[j].name
        BY <1>7
    <2>1. CASE i \in 1 .. n /\ j \in 1 .. n
        BY <1>3, <1>7, <2>1
    <2>2. CASE i = n + 1 /\ j \in 1 .. n
        BY <1>7, <1>13, <2>2
    <2>3. CASE i \in 1 .. n /\ j = n + 1
        BY <1>7, <1>13, <2>3
    <2>4. CASE i = n + 1 /\ j = n + 1
        BY <2>4
    <2> QED
        BY <1>8, <2>1, <2>2, <2>3, <2>4
<1> QED
    <2>1. nextStub' \in Nat
        BY <1>3, <1>10
    <2> QED
        BY <1>7, <1>11, <1>12, <1>14, <2>1 DEF Resolutions, FixedStubs, IsFixed, IsList

\* Its slot is patched, if the image holds it, and nothing beside it changes.
LEMMA ResolvePatches ==
    ImageInv /\ Resolve => MemoryCopied' /\ StubsIntact' /\ SlotsPatched'
<1> SUFFICES ASSUME ImageInv, Resolve PROVE MemoryCopied' /\ StubsIntact' /\ SlotsPatched'
    OBVIOUS
<1> DEFINE d == importAt[1]
           k == importAt[2]
           f == Imports[d].functions[k]
           addr == StubAddress(f)
           at == IF Imports[d].thunk # 0 /\ Slot(d, k) + SlotBytes <= ImageBytes
                 THEN Slot(d, k) ELSE ImageBytes
           e == [name |-> f, addr |-> addr, slot |-> at]
           n == Len(resolved)
<1>1. /\ mapped' = [a \in ImageAddress |->
                        IF InSlot(at, a) THEN OfStub(addr, a - at) ELSE mapped[a]]
      /\ resolved' = Append(resolved, e) /\ importAt' = <<d, k + 1>>
      /\ image' = image /\ copied' = copied
    BY DEF Resolve
<1>2. /\ Imports' = Imports /\ SlotBytes' = SlotBytes /\ MemoryCell' = MemoryCell
      /\ \A x, y : Slot(x, y)' = Slot(x, y)
    BY <1>1 DEF Imports, SlotBytes, MemoryCell, Slot
<1>3. /\ IsList(resolved) /\ nextStub \in Nat
      /\ copied \in 0 .. Len(image.sections) /\ mapped \in [ImageAddress -> MemoryCell]
      /\ d \in Nat \ {0} /\ k \in Nat
    BY DEF ImageInv, Resolutions, MemoryCopied, SlotsPatched
<1>4. addr \in Nat
    <2>1. StubAddress(f) \in 0 .. DynamicBase - 1 \/ StubAddress(f) = nextStub
        BY FixedAddress
    <2> HIDE DEF f
    <2> QED
        BY <1>3, <2>1
<1>5. at \in Int /\ SlotBytes \in Nat /\ SlotBytes > 0 /\ ImageAddress = 0 .. ImageBytes - 1
    <2>1. /\ SlotBytes \in Nat /\ SlotBytes > 0 /\ ImageBytes \in Nat
          /\ ImageAddress = 0 .. ImageBytes - 1
        BY ImageAssumption DEF SlotBytes, ImageAddress
    <2>2. d \in 1 .. Len(Imports) => Imports[d].thunk \in Nat
        BY ImportsAre DEF ImageInv
    <2>3. d \in 1 .. Len(Imports)
        <3>1. d <= Len(Imports) /\ Len(Imports) \in Nat
            BY ImportsAre DEF ImageInv, Resolve
        <3>2. d \in Nat \ {0}
            BY DEF ImageInv, SlotsPatched
        <3> QED
            BY <1>3, <3>1, <3>2
    <2>4. Slot(d, k) \in Int
        <3> HIDE DEF d, k
        <3> DEFINE t == Imports[d].thunk
                   b == SlotBytes
                   m == (k - 1) * b
        <3>1. t \in Nat /\ k - 1 \in Int /\ b \in Int
            BY <1>3, <2>1, <2>2, <2>3
        <3> HIDE DEF t, b
        <3>2. m \in Int
            BY <3>1
        <3>3. Slot(d, k) = t + m
            BY DEF Slot, t, b
        <3> HIDE DEF m
        <3> QED
            BY <3>1, <3>2, <3>3
    <2> HIDE DEF d, k
    <2> QED
        BY <2>1, <2>4
<1>6. /\ IsList(resolved') /\ n \in Nat /\ DOMAIN resolved = 1 .. n /\ DOMAIN resolved' = 1 .. n + 1
      /\ (\A i \in 1 .. n : resolved'[i] = resolved[i])
      /\ resolved'[n + 1].name = f /\ resolved'[n + 1].addr = addr /\ resolved'[n + 1].slot = at
    <2>1. e.name = f /\ e.addr = addr /\ e.slot = at
        OBVIOUS
    <2> HIDE DEF e
    <2>2. /\ IsList(Append(resolved, e)) /\ n \in Nat /\ DOMAIN resolved = 1 .. n
          /\ DOMAIN Append(resolved, e) = 1 .. n + 1
          /\ (\A i \in 1 .. n : Append(resolved, e)[i] = resolved[i])
          /\ Append(resolved, e)[n + 1] = e
        BY <1>3, ListAppend
    <2> QED
        BY <1>1, <2>1, <2>2
<1>7. (at = Slot(d, k) \/ at = ImageBytes) /\
      (Imports[d].thunk # 0 /\ Slot(d, k) + SlotBytes <= ImageBytes => at = Slot(d, k))
    OBVIOUS
<1> HIDE DEF n, f, addr, at, d, k
<1>8. /\ \A i \in 1 .. n, a \in ImageAddress : Patched(i, a)' <=> Patched(i, a)
      /\ \A i, a : i = n + 1 => (Patched(i, a)' <=> InSlot(at, a))
    BY <1>2, <1>6 DEF Patched, InSlot
<1>9. /\ \A i \in 1 .. n + 1 : i = n + 1 \/ i \in 1 .. n
      /\ n + 1 \in 1 .. n + 1 /\ \A i \in 1 .. n : i \in 1 .. n + 1 /\ n + 1 > i
    BY <1>6
<1>10. ASSUME NEW a \in ImageAddress, InSlot(at, a)
       PROVE  mapped'[a] = OfStub(addr, a - at) /\ OfStub(addr, a - at) \in MemoryCell
    <2>1. a - at \in 0 .. SlotBytes - 1
        BY <1>5, <1>10, ImageAssumption DEF InSlot
    <2> QED
        BY <1>1, <1>4, <1>10, <2>1 DEF MemoryCell, OfStub
<1>11. \A a \in ImageAddress : ~InSlot(at, a) => mapped'[a] = mapped[a]
    BY <1>1
<1>12. MemoryCopied'
    <2>1. mapped' \in [ImageAddress -> MemoryCell]
        <3>1. mapped' = [a \in ImageAddress |-> mapped'[a]]
            BY <1>1
        <3>2. \A a \in ImageAddress : mapped'[a] \in MemoryCell
            BY <1>3, <1>10, <1>11
        <3> QED
            BY <3>1, <3>2
    <2>2. ASSUME NEW i \in 1 .. copied, NEW a \in ImageAddress,
                 Raw(image.sections[i], a), InFile(image.sections[i]),
                 \A j \in DOMAIN image.sections \ {i} : ~Covers(image.sections[j], a),
                 \A j \in DOMAIN resolved' : ~Patched(j, a)'
          PROVE  mapped'[a] = FromFile(image.sections[i].raw + a - image.sections[i].va)
        <3>1. \A j \in DOMAIN resolved : ~Patched(j, a)
            BY <1>6, <1>8, <1>9, <2>2
        <3>2. ~InSlot(at, a)
            BY <1>6, <1>8, <1>9, <2>2
        <3>3. mapped[a] = FromFile(image.sections[i].raw + a - image.sections[i].va)
            BY <2>2, <3>1 DEF ImageInv, MemoryCopied
        <3> QED
            BY <1>11, <3>2, <3>3
    <2> QED
        BY <1>1, <1>2, <1>3, <2>1, <2>2 DEF MemoryCopied, Raw, InFile, Covers
<1>13. StubsIntact'
    <2> SUFFICES ASSUME NEW i \in DOMAIN resolved', NEW a \in ImageAddress, Patched(i, a)',
                        \A j \in DOMAIN resolved' : j > i => ~Patched(j, a)'
                 PROVE  mapped'[a] = OfStub(resolved'[i].addr, a - resolved'[i].slot)
        BY DEF StubsIntact
    <2>1. CASE i = n + 1
        BY <1>6, <1>8, <1>10, <2>1
    <2>2. CASE i \in 1 .. n
        <3>1. ~InSlot(at, a)
            BY <1>6, <1>8, <1>9, <2>2
        <3>2. Patched(i, a) /\ \A j \in DOMAIN resolved : j > i => ~Patched(j, a)
            BY <1>6, <1>8, <1>9, <2>2
        <3>3. mapped[a] = OfStub(resolved[i].addr, a - resolved[i].slot)
            BY <1>6, <2>2, <3>2 DEF ImageInv, StubsIntact
        <3> QED
            BY <1>6, <1>11, <2>2, <3>1, <3>3
    <2> QED
        BY <1>6, <1>9, <2>1, <2>2
<1>14. importAt'[1] = d /\ importAt'[2] = k + 1 /\ importAt' = <<importAt'[1], importAt'[2]>>
    BY <1>1
<1>15. ASSUME NEW dd \in 1 .. Len(Imports), NEW kk \in 1 .. Len(Imports[dd].functions),
              dd < d \/ (dd = d /\ kk < k + 1), Imports[dd].thunk # 0,
              Slot(dd, kk) + SlotBytes <= ImageBytes
       PROVE  PatchedFor(Slot(dd, kk), Imports[dd].functions[kk])'
    <2>1. CASE dd = d /\ kk = k
        <3>1. at = Slot(dd, kk) /\ f = Imports[dd].functions[kk]
            BY <1>7, <1>15, <2>1 DEF f
        <3>2. n + 1 \in DOMAIN resolved'
            BY <1>6, <1>9
        <3> QED
            BY <1>2, <1>6, <3>1, <3>2 DEF PatchedFor
    <2>2. CASE ~ (dd = d /\ kk = k)
        <3>1. LookedAt(dd, kk)
            <4>1. dd \in Nat
                OBVIOUS
            <4>2. Len(Imports[dd].functions) \in Nat
                BY ImportsAre DEF ImageInv
            <4>3. kk \in Nat
                BY <4>2
            <4> QED
                BY <1>3, <1>15, <2>2, <4>1, <4>3 DEF LookedAt, d, k
        <3>2. PatchedFor(Slot(dd, kk), Imports[dd].functions[kk])
            BY <1>15, <3>1 DEF ImageInv, SlotsPatched
        <3>3. PatchedFor(Slot(dd, kk), Imports[dd].functions[kk])' <=>
              \E i \in DOMAIN resolved' : /\ resolved'[i].name = Imports[dd].functions[kk]
                                          /\ resolved'[i].slot = Slot(dd, kk)
            BY <1>2 DEF PatchedFor
        <3>4. PICK i \in 1 .. n : /\ resolved[i].name = Imports[dd].functions[kk]
                                  /\ resolved[i].slot = Slot(dd, kk)
            BY <1>6, <3>2 DEF PatchedFor
        <3>5. i \in DOMAIN resolved' /\ resolved'[i] = resolved[i]
            BY <1>6, <1>9
        <3> QED
            BY <3>3, <3>4, <3>5
    <2> QED
        BY <2>1, <2>2
<1>16. SlotsPatched'
    <2>1. importAt'[1] \in Nat \ {0} /\ importAt'[2] \in Nat
        BY <1>3, <1>14
    <2>2. ASSUME NEW dd \in 1 .. Len(Imports'), NEW kk \in 1 .. Len(Imports'[dd].functions),
                 LookedAt(dd, kk)', Imports'[dd].thunk # 0, (Slot(dd, kk) + SlotBytes <= ImageBytes)'
          PROVE  PatchedFor(Slot(dd, kk), Imports[dd].functions[kk])'
        <3>1. dd < d \/ (dd = d /\ kk < k + 1)
            BY <1>14, <2>2 DEF LookedAt
        <3>2. /\ dd \in 1 .. Len(Imports) /\ kk \in 1 .. Len(Imports[dd].functions)
              /\ Imports[dd].thunk # 0 /\ Slot(dd, kk) + SlotBytes <= ImageBytes
            BY <1>2, <2>2
        <3> QED
            BY <1>15, <3>1, <3>2
    <2> QED
        BY <1>14, <2>1, <2>2 DEF SlotsPatched
<1> QED
    BY <1>12, <1>13, <1>16

\* A descriptor whose functions are all resolved.
LEMMA NextDllKeeps == ImageInv /\ NextDll => SlotsPatched'
<1> SUFFICES ASSUME ImageInv, NextDll PROVE SlotsPatched'
    OBVIOUS
<1> DEFINE d == importAt[1]
           k == importAt[2]
<1>1. /\ d <= Len(Imports) /\ k > Len(Imports[d].functions) /\ importAt' = <<d + 1, 1>>
      /\ UNCHANGED <<image, resolved>>
    BY DEF NextDll
<1>2. /\ Imports' = Imports /\ SlotBytes' = SlotBytes
      /\ \A x, y : Slot(x, y)' = Slot(x, y)
    BY <1>1 DEF Imports, SlotBytes, Slot
<1>3. d \in Nat \ {0} /\ k \in Nat
    BY DEF ImageInv, SlotsPatched
<1>4. \A dd \in 1 .. Len(Imports) : Len(Imports[dd].functions) \in Nat
    BY ImportsAre DEF ImageInv
<1>5. /\ importAt'[1] = d + 1 /\ importAt'[2] = 1
      /\ importAt' = <<importAt'[1], importAt'[2]>>
    BY <1>1
<1>6. ASSUME NEW dd \in 1 .. Len(Imports'), NEW kk \in 1 .. Len(Imports'[dd].functions),
             LookedAt(dd, kk)', Imports'[dd].thunk # 0, (Slot(dd, kk) + SlotBytes <= ImageBytes)'
      PROVE  PatchedFor(Slot(dd, kk), Imports[dd].functions[kk])'
    <2>1. dd \in 1 .. Len(Imports) /\ kk \in 1 .. Len(Imports[dd].functions)
        BY <1>2
    <2>2. dd \in Nat /\ kk \in Nat /\ kk <= Len(Imports[dd].functions)
          /\ Len(Imports[dd].functions) \in Nat /\ kk >= 1
        BY <1>4, <2>1
    <2>3. dd < d + 1
        BY <1>5, <1>6, <2>2 DEF LookedAt
    <2>4. dd = d => kk < k
        BY <1>1, <1>3, <2>2
    <2>5. LookedAt(dd, kk)
        BY <1>3, <2>2, <2>3, <2>4 DEF LookedAt
    <2>6. Imports[dd].thunk # 0 /\ Slot(dd, kk) + SlotBytes <= ImageBytes
        BY <1>2, <1>6
    <2>7. PatchedFor(Slot(dd, kk), Imports[dd].functions[kk])
        BY <2>1, <2>5, <2>6 DEF ImageInv, SlotsPatched
    <2> QED
        BY <1>1, <1>2, <2>7 DEF PatchedFor
<1>7. importAt'[1] \in Nat \ {0} /\ importAt'[2] \in Nat
    BY <1>3, <1>5
<1> QED
    BY <1>5, <1>6, <1>7 DEF SlotsPatched

\* What a step that does not touch them leaves.
LEMMA SameMemory ==
    MemoryCopied /\ StubsIntact /\ UNCHANGED <<image, copied, mapped, resolved>>
        => MemoryCopied' /\ StubsIntact'
BY DEF MemoryCopied, MemoryCell, SlotBytes, StubsIntact, Patched, InSlot, Raw, InFile, Covers

LEMMA SameSlots ==
    Resolutions /\ SlotsPatched /\ UNCHANGED <<image, importAt, nextStub, resolved>>
        => Resolutions' /\ SlotsPatched'
<1> SUFFICES ASSUME Resolutions, SlotsPatched, UNCHANGED <<image, importAt, nextStub, resolved>>
             PROVE  Resolutions' /\ SlotsPatched'
    OBVIOUS
<1>1. Imports' = Imports
    BY DEF Imports
<1>2. Resolutions'
    BY DEF Resolutions, FixedStubs, IsFixed, IsList
<1>3. SlotsPatched'
    BY <1>1 DEF SlotsPatched, LookedAt, PatchedFor, Slot, SlotBytes
<1> QED
    BY <1>2, <1>3

LEMMA NextImage == ImageInv /\ [ImageNext]_imageVars => ImageInv'
<1> SUFFICES ASSUME ImageInv, [ImageNext]_imageVars PROVE ImageInv'
    OBVIOUS
<1>1. image' = image => Imports' = Imports
    BY DEF Imports
<1>2. CASE ParseFails \/ Parse \/ Mapped \/ Ready \/ BuildPeb
    <2>1. UNCHANGED <<image, copied, mapped, importAt, nextStub, resolved, stubs>>
        BY <1>2 DEF ParseFails, Parse, Mapped, Ready, BuildPeb
    <2>2. MemoryCopied' /\ StubsIntact' /\ Resolutions' /\ SlotsPatched'
        BY <2>1, SameMemory, SameSlots DEF ImageInv
    <2>3. /\ imageStep' \in {"Parsing", "Mapping", "ResolvingImports", "Ready", "Peb"}
          /\ IF imageStep' \in {"Idle", "Parsing", "Mapping"} THEN DOMAIN resolved = {}
             ELSE copied = Len(image.sections)
          /\ imageStep' \in {"Ready", "Peb", "Running"} => importAt[1] > Len(Imports)
        BY <1>2 DEF ParseFails, Parse, Mapped, Ready, BuildPeb, Reaches, ImageInv
    <2> QED
        BY <1>1, <2>1, <2>2, <2>3 DEF ImageInv
<1>3. CASE CopySection
    <2>1. /\ UNCHANGED <<image, imageStep, importAt, nextStub, resolved, stubs>>
          /\ imageStep = "Mapping"
        BY <1>3 DEF CopySection
    <2>2. MemoryCopied'
        BY <1>3, CopyStep
    <2>3. Resolutions' /\ SlotsPatched'
        BY <2>1, SameSlots DEF ImageInv
    <2>4. DOMAIN resolved = {}
        BY <2>1 DEF ImageInv
    <2>5. StubsIntact'
        BY <2>1, <2>4 DEF StubsIntact
    <2> QED
        BY <2>1, <2>2, <2>3, <2>4, <2>5 DEF ImageInv
<1>4. CASE Resolve
    <2>1. UNCHANGED <<image, imageStep, copied, stubs>> /\ imageStep = "ResolvingImports"
        BY <1>4 DEF Resolve
    <2>2. Resolutions' /\ MemoryCopied' /\ StubsIntact' /\ SlotsPatched'
        BY <1>4, ResolveKeeps, ResolvePatches
    <2> QED
        BY <2>1, <2>2 DEF ImageInv
<1>5. CASE NextDll
    <2>1. /\ UNCHANGED <<image, imageStep, copied, mapped, nextStub, resolved, stubs>>
          /\ imageStep = "ResolvingImports"
        BY <1>5 DEF NextDll
    <2>2. SlotsPatched'
        BY <1>5, NextDllKeeps
    <2>3. MemoryCopied' /\ StubsIntact'
        BY <2>1, SameMemory DEF ImageInv
    <2>4. Resolutions'
        BY <2>1 DEF ImageInv, Resolutions, FixedStubs, IsFixed, IsList
    <2> QED
        BY <2>1, <2>2, <2>3, <2>4 DEF ImageInv
<1>6. CASE RegisterImports
    <2>1. /\ UNCHANGED <<image, copied, mapped, importAt, nextStub, resolved>>
          /\ imageStep = "Peb" /\ imageStep' = "Running"
          /\ stubs' = [a \in DOMAIN FixedStubs \union {resolved[i].addr : i \in DOMAIN resolved} |->
                 IF \E i \in DOMAIN resolved : resolved[i].addr = a
                 THEN resolved[CHOOSE i \in DOMAIN resolved : resolved[i].addr = a].name
                 ELSE FixedStubs[a]]
        BY <1>6 DEF RegisterImports, Reaches
    <2>2. MemoryCopied' /\ StubsIntact' /\ Resolutions' /\ SlotsPatched'
        BY <2>1, SameMemory, SameSlots DEF ImageInv
    <2>3. ASSUME NEW i \in DOMAIN resolved
          PROVE  resolved[i].addr \in DOMAIN stubs' /\ stubs'[resolved[i].addr] = resolved[i].name
        <3> DEFINE a == resolved[i].addr
                   j == CHOOSE x \in DOMAIN resolved : resolved[x].addr = a
        <3>1. j \in DOMAIN resolved /\ resolved[j].addr = a
            OBVIOUS
        <3>2. resolved[j].name = resolved[i].name
            BY <3>1 DEF ImageInv, Resolutions
        <3>3. stubs'[a] = resolved[j].name /\ a \in DOMAIN stubs'
            BY <2>1
        <3> QED
            BY <3>2, <3>3
    <2>4. copied = Len(image.sections) /\ importAt[1] > Len(Imports)
        BY <2>1 DEF ImageInv
    <2> QED
        BY <1>1, <2>1, <2>2, <2>3, <2>4 DEF ImageInv
<1>7. CASE UNCHANGED imageVars
    <2>1. UNCHANGED <<image, imageStep, copied, mapped, importAt, nextStub, resolved, stubs>>
        BY <1>7 DEF imageVars
    <2>2. MemoryCopied' /\ StubsIntact' /\ Resolutions' /\ SlotsPatched'
        BY <2>1, SameMemory, SameSlots DEF ImageInv
    <2> QED
        BY <1>1, <2>1, <2>2 DEF ImageInv
<1> QED
    BY <1>2, <1>3, <1>4, <1>5, <1>6, <1>7 DEF ImageNext

\* A call through a slot that no later one overlaps reaches its function.
LEMMA SlotCalls ==
    ASSUME ImageInv, imageStep = "Running", NEW i \in DOMAIN resolved,
           NEW at \in Nat, resolved[i].slot = at, at + SlotBytes <= ImageBytes,
           \A j \in DOMAIN resolved : j > i =>
               \A a \in ImageAddress : ~ (Patched(i, a) /\ Patched(j, a))
    PROVE  CallReaches(at, resolved[i].name)
<1> DEFINE b == SlotBytes
<1>1. b \in Nat /\ ImageBytes \in Nat /\ ImageAddress = 0 .. ImageBytes - 1
    BY ImageAssumption DEF SlotBytes, ImageAddress
<1>2. ASSUME NEW p \in 0 .. b - 1 PROVE mapped[at + p] = OfStub(resolved[i].addr, p)
    <2>1. at + p \in ImageAddress /\ at <= at + p /\ at + p < at + b /\ (at + p) - at = p
        <3> HIDE DEF b
        <3>1. at + b <= ImageBytes
            BY DEF b
        <3> QED
            BY <1>1, <3>1
    <2>2. Patched(i, at + p)
        BY <2>1 DEF Patched, InSlot
    <2>3. \A j \in DOMAIN resolved : j > i => ~Patched(j, at + p)
        BY <2>1, <2>2
    <2>4. mapped[at + p] = OfStub(resolved[i].addr, (at + p) - at)
        BY <2>1, <2>2, <2>3 DEF ImageInv, StubsIntact
    <2> QED
        BY <2>1, <2>4
<1>3. resolved[i].addr \in DOMAIN stubs /\ stubs[resolved[i].addr] = resolved[i].name
    BY DEF ImageInv
<1> QED
    BY <1>2, <1>3 DEF CallReaches

\* The invariant of the loader says that calls reach their imports.
LEMMA ImageShows == ImageInv => CallsReachImports
<1> SUFFICES ASSUME ImageInv PROVE CallsReachImports
    OBVIOUS
<1>1. /\ image \in Images /\ Len(image.sections) \in Nat
      /\ DOMAIN image.sections = 1 .. Len(image.sections)
      /\ \A i \in 1 .. Len(image.sections) :
             /\ image.sections[i].va \in Nat /\ image.sections[i].size \in Nat
             /\ image.sections[i].raw \in Nat /\ image.sections[i].rawSize \in Nat
    BY ImageParts DEF ImageInv
<1>2. ASSUME imageStep \notin {"Idle", "Parsing", "Mapping"},
             NEW i \in DOMAIN image.sections, NEW a \in ImageAddress,
             Raw(image.sections[i], a), InFile(image.sections[i]),
             \A j \in DOMAIN image.sections \ {i} : ~Covers(image.sections[j], a),
             \A j \in DOMAIN resolved : ~Patched(j, a)
      PROVE  {mapped[a]} = {FromFile(o) : o \in FileOffset(a)}
    <2> DEFINE s == image.sections[i]
               C == {j \in DOMAIN image.sections :
                        /\ Covers(image.sections[j], a)
                        /\ \A k \in 1 .. j - 1 : ~Covers(image.sections[k], a)}
    <2>1. mapped[a] = FromFile(s.raw + a - s.va)
        BY <1>1, <1>2 DEF ImageInv, MemoryCopied
    <2>2. Covers(s, a)
        <3>1. s.va \in Nat /\ s.size \in Nat /\ s.rawSize \in Nat
            BY <1>1
        <3>2. a \in Int
            BY ImageAssumption DEF ImageAddress
        <3> HIDE DEF s
        <3>3. Raw(s, a)
            BY <1>2 DEF s
        <3> QED
            BY <3>1, <3>2, <3>3 DEF Raw, Covers
    <2>3. C = {i}
        <3>1. ASSUME NEW k \in 1 .. i - 1 PROVE ~Covers(image.sections[k], a)
            <4>1. k \in DOMAIN image.sections \ {i}
                BY <1>1
            <4> QED
                BY <1>2, <4>1
        <3>2. i \in C
            BY <2>2, <3>1
        <3>3. \A j \in C : j = i
            BY <1>2
        <3> QED
            BY <3>2, <3>3
    <2>4. FileOffset(a) = {image.sections[j].raw + a - image.sections[j].va : j \in C}
        BY DEF FileOffset
    <2> HIDE DEF C
    <2>5. FileOffset(a) = {s.raw + a - s.va}
        BY <2>3, <2>4
    <2> HIDE DEF s
    <2> QED
        BY <2>1, <2>5
<1>3. ASSUME imageStep = "Running", image.wide, image.plus,
             NEW d \in DOMAIN Imports, NEW k \in DOMAIN Imports[d].table,
             NEW at, at = Imports[d].thunk + (k - 1) * (2 * HalfSlot),
             Imports[d].thunk # 0, at + 2 * HalfSlot <= ImageBytes,
             \A n \in 1 .. k : Imports[d].table[n] # Unreadable
      PROVE  \E i \in DOMAIN resolved :
                 /\ resolved[i].name = Imports[d].table[k] /\ resolved[i].slot = at
                 /\ (\A j \in DOMAIN resolved : j > i =>
                        \A a \in ImageAddress : ~ (Patched(i, a) /\ Patched(j, a)))
                    => CallReaches(at, Imports[d].table[k])
    <2>1. /\ Len(Imports) \in Nat /\ d \in 1 .. Len(Imports) /\ k \in 1 .. Len(Imports[d].table)
          /\ k \in 1 .. Len(Imports[d].functions) /\ Imports[d].functions[k] = Imports[d].table[k]
          /\ Imports[d].thunk \in Nat
        BY <1>1, <1>3, ImportsAre
    <2>2. LookedAt(d, k)
        BY <1>3, <2>1 DEF ImageInv, SlotsPatched, LookedAt
    <2>3. SlotBytes = 2 * HalfSlot /\ Slot(d, k) = at
        BY <1>3 DEF SlotBytes, Slot
    <2>4. PatchedFor(Slot(d, k), Imports[d].functions[k])
        BY <1>3, <2>1, <2>2, <2>3 DEF ImageInv, SlotsPatched
    <2>5. PICK i \in DOMAIN resolved : resolved[i].name = Imports[d].table[k] /\ resolved[i].slot = at
        BY <2>1, <2>3, <2>4 DEF PatchedFor
    <2>6. at \in Nat
        <3> DEFINE t == Imports[d].thunk
                   m == (k - 1) * (2 * HalfSlot)
        <3>1. HalfSlot \in Nat
            BY ImageAssumption
        <3>2. k - 1 \in Nat /\ 2 * HalfSlot \in Nat
            BY <2>1, <3>1
        <3>3. m \in Nat
            BY <3>2
        <3>4. t \in Nat /\ at = t + m
            BY <1>3, <2>1
        <3> HIDE DEF t, m
        <3> QED
            BY <3>3, <3>4
    <2>7. (\A j \in DOMAIN resolved : j > i =>
              \A a \in ImageAddress : ~ (Patched(i, a) /\ Patched(j, a)))
          => CallReaches(at, resolved[i].name)
        BY <1>3, <2>3, <2>5, <2>6, SlotCalls
    <2> QED
        BY <2>5, <2>7
<1>4. \A i, j \in DOMAIN resolved :
          resolved[i].addr = resolved[j].addr => resolved[i].name = resolved[j].name
    BY DEF ImageInv, Resolutions
<1> QED
    BY <1>2, <1>3, <1>4 DEF CallsReachImports

\* For any file, any list of fixed stubs, any size of an image and of an entry:
\* beside the slots memory holds what the parser finds in the file, and a call
\* through the import table of a 64-bit image reaches the function of that name.
THEOREM CallsReach == ImageSpec => []CallsReachImports
<1>1. ImageInv => CallsReachImports
    BY ImageShows
<1> QED
    BY <1>1, InitImage, NextImage, PTL DEF ImageSpec

-----------------------------------------------------------------------------
(* Installer packages: what the archive of a package is, cell by cell, and  *)
(* what decode_archive makes of as much of it as was downloaded.            *)

\* What the loop of encode_archive has written after each file.
UpTo(p) ==
    CHOOSE upTo : upTo = [i \in 0 .. Len(p) |->
        IF i = 0 THEN << >> ELSE upTo[i - 1] \o FileCells(p[i])]

\* The cells of one file: its name, its length, its data.
LEMMA FileCellsAre ==
    ASSUME NEW f \in PackageFiles
    PROVE  /\ FileCells(f) \in Seq(PackageCell) /\ Len(FileCells(f)) = Len(f.data) + 2
           /\ FileCells(f)[1] = f.name /\ FileCells(f)[2] = Len(f.data)
           /\ \A x \in 1 .. Len(f.data) : FileCells(f)[2 + x] = f.data[x]
           /\ (\A x \in 1 .. Len(f.data) : f.data[x] # Swup) =>
                  FileCells(f) \in Seq(PackageCell \ {Swup})
<1> DEFINE head == <<f.name, Len(f.data)>>
           data == f.data
           all == head \o data
<1>1. f.name \in FileNames /\ data \in Seq(PackageCell) /\ Len(data) \in Nat
    <2>1. f.name \in FileNames /\ data \in Seq(PackageCell)
        BY DEF PackageFiles
    <2> QED
        BY <2>1, LenProperties
<1>2. /\ head \in Seq(PackageCell) /\ Len(head) = 2 /\ head[1] = f.name /\ head[2] = Len(data)
      /\ head \in Seq(PackageCell \ {Swup})
    <2>1. f.name \in PackageCell \ {Swup} /\ Len(data) \in PackageCell \ {Swup}
        BY <1>1, PackageAssumption DEF PackageCell
    <2> QED
        BY <2>1
<1>3. FileCells(f) = all
    BY DEF FileCells
<1> HIDE DEF head, data
<1>4. /\ all \in Seq(PackageCell) /\ Len(all) = 2 + Len(data)
      /\ \A i \in 1 .. 2 + Len(data) : all[i] = IF i <= 2 THEN head[i] ELSE data[i - 2]
    <2>1. /\ all \in Seq(PackageCell) /\ Len(all) = Len(head) + Len(data)
          /\ \A i \in 1 .. Len(head) + Len(data) :
                 all[i] = IF i <= Len(head) THEN head[i] ELSE data[i - Len(head)]
        BY <1>1, <1>2, ConcatProperties
    <2> HIDE DEF all
    <2> QED
        BY <1>2, <2>1
<1>5. /\ 1 \in 1 .. 2 + Len(data) /\ 2 \in 1 .. 2 + Len(data)
      /\ \A x \in 1 .. Len(data) : /\ 2 + x \in 1 .. 2 + Len(data) /\ ~ (2 + x <= 2)
                                    /\ (2 + x) - 2 = x
    BY <1>1
<1>6. ASSUME \A x \in 1 .. Len(data) : data[x] # Swup PROVE all \in Seq(PackageCell \ {Swup})
    <2>1. \A x \in 1 .. Len(data) : data[x] \in PackageCell \ {Swup}
        BY <1>1, <1>6, ElementOfSeq
    <2>2. data \in Seq(PackageCell \ {Swup})
        <3> DEFINE T == PackageCell \ {Swup}
        <3> HIDE DEF T
        <3>1. \A x \in 1 .. Len(data) : data[x] \in T
            BY <2>1 DEF T
        <3>2. [x \in 1 .. Len(data) |-> data[x]] \in Seq(T)
            BY <1>1, <3>1, IsASeq
        <3>3. data = [x \in 1 .. Len(data) |-> data[x]]
            BY <1>1
        <3> QED
            BY <3>2, <3>3 DEF T
    <2> QED
        BY <1>2, <2>2, ConcatProperties
<1> HIDE DEF all
<1>7. /\ all[1] = f.name /\ all[2] = Len(data)
      /\ \A x \in 1 .. Len(data) : all[2 + x] = data[x]
    BY <1>2, <1>4, <1>5
<1> QED
    BY <1>1, <1>3, <1>4, <1>6, <1>7 DEF data

\* The loop is defined, and its result is the body of the archive.
LEMMA UpToRun ==
    ASSUME NEW p \in Seq(PackageFiles)
    PROVE  /\ UpTo(p)[0] = << >>
           /\ \A i \in 1 .. Len(p) : UpTo(p)[i] = UpTo(p)[i - 1] \o FileCells(p[i])
           /\ \A i \in 0 .. Len(p) : UpTo(p)[i] \in Seq(PackageCell)
           /\ Body(p) = UpTo(p)[Len(p)]
<1> DEFINE V == Seq(PackageCell)
           n == Len(p)
           empty == << >>
           step == [i \in 1 .. n |-> [v \in V |-> v \o FileCells(p[i])]]
           Runs(g) == g = [i \in 0 .. n |->
                           IF i = 0 THEN << >> ELSE g[i - 1] \o FileCells(p[i])]
<1>1. n \in Nat /\ empty \in V
    OBVIOUS
<1>2. \A i \in 1 .. n : p[i] \in PackageFiles
    OBVIOUS
<1>3. \A i \in 1 .. n, v \in V : v \o FileCells(p[i]) \in V
    BY <1>2, FileCellsAre, ConcatProperties
<1>4. step \in [1 .. n -> [V -> V]]
    BY <1>3
<1>5. \A i \in 1 .. n, v \in V : step[i][v] = v \o FileCells(p[i])
    OBVIOUS
<1> HIDE DEF V, step, n, empty
<1>6. PICK f \in [0 .. n -> V] : f[0] = empty /\ \A i \in 1 .. n : f[i] = step[i][f[i - 1]]
    <2>1. LoopRuns(n, V, empty, step) # {}
        BY <1>1, <1>4, LoopIsDefined
    <2> QED
        BY <2>1 DEF LoopRuns
<1>7. ASSUME NEW i \in 1 .. n PROVE f[i] = f[i - 1] \o FileCells(p[i])
    <2>1. i - 1 \in 0 .. n
        BY <1>1
    <2>2. f[i - 1] \in V
        BY <2>1
    <2> QED
        BY <1>5, <1>6, <2>2
<1>8. Runs(f)
    <2> DEFINE h == [i \in 0 .. n |-> IF i = 0 THEN << >> ELSE f[i - 1] \o FileCells(p[i])]
    <2>1. \A i \in 0 .. n : f[i] = h[i]
        <3>1. h[0] = << >> /\ \A i \in 1 .. n : h[i] = f[i - 1] \o FileCells(p[i])
            BY <1>1
        <3>2. \A i \in 0 .. n : i = 0 \/ i \in 1 .. n
            BY <1>1
        <3> HIDE DEF h
        <3> QED
            BY <1>6, <1>7, <3>1, <3>2 DEF empty
    <2> QED
        BY <2>1
<1>9. Runs(UpTo(p))
    <2>1. UpTo(p) = CHOOSE g : Runs(g)
        BY DEF UpTo, n
    <2> HIDE DEF Runs
    <2> QED
        BY <1>8, <2>1
<1>10. /\ UpTo(p)[0] = << >>
       /\ \A i \in 1 .. n : UpTo(p)[i] = UpTo(p)[i - 1] \o FileCells(p[i])
    BY <1>1, <1>9
<1>11. \A i \in 0 .. n : UpTo(p)[i] \in V
    <2> DEFINE Good == {i \in 0 .. n : UpTo(p)[i] \in V}
    <2>1. 0 \in Good
        BY <1>1, <1>10 DEF empty
    <2>2. ASSUME NEW i \in 0 .. n - 1, i \in Good PROVE i + 1 \in Good
        <3>1. i + 1 \in 1 .. n /\ i + 1 \in 0 .. n /\ (i + 1) - 1 = i /\ UpTo(p)[i] \in V
            BY <1>1, <2>2
        <3>2. UpTo(p)[i + 1] = UpTo(p)[i] \o FileCells(p[i + 1])
            BY <1>10, <3>1
        <3> QED
            BY <1>3, <3>1, <3>2
    <2> HIDE DEF Good
    <2>3. \A i \in 0 .. n - 1 : i \in Good => i + 1 \in Good
        BY <2>2
    <2>4. \A i \in 0 .. n : i \in Good
        BY <1>1, <2>1, <2>3, NumberInduction
    <2> QED
        BY <2>4 DEF Good
<1>12. Body(p) = UpTo(p)[n]
    BY DEF Body, UpTo, n
<1> QED
    BY <1>10, <1>11, <1>12 DEF V, n

\* The magic number of a program's archive is in the body only if it is in a file.
LEMMA PlainBody ==
    ASSUME NEW p \in Seq(PackageFiles),
           \A i \in 1 .. Len(p) : \A x \in 1 .. Len(p[i].data) : p[i].data[x] # Swup
    PROVE  \A x \in 1 .. Len(Body(p)) : Body(p)[x] # Swup
<1> DEFINE V == Seq(PackageCell \ {Swup})
           n == Len(p)
           Good == {i \in 0 .. n : UpTo(p)[i] \in V}
<1>1. n \in Nat /\ \A i \in 1 .. n : p[i] \in PackageFiles
    OBVIOUS
<1>2. /\ UpTo(p)[0] = << >> /\ Body(p) = UpTo(p)[n]
      /\ \A i \in 1 .. n : UpTo(p)[i] = UpTo(p)[i - 1] \o FileCells(p[i])
    BY UpToRun
<1>3. \A i \in 1 .. n : FileCells(p[i]) \in V
    BY <1>1, FileCellsAre
<1>4. \A v, w \in V : v \o w \in V
    BY ConcatProperties
<1>5. << >> \in V
    OBVIOUS
<1>6. \A v \in V : \A x \in 1 .. Len(v) : v[x] # Swup
    BY ElementOfSeq
<1> HIDE DEF V, n
<1>7. 0 \in Good
    BY <1>1, <1>2, <1>5
<1>8. ASSUME NEW i \in 0 .. n - 1, i \in Good PROVE i + 1 \in Good
    <2>1. i + 1 \in 1 .. n /\ i + 1 \in 0 .. n /\ (i + 1) - 1 = i /\ UpTo(p)[i] \in V
        BY <1>1, <1>8
    <2>2. UpTo(p)[i + 1] = UpTo(p)[i] \o FileCells(p[i + 1])
        BY <1>2, <2>1
    <2> QED
        BY <1>3, <1>4, <2>1, <2>2
<1> HIDE DEF Good
<1>9. \A i \in 0 .. n : i \in Good
    <2>1. \A i \in 0 .. n - 1 : i \in Good => i + 1 \in Good
        BY <1>8
    <2> QED
        BY <1>1, <1>7, <2>1, NumberInduction
<1>10. Body(p) \in V
    BY <1>1, <1>2, <1>9 DEF Good
<1> QED
    BY <1>6, <1>10

\* A file does not change the cells before it.
LEMMA UpToKeep ==
    ASSUME NEW p \in Seq(PackageFiles), NEW i \in 0 .. Len(p), NEW j \in i .. Len(p)
    PROVE  /\ Len(UpTo(p)[i]) <= Len(UpTo(p)[j])
           /\ \A x \in 1 .. Len(UpTo(p)[i]) : UpTo(p)[j][x] = UpTo(p)[i][x]
<1> DEFINE q == UpTo(p)
           Keeps(k) == /\ Len(q[i]) <= Len(q[k])
                       /\ \A x \in 1 .. Len(q[i]) : q[k][x] = q[i][x]
           Good == {d \in 0 .. Len(p) - i : Keeps(i + d)}
<1>1. Len(p) \in Nat /\ Len(p) - i \in Nat /\ i \in Nat
    OBVIOUS
<1>2. \A k \in 0 .. Len(p) : q[k] \in Seq(PackageCell) /\ Len(q[k]) \in Nat
    BY UpToRun, LenProperties
<1>3. 0 \in Good
    BY <1>1, <1>2
<1>4. ASSUME NEW d \in 0 .. Len(p) - i - 1, d \in Good PROVE d + 1 \in Good
    <2>1. i + d \in 0 .. Len(p) /\ i + d + 1 \in 1 .. Len(p) /\ Keeps(i + d)
        BY <1>1, <1>4
    <2>2. q[i + d + 1] = q[i + d] \o FileCells(p[i + d + 1])
        <3>1. (i + d + 1) - 1 = i + d
            BY <1>1
        <3> HIDE DEF q
        <3>2. \A k \in 1 .. Len(p) : q[k] = q[k - 1] \o FileCells(p[k])
            BY UpToRun DEF q
        <3> QED
            BY <2>1, <3>1, <3>2
    <2>3. FileCells(p[i + d + 1]) \in Seq(PackageCell)
        BY <2>1, FileCellsAre
    <2>4. /\ Len(q[i + d]) <= Len(q[i + d + 1])
          /\ \A x \in 1 .. Len(q[i + d]) : q[i + d + 1][x] = q[i + d][x]
        <3> HIDE DEF q
        <3> DEFINE a == q[i + d]  b == FileCells(p[i + d + 1])
        <3>1. a \in Seq(PackageCell) /\ b \in Seq(PackageCell) /\ q[i + d + 1] = a \o b
            BY <1>2, <2>1, <2>2, <2>3
        <3> HIDE DEF a, b
        <3>2. /\ Len(a \o b) = Len(a) + Len(b) /\ Len(a) \in Nat /\ Len(b) \in Nat
              /\ \A x \in 1 .. Len(a) : (a \o b)[x] = a[x]
            BY <3>1, ConcatProperties, LenProperties
        <3>3. Len(a) <= Len(a \o b)
            BY <3>2
        <3> QED
            BY <3>1, <3>2, <3>3 DEF a
    <2>5. Keeps(i + d + 1)
        <3> HIDE DEF q
        <3> QED
            BY <1>1, <1>2, <2>1, <2>4
    <2>6. i + (d + 1) = i + d + 1 /\ d + 1 \in 0 .. Len(p) - i
        BY <1>1
    <2>7. Keeps(i + (d + 1))
        BY <2>5, <2>6
    <2> QED
        BY <2>6, <2>7
<1> DEFINE m == Len(p) - i
<1> HIDE DEF Good, m
<1>5. \A d \in 0 .. m : d \in Good
    <2>1. m \in Nat /\ \A d \in 0 .. m - 1 : d \in Good => d + 1 \in Good
        BY <1>1, <1>4 DEF m
    <2> QED
        BY <1>3, <2>1, NumberInduction
<1>6. j - i \in 0 .. Len(p) - i /\ i + (j - i) = j
    BY <1>1
<1>7. j - i \in Good
    BY <1>5, <1>6 DEF m
<1>8. Keeps(i + (j - i))
    BY <1>7 DEF Good
<1> QED
    BY <1>6, <1>8

\* What decode_archive has after i files, of an archive of which m cells are there.
DecodedUpTo(p, m, i) ==
    IF (\A k \in 1 .. i : p[k].name # BadName) /\ 3 + Len(UpTo(p)[i]) <= m
    THEN [ok |-> TRUE, at |-> 4 + Len(UpTo(p)[i]), files |-> SubSeq(p, 1, i)]
    ELSE Refused

\* The cells are those of the archive of p, as far as they are there.
Starts(data, p) ==
    /\ Len(data) \in Nat /\ Len(data) >= 3 /\ data[3] = Len(p)
    /\ \A x \in 1 .. Len(Body(p)) : 3 + x <= Len(data) => data[3 + x] = Body(p)[x]

\* Where file i stands in the body, and what stands there.
LEMMA FileInBody ==
    ASSUME NEW p \in Seq(PackageFiles), NEW i \in 1 .. Len(p)
    PROVE  LET at == Len(UpTo(p)[i - 1])
               size == Len(p[i].data)
           IN  /\ at \in Nat /\ size \in Nat
               /\ Len(UpTo(p)[i]) = at + 2 + size
               /\ at + 2 + size <= Len(Body(p)) /\ Len(Body(p)) \in Nat
               /\ Body(p)[at + 1] = p[i].name /\ Body(p)[at + 2] = size
               /\ \A x \in 1 .. size : Body(p)[at + 2 + x] = p[i].data[x]
<1> DEFINE a == UpTo(p)[i - 1]  b == FileCells(p[i])  c == UpTo(p)[i]  size == Len(p[i].data)
<1>1. /\ Len(p) \in Nat /\ i - 1 \in 0 .. Len(p) /\ i \in 0 .. Len(p)
      /\ Len(p) \in i .. Len(p) /\ p[i] \in PackageFiles
    OBVIOUS
<1>2. a \in Seq(PackageCell) /\ c \in Seq(PackageCell) /\ c = a \o b
    BY <1>1, UpToRun
<1>3. /\ b \in Seq(PackageCell) /\ Len(b) = size + 2 /\ b[1] = p[i].name /\ b[2] = size
      /\ \A x \in 1 .. size : b[2 + x] = p[i].data[x]
    BY <1>1, FileCellsAre
<1>4. Len(c) <= Len(Body(p)) /\ \A x \in 1 .. Len(c) : Body(p)[x] = c[x]
    BY <1>1, UpToKeep, UpToRun
<1>5. Body(p) \in Seq(PackageCell)
    <2>1. Len(p) \in 0 .. Len(p)
        BY <1>1
    <2> QED
        BY <2>1, UpToRun
<1>6. size \in Nat
    <2>1. p[i].data \in Seq(PackageCell)
        BY <1>1 DEF PackageFiles
    <2> QED
        BY <2>1, LenProperties
<1> HIDE DEF a, b, c, size
<1>7. /\ Len(a \o b) = Len(a) + Len(b) /\ Len(a) \in Nat /\ Len(Body(p)) \in Nat
      /\ \A x \in 1 .. Len(a) + Len(b) : (a \o b)[x] = IF x <= Len(a) THEN a[x] ELSE b[x - Len(a)]
    BY <1>2, <1>3, <1>5, ConcatProperties, LenProperties
<1>8. /\ Len(a) + 1 \in 1 .. Len(c) /\ Len(a) + 2 \in 1 .. Len(c) /\ Len(c) = Len(a) + 2 + size
      /\ Len(a) + 1 \in 1 .. Len(a) + Len(b) /\ Len(a) + 2 \in 1 .. Len(a) + Len(b)
    <2>1. Len(c) = Len(a) + 2 + size /\ Len(b) = 2 + size
        BY <1>2, <1>3, <1>6, <1>7
    <2>2. Len(a) \in Nat /\ Len(a) + Len(b) = Len(c)
        BY <1>2, <1>7
    <2> QED
        BY <1>6, <2>1, <2>2
<1>9. c[Len(a) + 1] = b[1] /\ c[Len(a) + 2] = b[2]
    BY <1>2, <1>7, <1>8
<1>10. /\ Body(p)[Len(a) + 1] = p[i].name /\ Body(p)[Len(a) + 2] = size
    BY <1>3, <1>4, <1>8, <1>9
<1>11. Len(a) + 2 + size <= Len(Body(p))
    BY <1>4, <1>8
<1>12. ASSUME NEW x \in 1 .. size PROVE Body(p)[Len(a) + 2 + x] = p[i].data[x]
    <2>1. /\ Len(a) + 2 + x \in 1 .. Len(c) /\ Len(a) + 2 + x \in 1 .. Len(a) + Len(b)
          /\ ~ (Len(a) + 2 + x <= Len(a)) /\ (Len(a) + 2 + x) - Len(a) = 2 + x
        <3>1. Len(b) = size + 2 /\ Len(a) \in Nat /\ Len(c) = Len(a) + 2 + size
            BY <1>3, <1>7, <1>8
        <3> QED
            BY <1>6, <3>1
    <2>2. c[Len(a) + 2 + x] = b[2 + x]
        BY <1>2, <1>7, <2>1
    <2> QED
        BY <1>3, <1>4, <2>1, <2>2
<1> QED
    BY <1>6, <1>7, <1>8, <1>10, <1>11, <1>12 DEF a, c, size

\* One turn of the loop takes one file, if it is all there and its name is good.
LEMMA TakeFileStep ==
    ASSUME NEW p \in Seq(PackageFiles), NEW data, Starts(data, p), NEW i \in 1 .. Len(p)
    PROVE  TakeFile(data, DecodedUpTo(p, Len(data), i - 1)) = DecodedUpTo(p, Len(data), i)
<1> DEFINE m == Len(data)
           at == Len(UpTo(p)[i - 1])
           size == Len(p[i].data)
           r == DecodedUpTo(p, m, i - 1)
<1>1. /\ m \in Nat /\ at \in Nat /\ size \in Nat /\ Len(UpTo(p)[i]) = at + 2 + size
      /\ at + 2 + size <= Len(Body(p)) /\ Len(Body(p)) \in Nat
      /\ Body(p)[at + 1] = p[i].name /\ Body(p)[at + 2] = size
      /\ \A x \in 1 .. size : Body(p)[at + 2 + x] = p[i].data[x]
    BY FileInBody DEF Starts
<1>2. /\ p[i] = [name |-> p[i].name, data |-> p[i].data]
      /\ p[i].name \in FileNames /\ p[i].data \in Seq(PackageCell)
    <2>1. \A f \in PackageFiles : /\ f = [name |-> f.name, data |-> f.data]
                                   /\ f.name \in FileNames /\ f.data \in Seq(PackageCell)
        BY DEF PackageFiles
    <2>2. p[i] \in PackageFiles
        OBVIOUS
    <2> QED
        BY <2>1, <2>2
<1>3. SubSeq(p, 1, i) = Append(SubSeq(p, 1, i - 1), p[i])
    OBVIOUS
<1>4. i \in Nat /\ \A k \in 1 .. i : k = i \/ k \in 1 .. i - 1
    OBVIOUS
<1> HIDE DEF m, at, size
<1>5. CASE ~ ((\A k \in 1 .. i - 1 : p[k].name # BadName) /\ 3 + at <= m)
    <2>1. r = Refused
        BY <1>5 DEF DecodedUpTo, at
    <2>2. TakeFile(data, r) = Refused
        BY <2>1 DEF TakeFile, Refused
    <2>3. ~ ((\A k \in 1 .. i : p[k].name # BadName) /\ 3 + (at + 2 + size) <= m)
        <3>1. 3 + (at + 2 + size) <= m => 3 + at <= m
            BY <1>1
        <3>2. \A k \in 1 .. i - 1 : k \in 1 .. i
            BY <1>4
        <3> QED
            BY <1>5, <3>1, <3>2
    <2>4. DecodedUpTo(p, m, i) = Refused
        BY <1>1, <2>3 DEF DecodedUpTo
    <2> QED
        BY <2>2, <2>4 DEF m
<1>6. CASE (\A k \in 1 .. i - 1 : p[k].name # BadName) /\ 3 + at <= m
    <2>1. r = [ok |-> TRUE, at |-> 4 + at, files |-> SubSeq(p, 1, i - 1)]
        BY <1>6 DEF DecodedUpTo, at
    <2>2. r.ok /\ r.at = 4 + at /\ r.files = SubSeq(p, 1, i - 1)
        BY <2>1
    <2> HIDE DEF r
    <2>3. CASE r.at + 1 > m
        <3>1. TakeFile(data, r) = Refused
            BY <2>3 DEF TakeFile, m
        <3>2. ~ (3 + (at + 2 + size) <= m)
            BY <1>1, <2>2, <2>3
        <3>3. DecodedUpTo(p, m, i) = Refused
            BY <1>1, <3>2 DEF DecodedUpTo
        <3> QED
            BY <3>1, <3>3 DEF m, r
    <2>4. CASE r.at + 1 <= m
        <3>1. data[r.at] = p[i].name /\ data[r.at + 1] = size
            <4>1. /\ at + 1 \in 1 .. Len(Body(p)) /\ at + 2 \in 1 .. Len(Body(p))
                  /\ 3 + (at + 1) = r.at /\ 3 + (at + 2) = r.at + 1
                  /\ 3 + (at + 1) <= m /\ 3 + (at + 2) <= m
                <5>1. /\ m \in Nat /\ at \in Nat /\ size \in Nat /\ Len(Body(p)) \in Nat
                      /\ at + 2 + size <= Len(Body(p)) /\ r.at = 4 + at
                    BY <1>1, <2>2
                <5> QED
                    BY <2>4, <5>1
            <4>2. \A x \in 1 .. Len(Body(p)) : 3 + x <= m => data[3 + x] = Body(p)[x]
                BY DEF Starts, m
            <4>3. data[3 + (at + 1)] = Body(p)[at + 1] /\ data[3 + (at + 2)] = Body(p)[at + 2]
                BY <4>1, <4>2
            <4> QED
                BY <1>1, <4>1, <4>3
        <3>2. CASE p[i].name = BadName \/ r.at + 1 + size > m
            <4>1. TakeFile(data, r) = Refused
                BY <3>1, <3>2 DEF TakeFile, m
            <4>2. ~ ((\A k \in 1 .. i : p[k].name # BadName) /\ 3 + (at + 2 + size) <= m)
                <5>1. r.at + 1 + size > m => ~ (3 + (at + 2 + size) <= m)
                    BY <1>1, <2>2
                <5>2. i \in 1 .. i
                    BY <1>4
                <5> QED
                    BY <3>2, <5>1, <5>2
            <4>3. DecodedUpTo(p, m, i) = Refused
                BY <1>1, <4>2 DEF DecodedUpTo
            <4> QED
                BY <4>1, <4>3 DEF m, r
        <3>3. CASE p[i].name # BadName /\ ~ (r.at + 1 + size > m)
            <4> DEFINE got == SubSeq(data, r.at + 2, r.at + 1 + size)
            <4>1. ~ (~ r.ok \/ r.at + 1 > Len(data) \/ data[r.at] \notin FileNames \ {BadName}
                       \/ data[r.at + 1] \notin Nat \/ r.at + 1 + data[r.at + 1] > Len(data))
                <5>1. ~ (r.at + 1 > m) /\ p[i].name \in FileNames \ {BadName} /\ size \in Nat
                    BY <1>1, <1>2, <2>2, <2>4, <3>3
                <5> QED
                    BY <2>2, <3>1, <3>3, <5>1 DEF m
            <4>2. TakeFile(data, r) =
                      [ok |-> TRUE, at |-> r.at + 2 + size,
                       files |-> Append(r.files, [name |-> p[i].name, data |-> got])]
                BY <3>1, <4>1 DEF TakeFile
            <4>8. got = p[i].data
                <5>1. \A x \in 1 .. size : data[r.at + 1 + x] = p[i].data[x]
                    <6> SUFFICES ASSUME NEW x \in 1 .. size PROVE data[r.at + 1 + x] = p[i].data[x]
                        OBVIOUS
                    <6>1. /\ at + 2 + x \in 1 .. Len(Body(p)) /\ 3 + (at + 2 + x) = r.at + 1 + x
                          /\ 3 + (at + 2 + x) <= m
                        <7>1. /\ m \in Nat /\ at \in Nat /\ size \in Nat /\ Len(Body(p)) \in Nat
                              /\ at + 2 + size <= Len(Body(p)) /\ r.at = 4 + at
                              /\ r.at + 1 + size <= m
                            BY <1>1, <2>2, <3>3
                        <7> QED
                            BY <7>1
                    <6>2. data[3 + (at + 2 + x)] = Body(p)[at + 2 + x]
                        BY <6>1 DEF Starts, m
                    <6> QED
                        BY <1>1, <6>1, <6>2
                <5>2. /\ got \in Seq(PackageCell) /\ Len(got) = size
                      /\ \A x \in 1 .. size : got[x] = p[i].data[x]
                    <6> DEFINE lo == r.at + 2  hi == r.at + 1 + size
                    <6>1. /\ lo \in Int /\ hi \in Int /\ (IF lo <= hi THEN hi - lo + 1 ELSE 0) = size
                          /\ hi - lo + 1 = size
                          /\ \A y \in lo .. hi : y - (r.at + 1) \in 1 .. size
                                                /\ r.at + 1 + (y - (r.at + 1)) = y
                          /\ \A x \in 1 .. size : lo + x - 1 = r.at + 1 + x
                        BY <1>1, <2>2
                    <6>2. \A x \in 1 .. size : p[i].data[x] \in PackageCell
                        BY <1>2, ElementOfSeq DEF size
                    <6>3. \A y \in lo .. hi : data[y] \in PackageCell
                        BY <5>1, <6>1, <6>2
                    <6> HIDE DEF lo, hi
                    <6>4. /\ SubSeq(data, lo, hi) \in Seq(PackageCell)
                          /\ Len(SubSeq(data, lo, hi)) = IF lo <= hi THEN hi - lo + 1 ELSE 0
                          /\ \A x \in 1 .. hi - lo + 1 : SubSeq(data, lo, hi)[x] = data[lo + x - 1]
                        BY <6>1, <6>3, SubSeqProperties
                    <6>5. got = SubSeq(data, lo, hi)
                        BY DEF lo, hi
                    <6> HIDE DEF got
                    <6> QED
                        BY <5>1, <6>1, <6>4, <6>5
                <5> HIDE DEF got
                <5> QED
                    BY <1>2, <5>2, SeqEqual DEF size
            <4> HIDE DEF got
            <4>3. r.at + 2 + size = 4 + (at + 2 + size)
                BY <1>1, <2>2
            <4>4. Append(r.files, [name |-> p[i].name, data |-> got]) = SubSeq(p, 1, i)
                BY <1>2, <1>3, <2>2, <4>8
            <4>5. TakeFile(data, r) =
                      [ok |-> TRUE, at |-> 4 + (at + 2 + size), files |-> SubSeq(p, 1, i)]
                BY <4>2, <4>3, <4>4
            <4>6. (\A k \in 1 .. i : p[k].name # BadName) /\ 3 + (at + 2 + size) <= m
                <5>1. 3 + (at + 2 + size) <= m
                    BY <1>1, <2>2, <3>3
                <5>2. \A k \in 1 .. i : p[k].name # BadName
                    BY <1>4, <1>6, <3>3
                <5> QED
                    BY <5>1, <5>2
            <4>7. DecodedUpTo(p, m, i) =
                      [ok |-> TRUE, at |-> 4 + (at + 2 + size), files |-> SubSeq(p, 1, i)]
                BY <1>1, <4>6 DEF DecodedUpTo
            <4> QED
                BY <4>5, <4>7 DEF m, r
        <3> QED
            BY <3>2, <3>3
    <2> QED
        BY <1>1, <2>2, <2>3, <2>4
<1> QED
    BY <1>5, <1>6

\* decode_archive on an archive, whole or cut: the files of it, or a refusal.
LEMMA DecodeIs ==
    ASSUME NEW p \in Seq(PackageFiles), NEW data, NEW magic, Starts(data, p),
           data[1] = magic, data[2] = 1
    PROVE  Decode(data, magic) = DecodedUpTo(p, Len(data), Len(p))
<1> DEFINE first == [ok |-> TRUE, at |-> 4, files |-> << >>]
           n == Len(p)
           g == [i \in 0 .. n |-> DecodedUpTo(p, Len(data), i)]
           Runs(f) == f = [i \in 0 .. n |-> IF i = 0 THEN first ELSE TakeFile(data, f[i - 1])]
           after == CHOOSE f : Runs(f)
<1>1. n \in Nat /\ data[3] = n /\ Len(data) \in Nat /\ ~ (Len(data) < 3)
    BY DEF Starts
<1>2. DecodedUpTo(p, Len(data), 0) = first
    <2>5. UpTo(p)[0] = << >>
        BY UpToRun
    <2>1. Len(UpTo(p)[0]) = 0
        BY <2>5
    <2>4. SubSeq(p, 1, 0) = << >>
        BY SubSeqEmpty
    <2>3. 3 + Len(UpTo(p)[0]) <= Len(data) /\ 4 + Len(UpTo(p)[0]) = 4
        BY <1>1, <2>1
    <2>2. (\A k \in 1 .. 0 : p[k].name # BadName) /\ 3 + Len(UpTo(p)[0]) <= Len(data)
        BY <2>3
    <2> QED
        BY <2>2, <2>3, <2>4 DEF DecodedUpTo
<1>3. \A i \in 1 .. n : TakeFile(data, DecodedUpTo(p, Len(data), i - 1)) = DecodedUpTo(p, Len(data), i)
    BY TakeFileStep
<1>4. Decode(data, magic) = after[n]
    <2>1. data[3] \in Nat
        BY <1>1
    <2> QED
        BY <1>1, <2>1 DEF Decode
<1> HIDE DEF n, first
<1>5. Runs(g)
    <2> DEFINE h == [i \in 0 .. n |-> IF i = 0 THEN first ELSE TakeFile(data, g[i - 1])]
    <2>1. \A i \in 0 .. n : g[i] = h[i]
        <3>1. \A i \in 0 .. n : g[i] = DecodedUpTo(p, Len(data), i)
            OBVIOUS
        <3>2. h[0] = first /\ \A i \in 1 .. n : h[i] = TakeFile(data, g[i - 1])
            BY <1>1
        <3>3. 0 \in 0 .. n /\ \A i \in 0 .. n : i = 0 \/ (i \in 1 .. n /\ i - 1 \in 0 .. n)
            BY <1>1
        <3> HIDE DEF g, h
        <3>4. \A i \in 1 .. n : h[i] = TakeFile(data, DecodedUpTo(p, Len(data), i - 1))
            BY <3>1, <3>2, <3>3
        <3> QED
            BY <1>2, <1>3, <3>1, <3>2, <3>3, <3>4
    <2> QED
        BY <2>1
<1>6. Runs(after)
    <2> HIDE DEF Runs, g
    <2> QED
        BY <1>5
<1>7. after[0] = first /\ \A i \in 1 .. n : after[i] = TakeFile(data, after[i - 1])
    <2>1. after = [i \in 0 .. n |-> IF i = 0 THEN first ELSE TakeFile(data, after[i - 1])]
        BY <1>6
    <2> HIDE DEF after
    <2> QED
        BY <1>1, <2>1
<1> DEFINE Good == {i \in 0 .. n : after[i] = DecodedUpTo(p, Len(data), i)}
<1> HIDE DEF after, Runs, g
<1>8. 0 \in Good
    BY <1>1, <1>2, <1>7
<1>9. ASSUME NEW i \in 0 .. n - 1, i \in Good PROVE i + 1 \in Good
    <2>1. i + 1 \in 1 .. n /\ i + 1 \in 0 .. n /\ (i + 1) - 1 = i /\ after[i] = DecodedUpTo(p, Len(data), i)
        BY <1>1, <1>9
    <2>2. after[i + 1] = TakeFile(data, after[i])
        BY <1>7, <2>1
    <2>3. TakeFile(data, DecodedUpTo(p, Len(data), i)) = DecodedUpTo(p, Len(data), i + 1)
        BY <1>3, <2>1
    <2> QED
        BY <2>1, <2>2, <2>3
<1> HIDE DEF Good
<1>10. \A i \in 0 .. n - 1 : i \in Good => i + 1 \in Good
    BY <1>9
<1>11. \A i \in 0 .. n : i \in Good
    BY <1>1, <1>8, <1>10, NumberInduction
<1>12. n \in Good
    BY <1>1, <1>11
<1> QED
    BY <1>4, <1>12 DEF Good, n

\* What decode_archive may return, whatever it is given.
DecodeResult == {Refused} \union [ok : {TRUE}, at : Nat, files : Seq(PackageFiles)]

LEMMA TakeFileTyped ==
    ASSUME NEW data \in Seq(PackageCell), NEW r \in DecodeResult
    PROVE  TakeFile(data, r) \in DecodeResult
<1> DEFINE len == data[r.at + 1]
           taken == SubSeq(data, r.at + 2, r.at + 1 + len)
           refuses == \/ ~r.ok \/ r.at + 1 > Len(data) \/ data[r.at] \notin FileNames \ {BadName}
                      \/ len \notin Nat \/ r.at + 1 + len > Len(data)
<1>1. CASE refuses
    BY <1>1 DEF TakeFile, DecodeResult
<1>2. CASE ~ refuses
    <2>1. r \in [ok : {TRUE}, at : Nat, files : Seq(PackageFiles)]
        <3>1. Refused.ok = FALSE /\ r.ok
            BY <1>2 DEF Refused
        <3>2. r # Refused
            BY <3>1
        <3> QED
            BY <3>2 DEF DecodeResult
    <2>2. /\ r.at \in Nat /\ r.files \in Seq(PackageFiles) /\ data[r.at] \in FileNames
          /\ len \in Nat /\ r.at + 1 + len <= Len(data) /\ Len(data) \in Nat
        BY <1>2, <2>1, LenProperties
    <2>3. taken \in Seq(PackageCell)
        <3> DEFINE lo == r.at + 2  hi == r.at + 1 + len
        <3> HIDE DEF len
        <3>1. lo \in Int /\ hi \in Int /\ \A y \in lo .. hi : y \in 1 .. Len(data)
            BY <2>2
        <3>2. \A y \in lo .. hi : data[y] \in PackageCell
            BY <3>1, ElementOfSeq
        <3> HIDE DEF lo, hi
        <3>3. SubSeq(data, lo, hi) \in Seq(PackageCell)
            BY <3>1, <3>2, SubSeqProperties
        <3> QED
            BY <3>3 DEF lo, hi, len
    <2>4. TakeFile(data, r) = [ok |-> TRUE, at |-> r.at + 2 + len,
                               files |-> Append(r.files, [name |-> data[r.at], data |-> taken])]
        BY <1>2 DEF TakeFile
    <2> HIDE DEF taken, len
    <2>5. [name |-> data[r.at], data |-> taken] \in PackageFiles
        BY <2>2, <2>3 DEF PackageFiles
    <2> DEFINE f == [name |-> data[r.at], data |-> taken]
    <2> HIDE DEF f
    <2>6. Append(r.files, f) \in Seq(PackageFiles) /\ r.at + 2 + len \in Nat
        BY <2>2, <2>5, AppendProperties DEF f
    <2> QED
        BY <2>4, <2>6 DEF DecodeResult, f
<1> QED
    BY <1>1, <1>2

LEMMA DecodeTyped ==
    ASSUME NEW data \in Seq(PackageCell), NEW magic
    PROVE  Decode(data, magic) \in DecodeResult
<1> DEFINE first == [ok |-> TRUE, at |-> 4, files |-> << >>]
           n == data[3]
           V == DecodeResult
           step == [i \in 1 .. n |-> [v \in V |-> TakeFile(data, v)]]
           Runs(f) == f = [i \in 0 .. n |-> IF i = 0 THEN first ELSE TakeFile(data, f[i - 1])]
           after == CHOOSE f : Runs(f)
<1>1. CASE Len(data) < 3 \/ data[1] # magic \/ data[2] # 1 \/ n \notin Nat
    BY <1>1 DEF Decode, DecodeResult
<1>2. CASE ~ (Len(data) < 3 \/ data[1] # magic \/ data[2] # 1 \/ n \notin Nat)
    <2>1. Decode(data, magic) = after[n] /\ n \in Nat
        BY <1>2 DEF Decode
    <2>2. first \in V
        <3>1. << >> \in Seq(PackageFiles)
            OBVIOUS
        <3> QED
            BY <3>1 DEF DecodeResult
    <2>3. \A v \in V : TakeFile(data, v) \in V
        BY TakeFileTyped
    <2> HIDE DEF V, first, n
    <2>4. step \in [1 .. n -> [V -> V]] /\ \A i \in 1 .. n, v \in V : step[i][v] = TakeFile(data, v)
        BY <2>3
    <2> HIDE DEF step
    <2>5. PICK f \in [0 .. n -> V] : f[0] = first /\ \A i \in 1 .. n : f[i] = step[i][f[i - 1]]
        <3>1. LoopRuns(n, V, first, step) # {}
            BY <2>1, <2>2, <2>4, LoopIsDefined
        <3> QED
            BY <3>1 DEF LoopRuns
    <2>6. \A i \in 1 .. n : f[i] = TakeFile(data, f[i - 1])
        <3>1. \A i \in 1 .. n : i - 1 \in 0 .. n
            BY <2>1
        <3> QED
            BY <2>4, <2>5, <3>1
    <2>7. Runs(f)
        <3> DEFINE h == [i \in 0 .. n |-> IF i = 0 THEN first ELSE TakeFile(data, f[i - 1])]
        <3>1. h[0] = first /\ \A i \in 1 .. n : h[i] = TakeFile(data, f[i - 1])
            BY <2>1
        <3>2. \A i \in 0 .. n : i = 0 \/ i \in 1 .. n
            BY <2>1
        <3>3. \A i \in 0 .. n : f[i] = h[i]
            <4> HIDE DEF h
            <4> QED
                BY <2>5, <2>6, <3>1, <3>2
        <3> QED
            BY <2>5, <3>3
    <2>8. Runs(after)
        <3> HIDE DEF Runs
        <3> QED
            BY <2>7
    <2>9. after[0] = first /\ \A i \in 1 .. n : after[i] = TakeFile(data, after[i - 1])
        <3>1. after = [i \in 0 .. n |-> IF i = 0 THEN first ELSE TakeFile(data, after[i - 1])]
            BY <2>8
        <3> HIDE DEF after
        <3> QED
            BY <2>1, <3>1
    <2> DEFINE Good == {i \in 0 .. n : after[i] \in V}
    <2> HIDE DEF after, Runs
    <2>10. 0 \in Good
        BY <2>1, <2>2, <2>9
    <2>11. ASSUME NEW i \in 0 .. n - 1, i \in Good PROVE i + 1 \in Good
        <3>1. i + 1 \in 1 .. n /\ i + 1 \in 0 .. n /\ (i + 1) - 1 = i /\ after[i] \in V
            BY <2>1, <2>11
        <3> QED
            BY <2>3, <2>9, <3>1
    <2> HIDE DEF Good
    <2>12. \A i \in 0 .. n - 1 : i \in Good => i + 1 \in Good
        BY <2>11
    <2>13. \A i \in 0 .. n : i \in Good
        BY <2>1, <2>10, <2>12, NumberInduction
    <2> QED
        BY <2>1, <2>13 DEF Good, V
<1> QED
    BY <1>1, <1>2

\* The cells of an installer, one by one.
LEMMA BlobCells ==
    ASSUME NEW b \in Installers
    PROVE  LET d == Blob(b)  s == Body(b.files)  n == Len(Body(b.files))
           IN  /\ n \in Nat /\ Len(b.files) \in Nat /\ d \in Seq(PackageCell)
               /\ b.kind = "exe" =>
                      /\ Len(d) = n + 7 /\ d[1] = Mz /\ d[2] = Junk /\ d[3] = Swup
                      /\ d[4] = 1 /\ d[5] = Len(b.files) /\ d[n + 6] = Swup /\ d[n + 7] = n + 5
                      /\ \A x \in 1 .. n : d[x + 5] = s[x]
               /\ b.kind = "msi" =>
                      /\ Len(d) = n + 6 /\ d[1] = Ole /\ d[2] = Swum /\ d[3] = 1
                      /\ d[4] = Len(b.files) /\ d[n + 5] = Swum /\ d[n + 6] = n + 5
                      /\ \A x \in 1 .. n : d[x + 4] = s[x]
<1> DEFINE s == Body(b.files)
           n == Len(s)
           k == Len(b.files)
           Cells == PackageCell
<1>1. b.files \in Seq(PackageFiles) /\ b.kind \in {"exe", "msi"}
    BY PackageAssumption DEF Installers
<1>2. k \in Nat
    BY <1>1
<1>3. s \in Seq(Cells)
    <2>1. k \in 0 .. k
        BY <1>2
    <2> QED
        BY <1>1, <2>1, UpToRun
<1> HIDE DEF s
<1>4. n \in Nat
    BY <1>3
<1> HIDE DEF n, k
<1>5. ASSUME NEW magic \in {Swup, Swum}
      PROVE  /\ Encode(magic, b.files) \in Seq(Cells) /\ Len(Encode(magic, b.files)) = n + 5
             /\ Encode(magic, b.files)[1] = magic /\ Encode(magic, b.files)[2] = 1
             /\ Encode(magic, b.files)[3] = k
             /\ Encode(magic, b.files)[n + 4] = magic /\ Encode(magic, b.files)[n + 5] = n + 5
             /\ \A x \in 1 .. n : Encode(magic, b.files)[x + 3] = s[x]
    <2> DEFINE head == <<magic, 1, k>>
               archive == head \o s
               tail == <<magic, n + 5>>
    <2>1. /\ head \in Seq(Cells) /\ Len(head) = 3
          /\ head[1] = magic /\ head[2] = 1 /\ head[3] = k
        BY <1>2 DEF PackageCell
    <2>2. /\ tail \in Seq(Cells) /\ Len(tail) = 2 /\ tail[1] = magic /\ tail[2] = n + 5
        BY <1>4 DEF PackageCell
    <2> HIDE DEF head, tail
    <2>3. /\ archive \in Seq(Cells) /\ Len(archive) = 3 + n
          /\ \A x \in 1 .. 3 + n : archive[x] = IF x <= 3 THEN head[x] ELSE s[x - 3]
        <3>1. /\ head \o s \in Seq(Cells) /\ Len(head \o s) = Len(head) + Len(s)
              /\ \A x \in 1 .. Len(head) + Len(s) :
                     (head \o s)[x] = IF x <= Len(head) THEN head[x] ELSE s[x - Len(head)]
            BY <1>3, <2>1, ConcatProperties
        <3> QED
            BY <2>1, <3>1 DEF n
    <2>4. Encode(magic, b.files) = archive \o tail
        <3>1. Len(archive) + 2 = n + 5
            BY <1>4, <2>3
        <3> QED
            BY <3>1 DEF Encode, head, tail, s, k
    <2> HIDE DEF archive
    <2>5. /\ archive \o tail \in Seq(Cells) /\ Len(archive \o tail) = 3 + n + 2
          /\ \A x \in 1 .. 3 + n + 2 :
                 (archive \o tail)[x] = IF x <= 3 + n THEN archive[x] ELSE tail[x - (3 + n)]
        <3>1. /\ archive \o tail \in Seq(Cells)
              /\ Len(archive \o tail) = Len(archive) + Len(tail)
              /\ \A x \in 1 .. Len(archive) + Len(tail) : (archive \o tail)[x] =
                     IF x <= Len(archive) THEN archive[x] ELSE tail[x - Len(archive)]
            BY <2>2, <2>3, ConcatProperties
        <3> QED
            BY <2>2, <2>3, <3>1
    <2> DEFINE e == archive \o tail
    <2> HIDE DEF e
    <2>6. /\ e \in Seq(Cells) /\ Len(e) = n + 5 /\ \A x \in 1 .. 3 + n : e[x] = archive[x]
          /\ e[n + 4] = tail[1] /\ e[n + 5] = tail[2]
        <3>1. /\ e \in Seq(Cells) /\ Len(e) = 3 + n + 2
              /\ \A x \in 1 .. 3 + n + 2 :
                     e[x] = IF x <= 3 + n THEN archive[x] ELSE tail[x - (3 + n)]
            BY <2>5 DEF e
        <3>2. /\ 3 + n + 2 = n + 5 /\ n + 4 \in 1 .. 3 + n + 2 /\ n + 5 \in 1 .. 3 + n + 2
              /\ ~ (n + 4 <= 3 + n) /\ ~ (n + 5 <= 3 + n)
              /\ (n + 4) - (3 + n) = 1 /\ (n + 5) - (3 + n) = 2
              /\ \A x \in 1 .. 3 + n : x \in 1 .. 3 + n + 2 /\ x <= 3 + n
            BY <1>4
        <3>3. e[n + 4] = tail[1] /\ e[n + 5] = tail[2]
            BY <3>1, <3>2
        <3> QED
            BY <3>1, <3>2, <3>3
    <2>7. /\ e[1] = head[1] /\ e[2] = head[2] /\ e[3] = head[3]
          /\ \A x \in 1 .. n : e[x + 3] = s[x]
        <3>1. /\ 1 \in 1 .. 3 + n /\ 2 \in 1 .. 3 + n /\ 3 \in 1 .. 3 + n
              /\ \A x \in 1 .. n : x + 3 \in 1 .. 3 + n /\ ~ (x + 3 <= 3) /\ (x + 3) - 3 = x
            BY <1>4
        <3>2. \A x \in 1 .. 3 + n : e[x] = IF x <= 3 THEN head[x] ELSE s[x - 3]
            BY <2>3, <2>6
        <3>3. e[1] = head[1] /\ e[2] = head[2] /\ e[3] = head[3]
            BY <3>1, <3>2
        <3>4. ASSUME NEW x \in 1 .. n PROVE e[x + 3] = s[x]
            BY <3>1, <3>2
        <3> QED
            BY <3>3, <3>4
    <2> QED
        BY <2>1, <2>2, <2>4, <2>6, <2>7 DEF e
<1>6. CASE b.kind = "exe"
    <2> DEFINE e == Encode(Swup, b.files)
               stub == <<Mz, Junk>>
    <2>1. /\ e \in Seq(Cells) /\ Len(e) = n + 5 /\ e[1] = Swup /\ e[2] = 1 /\ e[3] = k
          /\ e[n + 4] = Swup /\ e[n + 5] = n + 5 /\ \A x \in 1 .. n : e[x + 3] = s[x]
        BY <1>5
    <2>2. stub \in Seq(Cells) /\ Len(stub) = 2 /\ stub[1] = Mz /\ stub[2] = Junk
        BY DEF PackageCell
    <2>3. Blob(b) = stub \o e
        BY <1>6 DEF Blob
    <2> HIDE DEF e, stub
    <2>4. /\ Blob(b) \in Seq(Cells) /\ Len(Blob(b)) = 2 + (n + 5)
          /\ \A x \in 1 .. 2 + (n + 5) : Blob(b)[x] = IF x <= 2 THEN stub[x] ELSE e[x - 2]
        <3>1. /\ stub \o e \in Seq(Cells) /\ Len(stub \o e) = Len(stub) + Len(e)
              /\ \A x \in 1 .. Len(stub) + Len(e) :
                     (stub \o e)[x] = IF x <= Len(stub) THEN stub[x] ELSE e[x - Len(stub)]
            BY <2>1, <2>2, ConcatProperties
        <3> QED
            BY <2>1, <2>2, <2>3, <3>1
    <2>5. /\ Len(Blob(b)) = n + 7 /\ Blob(b)[1] = stub[1] /\ Blob(b)[2] = stub[2]
          /\ \A x \in 1 .. n + 5 : Blob(b)[x + 2] = e[x]
        BY <1>4, <2>4
    <2>6. /\ Blob(b)[1 + 2] = e[1] /\ Blob(b)[2 + 2] = e[2] /\ Blob(b)[3 + 2] = e[3]
          /\ Blob(b)[(n + 4) + 2] = e[n + 4] /\ Blob(b)[(n + 5) + 2] = e[n + 5]
          /\ \A x \in 1 .. n : Blob(b)[(x + 3) + 2] = e[x + 3]
        BY <1>4, <2>5
    <2>7. (n + 4) + 2 = n + 6 /\ (n + 5) + 2 = n + 7 /\ \A x \in 1 .. n : (x + 3) + 2 = x + 5
        BY <1>4
    <2>8. \A x \in 1 .. n : Blob(b)[x + 5] = s[x]
        BY <2>1, <2>6, <2>7
    <2> QED
        BY <1>2, <1>4, <1>6, <2>1, <2>2, <2>4, <2>5, <2>6, <2>7, <2>8 DEF n, s, k
<1>7. CASE b.kind = "msi"
    <2> DEFINE e == Encode(Swum, b.files)
               ole == <<Ole>>
    <2>1. /\ e \in Seq(Cells) /\ Len(e) = n + 5 /\ e[1] = Swum /\ e[2] = 1 /\ e[3] = k
          /\ e[n + 4] = Swum /\ e[n + 5] = n + 5 /\ \A x \in 1 .. n : e[x + 3] = s[x]
        BY <1>5
    <2>2. ole \in Seq(Cells) /\ Len(ole) = 1 /\ ole[1] = Ole
        BY DEF PackageCell
    <2>3. Blob(b) = ole \o e
        BY <1>7 DEF Blob
    <2> HIDE DEF e, ole
    <2>4. /\ Blob(b) \in Seq(Cells) /\ Len(Blob(b)) = 1 + (n + 5)
          /\ \A x \in 1 .. 1 + (n + 5) : Blob(b)[x] = IF x <= 1 THEN ole[x] ELSE e[x - 1]
        <3>1. /\ ole \o e \in Seq(Cells) /\ Len(ole \o e) = Len(ole) + Len(e)
              /\ \A x \in 1 .. Len(ole) + Len(e) :
                     (ole \o e)[x] = IF x <= Len(ole) THEN ole[x] ELSE e[x - Len(ole)]
            BY <2>1, <2>2, ConcatProperties
        <3> QED
            BY <2>1, <2>2, <2>3, <3>1
    <2>5. /\ Len(Blob(b)) = n + 6 /\ Blob(b)[1] = ole[1]
          /\ \A x \in 1 .. n + 5 : Blob(b)[x + 1] = e[x]
        BY <1>4, <2>4
    <2>6. /\ Blob(b)[1 + 1] = e[1] /\ Blob(b)[2 + 1] = e[2] /\ Blob(b)[3 + 1] = e[3]
          /\ Blob(b)[(n + 4) + 1] = e[n + 4] /\ Blob(b)[(n + 5) + 1] = e[n + 5]
          /\ \A x \in 1 .. n : Blob(b)[(x + 3) + 1] = e[x + 3]
        BY <1>4, <2>5
    <2>7. (n + 4) + 1 = n + 5 /\ (n + 5) + 1 = n + 6 /\ \A x \in 1 .. n : (x + 3) + 1 = x + 4
        BY <1>4
    <2>8. \A x \in 1 .. n : Blob(b)[x + 4] = s[x]
        BY <2>1, <2>6, <2>7
    <2> QED
        BY <1>2, <1>4, <1>7, <2>1, <2>2, <2>4, <2>5, <2>6, <2>7, <2>8 DEF n, s, k
<1> QED
    BY <1>1, <1>6, <1>7

\* The body of a package, and its names.
LEMMA BodyIs ==
    ASSUME NEW p \in Seq(PackageFiles)
    PROVE  /\ Body(p) \in Seq(PackageCell)
           /\ Body(p) = UpTo(p)[Len(p)] /\ SubSeq(p, 1, Len(p)) = p
<1>1. Len(p) \in 0 .. Len(p)
    OBVIOUS
<1>2. Body(p) \in Seq(PackageCell) /\ Body(p) = UpTo(p)[Len(p)]
    BY <1>1, UpToRun
<1>3. SubSeq(p, 1, Len(p)) = p
    OBVIOUS
<1> QED
    BY <1>2, <1>3

\* What comes of an archive of which all files, and perhaps not the footer, are there.
LEMMA DecodedWhole ==
    ASSUME NEW p \in Seq(PackageFiles), NEW m \in Nat
    PROVE  /\ \/ DecodedUpTo(p, m, Len(p)) = Refused
              \/ DecodedUpTo(p, m, Len(p)).ok /\ DecodedUpTo(p, m, Len(p)).files = p
           /\ m >= 3 + Len(Body(p)) /\ (\A i \in 1 .. Len(p) : p[i].name # BadName) =>
                  DecodedUpTo(p, m, Len(p)).ok /\ DecodedUpTo(p, m, Len(p)).files = p
<1>1. Body(p) \in Seq(PackageCell) /\ Body(p) = UpTo(p)[Len(p)] /\ SubSeq(p, 1, Len(p)) = p
    BY BodyIs
<1>2. Len(Body(p)) \in Nat
    BY <1>1, LenProperties
<1>3. CASE ~ ((\A k \in 1 .. Len(p) : p[k].name # BadName) /\ 3 + Len(Body(p)) <= m)
    <2>1. DecodedUpTo(p, m, Len(p)) = Refused
        BY <1>1, <1>3 DEF DecodedUpTo
    <2> QED
        BY <1>2, <1>3, <2>1
<1>4. CASE (\A k \in 1 .. Len(p) : p[k].name # BadName) /\ 3 + Len(Body(p)) <= m
    <2>1. DecodedUpTo(p, m, Len(p)) = [ok |-> TRUE, at |-> 4 + Len(Body(p)), files |-> p]
        BY <1>1, <1>4 DEF DecodedUpTo
    <2> QED
        BY <2>1
<1> QED
    BY <1>3, <1>4

\* A program that was downloaded to the end is found by its trailer.
LEMMA ParseWholeExe ==
    ASSUME NEW b \in Installers, b.kind = "exe"
    PROVE  LET r == ParsePackage(Blob(b))
           IN  /\ r = Refused \/ (r.ok /\ r.files = b.files)
               /\ (\A i \in 1 .. Len(b.files) : b.files[i].name # BadName) =>
                      r.ok /\ r.files = b.files
<1> DEFINE d == Blob(b)
           p == b.files
           n == Len(Body(p))
           e == SubSeq(d, 3, Len(d))
<1>1. p \in Seq(PackageFiles)
    BY PackageAssumption DEF Installers
<1>2. /\ n \in Nat /\ Len(d) = n + 7 /\ d[1] = Mz /\ d[3] = Swup /\ d[4] = 1
      /\ d[5] = Len(p) /\ d[n + 6] = Swup /\ d[n + 7] = n + 5
      /\ \A x \in 1 .. n : d[x + 5] = Body(p)[x]
    BY BlobCells
<1> HIDE DEF d, p, n
<1>3. Trailer(d) = {3}
    <2>1. /\ d[Len(d)] = n + 5 /\ Len(d) - (n + 5) + 1 = 3 /\ Len(d) >= 2
          /\ n + 5 \in 3 .. Len(d) /\ d[Len(d) - 1] = Swup
        BY <1>2
    <2> QED
        BY <1>2, <2>1 DEF Trailer
<1>4. d # << >>
    BY <1>2
<1>5. ParsePackage(d) = Decode(e, Swup)
    <2>1. (CHOOSE s \in Trailer(d) : TRUE) = 3
        BY <1>3
    <2> QED
        BY <1>3, <1>4, <2>1 DEF ParsePackage
<1>6. /\ Len(e) = n + 5 /\ \A x \in 1 .. n + 5 : e[x] = d[x + 2]
    <2>1. 3 \in Int /\ Len(d) \in Int /\ Len(d) = n + 7 /\ n \in Nat
        BY <1>2
    <2>2. /\ Len(e) = (IF 3 <= Len(d) THEN Len(d) - 3 + 1 ELSE 0)
          /\ \A x \in 1 .. Len(d) - 3 + 1 : e[x] = d[3 + x - 1]
        BY <2>1
    <2> QED
        BY <2>1, <2>2
<1> HIDE DEF e
<1>7. e[1] = Swup /\ e[2] = 1 /\ e[3] = Len(p) /\ \A x \in 1 .. n : e[3 + x] = Body(p)[x]
    <2>1. /\ 1 \in 1 .. n + 5 /\ 2 \in 1 .. n + 5 /\ 3 \in 1 .. n + 5
          /\ \A x \in 1 .. n : 3 + x \in 1 .. n + 5 /\ (3 + x) + 2 = x + 5
        BY <1>2
    <2>2. e[1] = d[3] /\ e[2] = d[4] /\ e[3] = d[5]
        BY <1>6, <2>1
    <2>3. \A x \in 1 .. n : e[3 + x] = d[x + 5]
        BY <1>6, <2>1
    <2> QED
        BY <1>2, <2>2, <2>3
<1>8. Starts(e, p)
    BY <1>2, <1>6, <1>7 DEF Starts, n
<1>9. Decode(e, Swup) = DecodedUpTo(p, n + 5, Len(p))
    BY <1>1, <1>6, <1>7, <1>8, DecodeIs
<1>10. n + 5 \in Nat /\ n + 5 >= 3 + n
    BY <1>2
<1>11. /\ \/ DecodedUpTo(p, n + 5, Len(p)) = Refused
          \/ DecodedUpTo(p, n + 5, Len(p)).ok /\ DecodedUpTo(p, n + 5, Len(p)).files = p
       /\ (\A i \in 1 .. Len(p) : p[i].name # BadName) =>
              DecodedUpTo(p, n + 5, Len(p)).ok /\ DecodedUpTo(p, n + 5, Len(p)).files = p
    BY <1>1, <1>10, DecodedWhole DEF n
<1> QED
    BY <1>5, <1>9, <1>11 DEF d, p

\* What was downloaded of an installer.
LEMMA CutIs ==
    ASSUME NEW b \in Installers, NEW m \in 0 .. Len(Blob(b))
    PROVE  LET e == SubSeq(Blob(b), 1, m)
           IN  /\ e \in Seq(PackageCell) /\ Len(e) = m /\ \A x \in 1 .. m : e[x] = Blob(b)[x]
               /\ m = Len(Blob(b)) => e = Blob(b)
<1> DEFINE d == Blob(b)
<1>1. d \in Seq(PackageCell) /\ Len(d) \in Nat
    <2>1. b.kind \in {"exe", "msi"}
        BY DEF Installers
    <2> QED
        BY <2>1, BlobCells, LenProperties
<1> HIDE DEF d
<1>2. 1 \in Int /\ m \in Int /\ \A x \in 1 .. m : x \in 1 .. Len(d)
    BY <1>1 DEF d
<1>3. \A x \in 1 .. m : d[x] \in PackageCell
    BY <1>1, <1>2, ElementOfSeq
<1>4. /\ SubSeq(d, 1, m) \in Seq(PackageCell)
      /\ Len(SubSeq(d, 1, m)) = IF 1 <= m THEN m - 1 + 1 ELSE 0
      /\ \A x \in 1 .. m - 1 + 1 : SubSeq(d, 1, m)[x] = d[1 + x - 1]
    BY <1>2, <1>3, SubSeqProperties
<1>5. m \in Nat /\ m - 1 + 1 = m /\ \A x \in 1 .. m : 1 + x - 1 = x
    BY <1>1 DEF d
<1>6. Len(SubSeq(d, 1, m)) = m /\ \A x \in 1 .. m : SubSeq(d, 1, m)[x] = d[x]
    BY <1>4, <1>5
<1>7. m = Len(d) => SubSeq(d, 1, m) = d
    BY <1>1, SubSeqFull
<1> QED
    BY <1>4, <1>6, <1>7 DEF d

\* A file of the package holds the magic number of an archive.
Inside(pack) ==
    \E i \in 1 .. Len(pack) : \E x \in 1 .. Len(pack[i].data) : pack[i].data[x] = Swup

\* A cut one has no trailer, unless a file of it has one.
LEMMA CutExeTrailer ==
    ASSUME NEW b \in Installers, b.kind = "exe", NEW m \in 0 .. Len(Blob(b)) - 1,
           ~ Inside(b.files)
    PROVE  Trailer(SubSeq(Blob(b), 1, m)) = {}
<1> DEFINE d == Blob(b)
           p == b.files
           n == Len(Body(p))
           e == SubSeq(d, 1, m)
<1>1. p \in Seq(PackageFiles)
    BY PackageAssumption DEF Installers
<1>2. /\ n \in Nat /\ Len(p) \in Nat /\ Len(d) = n + 7 /\ d[1] = Mz /\ d[2] = Junk /\ d[3] = Swup
      /\ d[4] = 1 /\ d[5] = Len(p)
      /\ \A x \in 1 .. n : d[x + 5] = Body(p)[x]
    BY BlobCells
<1>3. \A x \in 1 .. n : Body(p)[x] # Swup
    BY <1>1, PlainBody DEF Inside
<1>5. m \in 0 .. n + 6 /\ m \in 0 .. Len(Blob(b))
    BY <1>2
<1>4. Len(e) = m /\ \A x \in 1 .. m : e[x] = d[x]
    BY <1>5, CutIs
<1> HIDE DEF d, p, n, e
<1>6. \A x \in 1 .. n + 5 : x # 3 => d[x] # Swup
    <2>1. ASSUME NEW x \in 6 .. n + 5 PROVE d[x] # Swup
        <3>1. x - 5 \in 1 .. n /\ (x - 5) + 5 = x
            BY <1>2
        <3> QED
            BY <1>2, <1>3, <3>1
    <2>2. Mz # Swup /\ Junk # Swup /\ 1 # Swup /\ Len(p) # Swup
        BY <1>2, PackageAssumption
    <2>3. d[1] # Swup /\ d[2] # Swup /\ d[4] # Swup /\ d[5] # Swup
        BY <1>2, <2>2
    <2>4. \A x \in 1 .. n + 5 : x \in {1, 2, 3, 4, 5} \/ x \in 6 .. n + 5
        BY <1>2
    <2> QED
        BY <2>1, <2>3, <2>4
<1>7. Trailer(e) = {}
    <2>1. SUFFICES ASSUME m >= 2, e[m] \in 3 .. m, e[m - 1] = Swup PROVE FALSE
        BY <1>4 DEF Trailer
    <2>2. m - 1 \in 1 .. m /\ m - 1 \in 1 .. n + 5 /\ m \in 1 .. m
        BY <1>2, <1>5, <2>1
    <2>3. e[m - 1] = d[m - 1] /\ e[m] = d[m]
        BY <1>4, <2>2
    <2>4. m - 1 = 3
        BY <1>6, <2>1, <2>2, <2>3
    <2>5. m = 4
        BY <1>5, <2>4
    <2>6. e[m] = 1
        BY <1>2, <2>3, <2>5
    <2> QED
        BY <2>1, <2>6
<1> QED
    BY <1>7 DEF e, d

\* It does not begin like an archive.
LEMMA ParseCutExe ==
    ASSUME NEW b \in Installers, b.kind = "exe", NEW m \in 0 .. Len(Blob(b)) - 1,
           Trailer(SubSeq(Blob(b), 1, m)) = {}
    PROVE  ParsePackage(SubSeq(Blob(b), 1, m)) = Refused
<1> DEFINE d == Blob(b)
           p == b.files
           n == Len(Body(p))
           e == SubSeq(d, 1, m)
<1>1. p \in Seq(PackageFiles)
    BY PackageAssumption DEF Installers
<1>2. /\ n \in Nat /\ Len(p) \in Nat /\ Len(d) = n + 7 /\ d[1] = Mz /\ d[2] = Junk /\ d[3] = Swup
      /\ d[4] = 1 /\ d[5] = Len(p)
      /\ \A x \in 1 .. n : d[x + 5] = Body(p)[x]
    BY BlobCells
<1>5. m \in 0 .. n + 6 /\ m \in 0 .. Len(Blob(b))
    BY <1>2
<1>4. Len(e) = m /\ \A x \in 1 .. m : e[x] = d[x]
    BY <1>5, CutIs
<1>7. Trailer(e) = {}
    OBVIOUS
<1> HIDE DEF d, p, n, e
<1>8. e # << >> => e[1] = Mz
    <2>1. e # << >> => m # 0
        <3>1. e = SubSeq(d, 1, m) /\ SubSeq(d, 1, 0) = << >>
            BY SubSeqEmpty DEF e
        <3> QED
            BY <3>1
    <2>2. m # 0 => 1 \in 1 .. m
        BY <1>5
    <2> QED
        BY <1>2, <1>4, <2>1, <2>2
<1>9. ParsePackage(e) = Decode(e, Swum)
    BY <1>7, <1>8, PackageAssumption DEF ParsePackage
<1>10. Len(e) < 3 \/ e[1] # Swum
    <2>1. e # << >> => e[1] # Swum
        BY <1>8, PackageAssumption
    <2>2. e = << >> => Len(e) < 3
        OBVIOUS
    <2> QED
        BY <2>1, <2>2
<1>11. Decode(e, Swum) = Refused
    BY <1>10 DEF Decode
<1> QED
    BY <1>9, <1>11 DEF e, d

\* Nor has a compound file, whose own archive is of the other kind.
LEMMA MsiTrailer ==
    ASSUME NEW b \in Installers, b.kind = "msi", NEW m \in 0 .. Len(Blob(b)),
           m = Len(Blob(b)) \/ ~ Inside(b.files)
    PROVE  Trailer(SubSeq(Blob(b), 1, m)) = {}
<1> DEFINE d == Blob(b)
           p == b.files
           n == Len(Body(p))
           e == SubSeq(d, 1, m)
<1>1. p \in Seq(PackageFiles)
    BY PackageAssumption DEF Installers
<1>2. /\ n \in Nat /\ Len(p) \in Nat /\ Len(d) = n + 6 /\ d[1] = Ole /\ d[2] = Swum
      /\ d[3] = 1 /\ d[4] = Len(p) /\ d[n + 5] = Swum
      /\ \A x \in 1 .. n : d[x + 4] = Body(p)[x]
    BY BlobCells
<1>3. ~ Inside(p) => \A x \in 1 .. n : Body(p)[x] # Swup
    BY <1>1, PlainBody DEF Inside
<1>4. Len(e) = m /\ (\A x \in 1 .. m : e[x] = d[x])
    BY CutIs
<1>5. m \in 0 .. n + 6 /\ (m = n + 6 \/ ~ Inside(p))
    BY <1>2
<1> HIDE DEF d, p, n, e
<1>6. Ole # Swup /\ Swum # Swup /\ 1 # Swup /\ Len(p) # Swup
    BY <1>2, PackageAssumption
<1>7. ~ Inside(p) => \A x \in 1 .. n + 5 : d[x] # Swup
    <2> SUFFICES ASSUME ~ Inside(p) PROVE \A x \in 1 .. n + 5 : d[x] # Swup
        OBVIOUS
    <2>1. ASSUME NEW x \in 5 .. n + 4 PROVE d[x] # Swup
        <3>1. x - 4 \in 1 .. n /\ (x - 4) + 4 = x
            BY <1>2
        <3> QED
            BY <1>2, <1>3, <3>1
    <2>3. d[1] # Swup /\ d[2] # Swup /\ d[3] # Swup /\ d[4] # Swup /\ d[n + 5] # Swup
        BY <1>2, <1>6
    <2>4. \A x \in 1 .. n + 5 : x \in {1, 2, 3, 4, n + 5} \/ x \in 5 .. n + 4
        BY <1>2
    <2> QED
        BY <2>1, <2>3, <2>4
<1>8. Trailer(e) = {}
    <2>1. SUFFICES ASSUME m >= 2, e[m - 1] = Swup PROVE FALSE
        BY <1>4 DEF Trailer
    <2>2. m - 1 \in 1 .. m /\ m - 1 \in 1 .. n + 5
        BY <1>2, <1>5, <2>1
    <2>3. d[m - 1] = Swup
        BY <1>4, <2>1, <2>2
    <2>4. m = n + 6 => m - 1 = n + 5
        BY <1>2
    <2> QED
        BY <1>2, <1>5, <1>6, <1>7, <2>2, <2>3, <2>4
<1> QED
    BY <1>8 DEF e, d

\* A compound file: its archive is refused, or all its files are there.
LEMMA ParseMsi ==
    ASSUME NEW b \in Installers, b.kind = "msi", NEW m \in 0 .. Len(Blob(b)),
           Trailer(SubSeq(Blob(b), 1, m)) = {}
    PROVE  LET r == ParsePackage(SubSeq(Blob(b), 1, m))
           IN  /\ r = Refused \/ (r.ok /\ r.files = b.files)
               /\ m = Len(Blob(b)) /\ (\A i \in 1 .. Len(b.files) : b.files[i].name # BadName) =>
                      r.ok /\ r.files = b.files
<1> DEFINE d == Blob(b)
           p == b.files
           n == Len(Body(p))
           e == SubSeq(d, 1, m)
           t == Tail(e)
<1>1. p \in Seq(PackageFiles)
    BY PackageAssumption DEF Installers
<1>2. /\ n \in Nat /\ Len(p) \in Nat /\ Len(d) = n + 6 /\ d[1] = Ole /\ d[2] = Swum
      /\ d[3] = 1 /\ d[4] = Len(p) /\ d[n + 5] = Swum
      /\ \A x \in 1 .. n : d[x + 4] = Body(p)[x]
    BY BlobCells
<1>4. e = [x \in 1 .. m |-> d[x]] /\ Len(e) = m /\ (\A x \in 1 .. m : e[x] = d[x])
    <2>1. 1 \in Int /\ m \in Int /\ m <= Len(d) /\ 0 <= m /\ Len(d) \in Nat
        BY <1>2
    <2>2. /\ Len(e) = (IF 1 <= m THEN m - 1 + 1 ELSE 0)
          /\ \A x \in 1 .. m - 1 + 1 : e[x] = d[1 + x - 1]
        BY <2>1
    <2>3. e = [x \in 1 .. m |-> d[x]]
        BY <2>1
    <2> HIDE DEF e
    <2> QED
        BY <2>1, <2>2, <2>3
<1>5. m \in 0 .. n + 6
    BY <1>2
<1>6. m >= 1 => Len(t) = m - 1 /\ \A x \in 1 .. m - 1 : t[x] = d[x + 1]
    <2> SUFFICES ASSUME m >= 1 PROVE Len(t) = m - 1 /\ \A x \in 1 .. m - 1 : t[x] = d[x + 1]
        OBVIOUS
    <2> DEFINE S == {d[x] : x \in 1 .. m}
    <2>1. e \in Seq(S) /\ e # << >>
        <3>1. m \in Nat
            BY <1>2
        <3>2. Len(<< >>) = 0
            OBVIOUS
        <3> HIDE DEF e, d
        <3>3. \A x \in 1 .. m : d[x] \in S
            OBVIOUS
        <3> HIDE DEF S
        <3>4. [x \in 1 .. m |-> d[x]] \in Seq(S)
            BY <3>1, <3>3, IsASeq
        <3> QED
            BY <1>4, <3>2, <3>4
    <2> HIDE DEF S, e
    <2>2. Len(t) = Len(e) - 1 /\ \A x \in 1 .. Len(e) - 1 : t[x] = e[x + 1]
        BY <2>1, HeadTailProperties
    <2>3. \A x \in 1 .. m - 1 : x + 1 \in 1 .. m
        BY <1>5
    <2> QED
        BY <1>4, <2>2, <2>3
<1>8. Trailer(e) = {}
    OBVIOUS
<1> HIDE DEF d, p, n, e, t
<1>9. CASE m < 4
    <2> DEFINE body == IF e # << >> /\ e[1] = Ole THEN t ELSE e
    <2>1. ParsePackage(e) = Decode(body, Swum)
        BY <1>8 DEF ParsePackage, t
    <2>2. Len(body) < 3
        <3>1. e = << >> => body = << >>
            OBVIOUS
        <3>2. e # << >> => m >= 1
            <4>1. e # << >> => m # 0
                <5>1. e = SubSeq(d, 1, m) /\ SubSeq(d, 1, 0) = << >>
                    BY SubSeqEmpty DEF e
                <5> QED
                    BY <5>1
            <4> QED
                BY <1>5, <4>1
        <3>3. m >= 1 => 1 \in 1 .. m
            BY <1>5
        <3>4. e # << >> => e[1] = Ole
            BY <1>2, <1>4, <3>2, <3>3
        <3>5. e # << >> => Len(body) = m - 1
            BY <1>6, <3>2, <3>4
        <3>6. Len(<< >>) = 0
            OBVIOUS
        <3> QED
            BY <1>5, <1>9, <3>1, <3>5, <3>6
    <2>3. Decode(body, Swum) = Refused
        BY <2>2 DEF Decode
    <2>4. m # Len(d)
        BY <1>2, <1>9
    <2> QED
        BY <2>1, <2>3, <2>4 DEF d, e
<1>10. CASE m >= 4
    <2>1. /\ 1 \in 1 .. m /\ 1 \in 1 .. m - 1 /\ 2 \in 1 .. m - 1 /\ 3 \in 1 .. m - 1
          /\ m - 1 \in Nat /\ m - 1 >= 3 /\ m >= 1
        BY <1>5, <1>10
    <2>2. e # << >> /\ e[1] = Ole
        <3>1. Len(<< >>) = 0
            OBVIOUS
        <3> QED
            BY <1>2, <1>4, <1>10, <2>1, <3>1
    <2>3. ParsePackage(e) = Decode(t, Swum)
        BY <1>8, <2>2 DEF ParsePackage, t
    <2>4. t[1] = Swum /\ t[2] = 1 /\ t[3] = Len(p)
        BY <1>2, <1>6, <2>1
    <2>5. \A x \in 1 .. n : 3 + x <= m - 1 => t[3 + x] = Body(p)[x]
        <3>1. \A x \in 1 .. n : 3 + x <= m - 1 => 3 + x \in 1 .. m - 1 /\ (3 + x) + 1 = x + 4
            BY <1>2, <2>1
        <3> QED
            BY <1>2, <1>6, <2>1, <3>1
    <2>6. Starts(t, p)
        BY <1>6, <2>1, <2>4, <2>5 DEF Starts, n
    <2>7. Decode(t, Swum) = DecodedUpTo(p, m - 1, Len(p))
        BY <1>1, <1>6, <2>1, <2>4, <2>6, DecodeIs
    <2>8. /\ \/ DecodedUpTo(p, m - 1, Len(p)) = Refused
             \/ DecodedUpTo(p, m - 1, Len(p)).ok /\ DecodedUpTo(p, m - 1, Len(p)).files = p
          /\ m - 1 >= 3 + n /\ (\A i \in 1 .. Len(p) : p[i].name # BadName) =>
                 DecodedUpTo(p, m - 1, Len(p)).ok /\ DecodedUpTo(p, m - 1, Len(p)).files = p
        BY <1>1, <2>1, DecodedWhole DEF n
    <2>9. m = Len(d) => m - 1 >= 3 + n
        BY <1>2
    <2> QED
        BY <2>3, <2>7, <2>8, <2>9 DEF d, e, p
<1> QED
    BY <1>5, <1>9, <1>10

\* How long an installer is.
LEMMA BlobLength == \A b \in Installers : Len(Blob(b)) \in Nat
<1> SUFFICES ASSUME NEW b \in Installers PROVE Len(Blob(b)) \in Nat
    OBVIOUS
<1>1. b.kind \in {"exe", "msi"}
    BY DEF Installers
<1>2. Len(Body(b.files)) \in Nat
    BY BlobCells
<1>3. \/ Len(Blob(b)) = Len(Body(b.files)) + 7
      \/ Len(Blob(b)) = Len(Body(b.files)) + 6
    BY <1>1, BlobCells
<1> QED
    BY <1>2, <1>3

\* parse_native_package on what was downloaded of an installer: the files that
\* were packed, or a refusal, and no refusal of a good package that is all there;
\* only if it is cut and has an archive inside may other files come out.
LEMMA ParseIs ==
    ASSUME NEW b \in Installers, NEW m \in 0 .. Len(Blob(b))
    PROVE  LET r == ParsePackage(SubSeq(Blob(b), 1, m))
           IN  /\ r \in DecodeResult
               /\ r.ok => r.files = b.files \/ (m # Len(Blob(b)) /\ Inside(b.files))
               /\ m = Len(Blob(b)) /\ (\A i \in 1 .. Len(b.files) : b.files[i].name # BadName) =>
                      r.ok /\ r.files = b.files
<1> DEFINE e == SubSeq(Blob(b), 1, m)
           r == ParsePackage(e)
<1>1. b.kind \in {"exe", "msi"} /\ Len(Blob(b)) \in Nat
    BY BlobLength DEF Installers
<1>2. /\ e \in Seq(PackageCell) /\ Len(e) = m /\ Len(e) \in Nat
      /\ m = Len(Blob(b)) => e = Blob(b)
    BY CutIs
<1>3. r \in DecodeResult
    <2> HIDE DEF e
    <2> DEFINE at == CHOOSE x \in Trailer(e) : TRUE
               inner == SubSeq(e, at, Len(e))
               body == IF e # << >> /\ e[1] = Ole THEN Tail(e) ELSE e
    <2>1. CASE e # << >> /\ Trailer(e) # {}
        <3>1. Trailer(e) \subseteq 1 .. Len(e)
            <4>1. \A len \in 3 .. Len(e) : Len(e) - len + 1 \in 1 .. Len(e)
                BY <1>2
            <4> QED
                BY <4>1 DEF Trailer
        <3>2. at \in 1 .. Len(e)
            BY <2>1, <3>1
        <3> HIDE DEF at
        <3>3. \A x \in at .. Len(e) : x \in 1 .. Len(e)
            BY <1>2, <3>2
        <3>4. \A x \in at .. Len(e) : e[x] \in PackageCell
            BY <1>2, <3>3, ElementOfSeq
        <3>5. inner \in Seq(PackageCell)
            BY <1>2, <3>2, <3>4, SubSeqProperties
        <3>6. r = Decode(inner, Swup)
            BY <2>1 DEF ParsePackage, at
        <3> HIDE DEF inner, r
        <3> QED
            BY <3>5, <3>6, DecodeTyped
    <2>2. CASE ~ (e # << >> /\ Trailer(e) # {})
        <3>1. body \in Seq(PackageCell)
            BY <1>2, HeadTailProperties
        <3>2. r = Decode(body, Swum)
            BY <2>2 DEF ParsePackage
        <3> HIDE DEF body, r
        <3> QED
            BY <3>1, <3>2, DecodeTyped
    <2> QED
        BY <2>1, <2>2
<1>4. ~ Refused.ok
    BY DEF Refused
<1>5. CASE m # Len(Blob(b)) /\ Inside(b.files)
    BY <1>3, <1>5
<1>6. CASE b.kind = "msi" /\ ~ (m # Len(Blob(b)) /\ Inside(b.files))
    <2>1. Trailer(e) = {}
        BY <1>6, MsiTrailer
    <2>2. /\ r = Refused \/ (r.ok /\ r.files = b.files)
          /\ m = Len(Blob(b)) /\ (\A i \in 1 .. Len(b.files) : b.files[i].name # BadName) =>
                 r.ok /\ r.files = b.files
        BY <1>6, <2>1, ParseMsi
    <2> HIDE DEF r
    <2>3. r.ok => r.files = b.files
        BY <1>4, <2>2
    <2> QED
        BY <1>3, <2>2, <2>3 DEF r
<1>7. CASE b.kind = "exe" /\ m # Len(Blob(b)) /\ ~ Inside(b.files)
    <2>1. m \in 0 .. Len(Blob(b)) - 1
        BY <1>1, <1>7
    <2>2. Trailer(e) = {}
        BY <1>7, <2>1, CutExeTrailer
    <2>3. r = Refused
        BY <1>7, <2>1, <2>2, ParseCutExe
    <2> HIDE DEF r
    <2> QED
        BY <1>3, <1>4, <1>7, <2>3 DEF r
<1>8. CASE b.kind = "exe" /\ m = Len(Blob(b))
    <2>1. /\ r = Refused \/ (r.ok /\ r.files = b.files)
          /\ (\A i \in 1 .. Len(b.files) : b.files[i].name # BadName) =>
                 r.ok /\ r.files = b.files
        BY <1>2, <1>8, ParseWholeExe
    <2> HIDE DEF r
    <2>2. r.ok => r.files = b.files
        BY <1>4, <2>1
    <2> QED
        BY <1>3, <2>1, <2>2 DEF r
<1> QED
    BY <1>1, <1>5, <1>6, <1>7, <1>8

-----------------------------------------------------------------------------
\* What the directory holds after the first k files of a package.
Wrote(pack, k, inst) ==
    \A n \in Names :
        \/ inst[n] = Missing /\ \A i \in 1 .. k : pack[i].name # n
        \/ \E i \in 1 .. k : /\ pack[i].name = n /\ inst[n] = pack[i].data
                             /\ \A j \in i + 1 .. k : pack[j].name # n

AllMissing == installed = [n \in Names |-> Missing]

\* The files that are unpacked: those that were packed, or what parse found at the
\* end of a download that was cut.
Unpacks(pack) ==
    \/ pack = built.files
    \/ CutShort /\ Inside(built.files) /\ pack = ParsePackage(blob).files

\* How far the installation is.
PackageInv ==
    /\ PackageTypeOK
    /\ unpackStep # "download" =>
           \E m \in 0 .. Len(Blob(built)) : blob = SubSeq(Blob(built), 1, m)
    /\ unpackStep \in {"download", "parse"} => AllMissing /\ todo = << >> /\ answer = "none"
    /\ unpackStep = "write" =>
           /\ answer = "none"
           /\ \E pack \in Seq(PackageFiles) :
                  /\ Unpacks(pack) /\ MainOf(pack) # {}
                  /\ \E k \in 0 .. Len(pack) : /\ todo = SubSeq(pack, k + 1, Len(pack))
                                               /\ Wrote(pack, k, installed)
    /\ unpackStep = "end" => answer \in {"ok", "error"}
    /\ answer = "ok" =>
           \E pack \in Seq(PackageFiles) :
               Unpacks(pack) /\ MainOf(pack) # {} /\ Wrote(pack, Len(pack), installed)
    /\ answer = "error" /\ todo = << >> =>
           /\ AllMissing
           /\ \/ CutShort \/ MainOf(built.files) = {}
              \/ \E i \in 1 .. Len(built.files) : built.files[i].name = BadName

\* The specification of one installation, of any package.
PackageSpec == (\E b \in Installers : PackageInit(b)) /\ [][PackageNext]_packageVars

\* A file more.
LEMMA WroteOneMore ==
    ASSUME NEW pack \in Seq(PackageFiles), NEW inst, DOMAIN inst = Names,
           NEW k \in 0 .. Len(pack) - 1, Wrote(pack, k, inst)
    PROVE  Wrote(pack, k + 1, [inst EXCEPT ![pack[k + 1].name] = pack[k + 1].data])
<1> DEFINE f == pack[k + 1]
           after == [inst EXCEPT ![f.name] = f.data]
<1>1. k \in Nat /\ k + 1 \in 1 .. k + 1
    OBVIOUS
<1>2. \A i \in 1 .. k + 1 : i = k + 1 \/ i \in 1 .. k
    BY <1>1
<1>3. \A i \in 1 .. k : i \in 1 .. k + 1
    BY <1>1
<1> SUFFICES ASSUME NEW n \in Names
             PROVE  \/ after[n] = Missing /\ \A i \in 1 .. k + 1 : pack[i].name # n
                    \/ \E i \in 1 .. k + 1 :
                           /\ pack[i].name = n /\ after[n] = pack[i].data
                           /\ \A j \in i + 1 .. k + 1 : pack[j].name # n
    BY DEF Wrote
<1> HIDE DEF f
<1>4. CASE n = f.name
    <2>1. after[n] = f.data
        BY <1>4
    <2>2. \A j \in (k + 1) + 1 .. k + 1 : FALSE
        BY <1>1
    <2> QED
        BY <1>1, <1>4, <2>1, <2>2 DEF f
<1>5. CASE n # f.name
    <2>1. after[n] = inst[n]
        BY <1>5
    <2>2. CASE inst[n] = Missing /\ \A i \in 1 .. k : pack[i].name # n
        BY <1>2, <1>5, <2>1, <2>2 DEF f
    <2>3. CASE \E i \in 1 .. k : /\ pack[i].name = n /\ inst[n] = pack[i].data
                                 /\ \A j \in i + 1 .. k : pack[j].name # n
        <3>1. PICK i \in 1 .. k : /\ pack[i].name = n /\ inst[n] = pack[i].data
                                  /\ \A j \in i + 1 .. k : pack[j].name # n
            BY <2>3
        <3>2. \A j \in i + 1 .. k + 1 : j = k + 1 \/ j \in i + 1 .. k
            BY <1>1
        <3>3. \A j \in i + 1 .. k + 1 : pack[j].name # n
            BY <1>5, <3>1, <3>2 DEF f
        <3> QED
            BY <1>3, <2>1, <3>1, <3>3
    <2> QED
        BY <2>2, <2>3 DEF Wrote
<1> QED
    BY <1>4, <1>5

\* When all files are written, the last one of every name is there.
LEMMA WroteAll ==
    ASSUME NEW pack \in Seq(PackageFiles), NEW inst, Wrote(pack, Len(pack), inst),
           NEW n \in Names
    PROVE  {inst[n]} = IF Latest(pack, n) = {} THEN {Missing} ELSE Latest(pack, n)
<1>1. DOMAIN pack = 1 .. Len(pack) /\ Len(pack) \in Nat
    OBVIOUS
<1>2. CASE inst[n] = Missing /\ \A i \in 1 .. Len(pack) : pack[i].name # n
    <2>1. Latest(pack, n) = {}
        BY <1>1, <1>2 DEF Latest
    <2> QED
        BY <1>2, <2>1
<1>3. CASE \E i \in 1 .. Len(pack) : /\ pack[i].name = n /\ inst[n] = pack[i].data
                                      /\ \A j \in i + 1 .. Len(pack) : pack[j].name # n
    <2>1. PICK i \in 1 .. Len(pack) : /\ pack[i].name = n /\ inst[n] = pack[i].data
                                       /\ \A j \in i + 1 .. Len(pack) : pack[j].name # n
        BY <1>3
    <2> DEFINE L == {j \in DOMAIN pack : pack[j].name = n
                         /\ \A k \in j + 1 .. Len(pack) : pack[k].name # n}
    <2>2. L = {i}
        <3>1. i \in L
            BY <1>1, <2>1
        <3>2. ASSUME NEW j \in L PROVE j = i
            <4>1. j \in 1 .. Len(pack) /\ pack[j].name = n
                BY <1>1
            <4>2. ~ (j \in i + 1 .. Len(pack))
                BY <2>1, <4>1
            <4>3. ~ (i \in j + 1 .. Len(pack))
                BY <2>1
            <4> QED
                BY <1>1, <4>1, <4>2, <4>3
        <3> QED
            BY <3>1, <3>2
    <2>3. Latest(pack, n) = {pack[j].data : j \in L}
        BY DEF Latest
    <2> HIDE DEF L
    <2>4. Latest(pack, n) = {inst[n]}
        BY <2>1, <2>2, <2>3
    <2> QED
        BY <2>4
<1> QED
    BY <1>2, <1>3 DEF Wrote

LEMMA InitPackage == (\E b \in Installers : PackageInit(b)) => PackageInv
<1> SUFFICES ASSUME NEW b \in Installers, PackageInit(b) PROVE PackageInv
    OBVIOUS
<1>1. << >> \in Seq(PackageFiles)
    OBVIOUS
<1>2. DOMAIN [n \in Names |-> Missing] = Names /\ \A x \in Names : [n \in Names |-> Missing][x] = Missing
    OBVIOUS
<1>3. PackageTypeOK
    BY <1>1, <1>2 DEF PackageInit, PackageTypeOK
<1> QED
    BY <1>3 DEF PackageInit, PackageInv, AllMissing

\* What every state of an installation holds of the package it was made of.
LEMMA PackageParts ==
    ASSUME PackageInv
    PROVE  /\ built \in Installers /\ built.files \in Seq(PackageFiles)
           /\ DOMAIN installed = Names /\ todo \in Seq(PackageFiles)
           /\ \A pack \in Seq(PackageFiles) :
                  /\ Len(pack) \in Nat /\ DOMAIN pack = 1 .. Len(pack)
                  /\ \A i \in 1 .. Len(pack) : /\ pack[i] \in PackageFiles /\ pack[i].name \in Names
                                              /\ pack[i].data \in Seq(PackageCell)
<1>1. /\ built \in Installers /\ built.files \in Seq(PackageFiles)
      /\ DOMAIN installed = Names /\ todo \in Seq(PackageFiles)
    BY PackageAssumption DEF PackageInv, PackageTypeOK, Installers
<1>2. ASSUME NEW pack \in Seq(PackageFiles)
      PROVE  /\ Len(pack) \in Nat /\ DOMAIN pack = 1 .. Len(pack)
             /\ \A i \in 1 .. Len(pack) : pack[i] \in PackageFiles
    BY <1>2
<1>3. \A f \in PackageFiles : f.name \in Names /\ f.data \in Seq(PackageCell)
    BY DEF PackageFiles, Names
<1> QED
    BY <1>1, <1>2, <1>3

\* What parse makes of what was downloaded.
LEMMA Parsed ==
    ASSUME PackageInv, unpackStep # "download"
    PROVE  LET r == ParsePackage(blob)
           IN  /\ r \in DecodeResult
               /\ r.ok => r.files \in Seq(PackageFiles) /\ Unpacks(r.files)
               /\ ~ r.ok => \/ CutShort
                            \/ \E i \in 1 .. Len(built.files) : built.files[i].name = BadName
               /\ ~ CutShort => (r.ok => r.files = built.files)
<1> DEFINE r == ParsePackage(blob)
           d == Blob(built)
<1>1. built \in Installers
    BY PackageParts
<1>2. PICK m \in 0 .. Len(d) : blob = SubSeq(d, 1, m)
    BY DEF PackageInv
<1>3. /\ r \in DecodeResult
      /\ r.ok => r.files = built.files \/ (m # Len(d) /\ Inside(built.files))
      /\ m = Len(d) /\ (\A i \in 1 .. Len(built.files) : built.files[i].name # BadName) =>
             r.ok /\ r.files = built.files
    BY <1>1, <1>2, ParseIs
<1>4. Len(blob) = m /\ Len(d) \in Nat
    BY <1>1, <1>2, CutIs, BlobLength
<1>5. CutShort <=> m # Len(d)
    <2> HIDE DEF d
    <2>1. m # Len(d) <=> m < Len(d)
        BY <1>4
    <2> QED
        BY <1>4, <2>1 DEF CutShort, d
<1> HIDE DEF d, r
<1>6. r.ok => r.files \in Seq(PackageFiles)
    <2>1. ~ Refused.ok
        BY DEF Refused
    <2> QED
        BY <1>3, <2>1 DEF DecodeResult
<1>7. r.ok => Unpacks(r.files)
    BY <1>3, <1>5 DEF Unpacks, r
<1> QED
    BY <1>3, <1>5, <1>6, <1>7 DEF r

LEMMA NextPackage == PackageInv /\ [PackageNext]_packageVars => PackageInv'
<1> SUFFICES ASSUME PackageInv, [PackageNext]_packageVars PROVE PackageInv'
    OBVIOUS
<1>1. /\ built \in Installers /\ built.files \in Seq(PackageFiles)
      /\ DOMAIN installed = Names /\ todo \in Seq(PackageFiles)
      /\ \A pack \in Seq(PackageFiles) :
             /\ Len(pack) \in Nat
             /\ \A i \in 1 .. Len(pack) : /\ pack[i] \in PackageFiles /\ pack[i].name \in Names
                                         /\ pack[i].data \in Seq(PackageCell)
    BY PackageParts
<1>2. ASSUME NEW n \in 0 .. Len(Blob(built)), Download(n) PROVE PackageInv'
    BY <1>2 DEF Download, PackageInv, PackageTypeOK, AllMissing
\* What is unpacked stays the same as long as nothing else is downloaded.
<1>3. ASSUME UNCHANGED <<built, blob>>
      PROVE  (CutShort <=> CutShort') /\ \A pack : Unpacks(pack) <=> Unpacks(pack)'
    BY <1>3 DEF CutShort, Unpacks
<1> DEFINE r == ParsePackage(blob)
<1>4. CASE ParseRefused
    <2>1. /\ unpackStep = "parse" /\ unpackStep' = "end" /\ answer' = "error" /\ todo = << >>
          /\ UNCHANGED <<built, blob, todo, installed>> /\ AllMissing
          /\ ~ r.ok \/ MainOf(r.files) = {}
        BY <1>4 DEF ParseRefused, Returns, PackageInv
    <2> HIDE DEF r
    <2>2. \/ CutShort \/ MainOf(built.files) = {}
          \/ \E i \in 1 .. Len(built.files) : built.files[i].name = BadName
        BY <2>1, Parsed DEF r
    <2>3. CutShort' <=> CutShort
        BY <1>3, <2>1
    <2> QED
        BY <2>1, <2>2, <2>3 DEF PackageInv, PackageTypeOK, AllMissing
<1>5. CASE StartUnpack
    <2>1. /\ unpackStep = "parse" /\ unpackStep' = "write" /\ todo' = r.files
          /\ UNCHANGED <<built, blob, installed, answer>>
          /\ AllMissing /\ answer = "none" /\ r.ok /\ MainOf(r.files) # {}
        BY <1>5 DEF StartUnpack, PackageInv
    <2> HIDE DEF r
    <2>2. PICK pack \in Seq(PackageFiles) : pack = r.files /\ Unpacks(pack)
        BY <2>1, Parsed DEF r
    <2>3. Wrote(pack, 0, installed)
        BY <2>1 DEF Wrote, AllMissing
    <2>4. pack = SubSeq(pack, 0 + 1, Len(pack)) /\ 0 \in 0 .. Len(pack)
        BY <2>2
    <2>5. todo' = SubSeq(pack, 0 + 1, Len(pack)) /\ Wrote(pack, 0, installed') /\ Unpacks(pack)'
        BY <1>3, <2>1, <2>2, <2>3, <2>4
    <2>6. MainOf(pack) # {}
        BY <2>1, <2>2
    <2>7. \E f \in Seq(PackageFiles) :
              /\ Unpacks(f)' /\ MainOf(f) # {}
              /\ \E k \in 0 .. Len(f) : todo' = SubSeq(f, k + 1, Len(f)) /\ Wrote(f, k, installed')
        BY <2>2, <2>4, <2>5, <2>6
    <2> QED
        BY <1>1, <2>1, <2>2, <2>7 DEF PackageInv, PackageTypeOK
<1>6. CASE WriteFileOf
    <2> DEFINE f == Head(todo)
    <2>1. /\ unpackStep = "write" /\ todo # << >> /\ todo' = Tail(todo)
          /\ installed' = [installed EXCEPT ![f.name] = f.data]
          /\ UNCHANGED <<built, blob, unpackStep, answer>> /\ answer = "none"
        BY <1>6 DEF WriteFileOf, PackageInv
    <2>2. PICK pack \in Seq(PackageFiles) :
              /\ Unpacks(pack) /\ MainOf(pack) # {}
              /\ \E k \in 0 .. Len(pack) : /\ todo = SubSeq(pack, k + 1, Len(pack))
                                           /\ Wrote(pack, k, installed)
        BY <2>1 DEF PackageInv
    <2> DEFINE len == Len(pack)
    <2>3. PICK k \in 0 .. len : todo = SubSeq(pack, k + 1, len) /\ Wrote(pack, k, installed)
        BY <2>2
    <2>4. k \in 0 .. len - 1
        <3>1. k = len => SubSeq(pack, k + 1, len) = << >>
            BY <1>1, SubSeqEmpty
        <3> QED
            BY <1>1, <2>1, <2>3, <3>1
    <2>5. f = pack[k + 1] /\ todo' = SubSeq(pack, (k + 1) + 1, len) /\ k + 1 \in 0 .. len
          /\ k + 1 \in 1 .. len
        <3> DEFINE q == SubSeq(pack, k + 1, len)
        <3>1. /\ k + 1 \in 1 .. len /\ k + 1 \in 0 .. len /\ len \in 1 .. len /\ k + 1 <= len
              /\ len - (k + 1) + 1 >= 1 /\ (k + 1) + 1 - 1 = k + 1
            BY <1>1, <2>4
        <3>2. Head(q) = pack[k + 1]
            BY <1>1, <3>1
        <3>3. Tail(q) = SubSeq(pack, (k + 1) + 1, len)
            BY <1>1, <3>1
        <3> HIDE DEF q
        <3>4. todo = q
            BY <2>3 DEF q
        <3> QED
            BY <2>1, <3>1, <3>2, <3>3, <3>4
    <2>6. Wrote(pack, k + 1, installed')
        BY <1>1, <2>1, <2>3, <2>4, <2>5, WroteOneMore
    <2>7. \E g \in Seq(PackageFiles) :
              /\ Unpacks(g)' /\ MainOf(g) # {}
              /\ \E j \in 0 .. Len(g) : todo' = SubSeq(g, j + 1, Len(g)) /\ Wrote(g, j, installed')
        <3>1. Unpacks(pack)'
            BY <1>3, <2>1, <2>2
        <3> QED
            BY <2>2, <2>5, <2>6, <3>1
    <2>8. f.name \in Names /\ f.data \in Seq(PackageCell)
        BY <1>1, <2>5
    <2>9. PackageTypeOK'
        <3>1. todo' \in Seq(PackageFiles)
            BY <1>1, <2>1, HeadTailProperties
        <3> HIDE DEF f
        <3>2. /\ DOMAIN installed' = Names
              /\ \A n \in Names : installed'[n] = IF n = f.name THEN f.data ELSE installed[n]
            BY <1>1, <2>1
        <3>3. \A n \in Names : installed'[n] = Missing \/ installed'[n] \in Seq(PackageCell)
            BY <2>8, <3>2 DEF PackageInv, PackageTypeOK
        <3> QED
            BY <2>1, <3>1, <3>2, <3>3 DEF PackageInv, PackageTypeOK
    <2> QED
        BY <2>1, <2>7, <2>9 DEF PackageInv
<1>7. CASE WriteFails
    BY <1>7, <1>3 DEF WriteFails, Returns, PackageInv, PackageTypeOK
<1>8. CASE Unpacked
    <2>1. /\ unpackStep = "write" /\ todo = << >> /\ unpackStep' = "end" /\ answer' = "ok"
          /\ UNCHANGED <<built, blob, todo, installed>>
        BY <1>8 DEF Unpacked, Returns
    <2>2. PICK pack \in Seq(PackageFiles) :
              /\ Unpacks(pack) /\ MainOf(pack) # {}
              /\ \E k \in 0 .. Len(pack) : /\ todo = SubSeq(pack, k + 1, Len(pack))
                                           /\ Wrote(pack, k, installed)
        BY <2>1 DEF PackageInv
    <2> DEFINE len == Len(pack)
    <2>3. PICK k \in 0 .. len : todo = SubSeq(pack, k + 1, len) /\ Wrote(pack, k, installed)
        BY <2>2
    <2>4. k = len
        <3>1. Len(SubSeq(pack, k + 1, len)) = IF k + 1 <= len THEN len - (k + 1) + 1 ELSE 0
            BY <1>1
        <3>2. Len(SubSeq(pack, k + 1, len)) = 0
            <4>1. SubSeq(pack, k + 1, len) = << >> /\ Len(<< >>) = 0
                BY <2>1, <2>3
            <4> QED
                BY <4>1
        <3>3. len \in Nat
            BY <1>1
        <3> HIDE DEF len
        <3>4. ~ (k + 1 <= len)
            BY <3>1, <3>2, <3>3
        <3> QED
            BY <3>3, <3>4
    <2>5. Wrote(pack, len, installed') /\ Unpacks(pack)'
        BY <1>3, <2>1, <2>2, <2>3, <2>4
    <2>6. \E g \in Seq(PackageFiles) :
              Unpacks(g)' /\ MainOf(g) # {} /\ Wrote(g, Len(g), installed')
        BY <2>2, <2>5
    <2> QED
        BY <2>1, <2>6 DEF PackageInv, PackageTypeOK
<1>9. CASE UNCHANGED packageVars
    <2>1. UNCHANGED <<built, blob, unpackStep, todo, installed, answer>>
        BY <1>9 DEF packageVars
    <2> QED
        BY <1>3, <2>1 DEF PackageInv, PackageTypeOK, AllMissing
<1> QED
    BY <1>2, <1>4, <1>5, <1>6, <1>7, <1>8, <1>9 DEF PackageNext

\* The invariant of the installer says that a package is whole or refused.
LEMMA PackageShows == PackageInv => WholeOrRefused
<1> SUFFICES ASSUME PackageInv PROVE WholeOrRefused
    OBVIOUS
<1>1. /\ built.files \in Seq(PackageFiles)
      /\ \A pack \in Seq(PackageFiles) :
             /\ DOMAIN pack = 1 .. Len(pack)
             /\ \A i \in 1 .. Len(pack) : pack[i].data \in Seq(PackageCell)
    BY PackageParts
<1>2. Inside(built.files) => ArchiveInside
    <2>1. \A s \in Seq(PackageCell) : DOMAIN s = 1 .. Len(s)
        BY LenProperties
    <2> QED
        BY <1>1, <2>1 DEF Inside, ArchiveInside
<1>3. ASSUME answer = "ok"
      PROVE  \/ Holding(built.files)
             \/ CutShort /\ ArchiveInside /\ Holding(ParsePackage(blob).files)
    <2>1. PICK pack \in Seq(PackageFiles) :
              Unpacks(pack) /\ MainOf(pack) # {} /\ Wrote(pack, Len(pack), installed)
        BY <1>3 DEF PackageInv
    <2>2. Holding(pack)
        BY <2>1, WroteAll DEF Holding
    <2> QED
        BY <1>2, <2>1, <2>2 DEF Unpacks
<1>4. answer = "error" => \/ todo # << >> \/ CutShort \/ MainOf(built.files) = {}
                          \/ \E i \in DOMAIN built.files : built.files[i].name = BadName
    BY <1>1 DEF PackageInv
<1>5. answer = "error" /\ todo = << >> => \A n \in Names : installed[n] = Missing
    BY DEF PackageInv, AllMissing
<1> QED
    BY <1>3, <1>4, <1>5 DEF WholeOrRefused

\* Whatever the package and the data of its files, wherever its download is cut
\* and whichever write fails: an installer that answers ok left exactly the files
\* that were packed, or, cut and with an archive inside, those parse found; no
\* good and complete package is refused, and a refused one left nothing.
THEOREM PackagesWhole == PackageSpec => []WholeOrRefused
<1>1. PackageInv => WholeOrRefused
    BY PackageShows
<1> QED
    BY <1>1, InitPackage, NextPackage, PTL DEF PackageSpec
=============================================================================
