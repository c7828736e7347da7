------------------------------ MODULE GuestFiles ------------------------------
(* The files of a Windows program that the interpreter runs: the kernel32      *)
(* calls on files (Cpu::dispatch_stub, cpu.rs) on the virtual file system of   *)
(* ntdll.rs, and the directory of the host that execute_pe mirrors them into.  *)
(* CreateFileA is the only way to a virtual file, and makes one virtual handle  *)
(* for each guest handle: the two are one here.                                *)
EXTENDS Naturals, Sequences

CONSTANTS
    Path,       \* paths of virtual files
    HostName,   \* file names in the mirror directory
    NameOf,     \* the last component of a path
    StdoutName, \* pe-stdout.txt
    Octet,      \* what is written
    MaxLen,     \* bound on the length of a file
    LastHandle, \* bound on the handles given out
    NoFile

ASSUME FilesAssumption ==
    /\ NameOf \in [Path -> HostName] /\ StdoutName \in HostName
    /\ NoFile \notin Seq(Octet) /\ {MaxLen, LastHandle} \subseteq Nat \ {0}
    /\ Path # {}

VARIABLES
    files,      \* VirtualFileSystem.files
    handle,     \* open_files and open_handles, by handle
    nextHandle, \* next_guest_handle
    stdout,     \* side_effects.stdout
    host,       \* the mirror directory
    stale       \* history: handles whose file another handle wrote since

fileVars == <<files, handle, nextHandle, stdout, host, stale>>

Handle == 1 .. LastHandle
Closed == [open |-> FALSE, path |-> CHOOSE p \in Path : TRUE, content |-> << >>, pos |-> 0]
Content == UNION {[1 .. n -> Octet] : n \in 0 .. MaxLen}

FilesTypeOK ==
    /\ files \in [Path -> Content \union {NoFile}]
    /\ handle \in [Handle -> [open : BOOLEAN, path : Path,
                              content : Content, pos : 0 .. MaxLen]]
    /\ nextHandle \in 1 .. LastHandle + 1
    /\ stdout \in Content /\ host \in [HostName -> Content \union {NoFile}]
    /\ stale \subseteq Handle

FilesInit ==
    /\ files = [p \in Path |-> NoFile]
    /\ handle = [h \in Handle |-> Closed] /\ nextHandle = 1
    /\ stdout = << >> /\ host = [n \in HostName |-> NoFile]
    /\ stale = {}

\* The file as a new handle sees it; a file that is not there is made, empty.
Current(p) == IF files[p] = NoFile THEN << >> ELSE files[p]

\* CreateFileA: the handle gets a copy of the content, and position 0.
CreateFileA(p) ==
    /\ nextHandle <= LastHandle
    /\ handle' = [handle EXCEPT ![nextHandle] =
           [open |-> TRUE, path |-> p, content |-> Current(p), pos |-> 0]]
    /\ files' = [files EXCEPT ![p] = Current(p)]
    /\ nextHandle' = nextHandle + 1
    /\ UNCHANGED <<stdout, host, stale>>

\* The content of h with data in the place of what starts at its position.
Written(h, data) ==
    LET old == handle[h].content
        end == handle[h].pos + Len(data)
    IN  [i \in 1 .. (IF end > Len(old) THEN end ELSE Len(old)) |->
            IF i > handle[h].pos /\ i <= end THEN data[i - handle[h].pos] ELSE old[i]]

Others(h) == {g \in Handle : g # h /\ handle[g].open /\ handle[g].path = handle[h].path}

\* Mutation: the new content is stored with the handle only.
WriteFileLater(h, data) ==
    LET p == handle[h].path
    IN  /\ handle[h].open /\ handle[h].pos + Len(data) <= MaxLen
        /\ handle' = [handle EXCEPT ![h].content = Written(h, data),
                                    ![h].pos = @ + Len(data)]
        /\ host' = [host EXCEPT ![NameOf[p]] = data]
        /\ stale' = (stale \ {h}) \union Others(h)
        /\ UNCHANGED <<files, nextHandle, stdout>>

\* WriteFile on a file: the copy of the handle is written back whole, and the
\* mirror file is written with the data of this call.
WriteFile(h, data) ==
    LET p == handle[h].path
    IN  /\ handle[h].open /\ handle[h].pos + Len(data) <= MaxLen
        /\ handle' = [handle EXCEPT ![h].content = Written(h, data),
                                    ![h].pos = @ + Len(data)]
        /\ files' = [files EXCEPT ![p] = Written(h, data)]
        /\ host' = [host EXCEPT ![NameOf[p]] = data]
        /\ stale' = (stale \ {h}) \union Others(h)
        /\ UNCHANGED <<nextHandle, stdout>>

\* WriteFile on the standard output, and puts: the mirror gets all of it.
WriteStdout(data) ==
    /\ Len(stdout) + Len(data) <= MaxLen
    /\ stdout' = stdout \o data
    /\ host' = [host EXCEPT ![StdoutName] = stdout \o data]
    /\ UNCHANGED <<files, handle, nextHandle, stale>>

\* ReadFile reads the copy of the handle.
ReadFile(h, max) ==
    LET left == Len(handle[h].content) - handle[h].pos
    IN  /\ handle[h].open
        /\ handle' = [handle EXCEPT ![h].pos = @ + (IF max < left THEN max ELSE left)]
        /\ UNCHANGED <<files, nextHandle, stdout, host, stale>>

CloseHandle(h) ==
    /\ handle[h].open
    /\ handle' = [handle EXCEPT ![h] = Closed]
    /\ stale' = stale \ {h}
    /\ UNCHANGED <<files, nextHandle, stdout, host>>

Chunk == UNION {[1 .. n -> Octet] : n \in 1 .. 2}

FilesNext ==
    \/ \E p \in Path : CreateFileA(p)
    \/ \E h \in Handle :
           \/ \E data \in Chunk : WriteFile(h, data)
           \/ \E max \in 1 .. 2 : ReadFile(h, max)
           \/ CloseHandle(h)
    \/ \E data \in Chunk : WriteStdout(data)

FilesSpec == FilesInit /\ [][FilesNext]_fileVars

-----------------------------------------------------------------------------
\* What a program reads through a handle is what the file holds, unless another
\* handle wrote the file after this one was opened or last wrote: with several
\* handles on one file opened, read, written and closed in any order.  A
\* position never lies behind the end.
HandlesFresh ==
    \A h \in Handle : handle[h].open =>
        /\ h \notin stale => handle[h].content = files[handle[h].path]
        /\ handle[h].pos <= Len(handle[h].content)
=============================================================================
