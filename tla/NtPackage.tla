------------------------------ MODULE NtPackage ------------------------------
(* Native installer packages (strawwu-nt, installer.rs): an archive of files,   *)
(* behind a program that unpacks it (EXE) or a compound-file signature (MSI),   *)
(* fetched by a download that may be cut short, and unpacked into an empty      *)
(* directory whose disk may fill up.  A field of an archive is one cell: a      *)
(* magic number, a name or a length; the data of a file is any cells, those of  *)
(* an archive of its own included, where the file is itself an installer.       *)
EXTENDS Naturals, Sequences, FiniteSets

CONSTANTS
    FileNames,      \* names of files
    Package,        \* files of a package: sequences of [name, data]
    MainExe,        \* main.exe
    OtherExe,       \* another name that ends in .exe
    BadName,        \* a name that validate_relative_name refuses
    Swup, Swum, Ole, Mz,    \* the magic numbers
    Junk,           \* data that reads as nothing else
    Missing         \* no such file

PackageCell == {Swup, Swum, Ole, Mz, Junk} \union FileNames \union Nat
PackageFiles == [name : FileNames, data : Seq(PackageCell)]

\* A magic number is no name and no length.
ASSUME PackageAssumption ==
    /\ \A p \in Package : p \in Seq(PackageFiles)
    /\ \A p \in Package : \A i \in DOMAIN p : p[i].data # Missing
    /\ Swup \notin FileNames \union Nat \union {Swum, Ole, Mz, Junk}
    /\ Mz \notin {Ole, Swum}

VARIABLES
    built,          \* what the package was made of: kind and files
    blob,           \* what was downloaded of it
    unpackStep,     \* where unpack_native_package is
    todo,           \* the files to be written yet
    installed,      \* the data of each file in the directory
    answer          \* what unpack_native_package returned

packageVars == <<built, blob, unpackStep, todo, installed, answer>>

Installers == [kind : {"exe", "msi"}, files : Package]

FileCells(f) == <<f.name, Len(f.data)>> \o f.data

\* The files, one behind the other.
Body(files) ==
    LET upTo[i \in 0 .. Len(files)] ==
            IF i = 0 THEN << >> ELSE upTo[i - 1] \o FileCells(files[i])
    IN  upTo[Len(files)]

\* encode_archive: magic, version, number of files, the files, and a footer.
\* (This encoder refuses a BadName itself; an archive made elsewhere may hold one.)
Encode(magic, files) ==
    LET archive == <<magic, 1, Len(files)>> \o Body(files)
    IN  archive \o <<magic, Len(archive) + 2>>

\* build_sfx_installer and build_msi_package.
Blob(b) == IF b.kind = "exe" THEN <<Mz, Junk>> \o Encode(Swup, b.files)
           ELSE <<Ole>> \o Encode(Swum, b.files)

Refused == [ok |-> FALSE, at |-> 0, files |-> << >>]

\* Mutation: data that is not all there is taken as far as it goes.
TakeFileLax(data, r) ==
    LET len == data[r.at + 1]
        end == IF r.at + 1 + len > Len(data) THEN Len(data) ELSE r.at + 1 + len
    IN  IF ~r.ok \/ r.at + 1 > Len(data) \/ data[r.at] \notin FileNames \ {BadName}
             \/ len \notin Nat THEN Refused
        ELSE [ok |-> TRUE, at |-> r.at + 2 + len,
              files |-> Append(r.files, [name |-> data[r.at], data |-> SubSeq(data, r.at + 2, end)])]

\* One file of an archive, from cell r.at on.
TakeFile(data, r) ==
    LET len == data[r.at + 1]
    IN  IF ~r.ok \/ r.at + 1 > Len(data) \/ data[r.at] \notin FileNames \ {BadName}
             \/ len \notin Nat \/ r.at + 1 + len > Len(data) THEN Refused
        ELSE [ok |-> TRUE, at |-> r.at + 2 + len,
              files |-> Append(r.files, [name |-> data[r.at],
                                         data |-> SubSeq(data, r.at + 2, r.at + 1 + len)])]

\* decode_archive: as many files as the header says; the footer is not read.
Decode(data, magic) ==
    IF Len(data) < 3 \/ data[1] # magic \/ data[2] # 1 \/ data[3] \notin Nat THEN Refused
    ELSE LET after[i \in 0 .. data[3]] ==
                 IF i = 0 THEN [ok |-> TRUE, at |-> 4, files |-> << >>]
                 ELSE TakeFile(data, after[i - 1])
         IN  after[data[3]]

\* find_swup_trailer: the last cell says where the archive starts, whatever it is
\* a part of.
Trailer(data) ==
    LET len == data[Len(data)]  start == Len(data) - len + 1
    IN  IF /\ Len(data) >= 2 /\ len \in 3 .. Len(data)
           /\ data[start] = Swup /\ data[Len(data) - 1] = Swup
        THEN {start} ELSE {}

\* parse_native_package.
ParsePackage(data) ==
    LET body == IF data # << >> /\ data[1] = Ole THEN Tail(data) ELSE data
    IN  IF data # << >> /\ Trailer(data) # {}
        THEN Decode(SubSeq(data, CHOOSE s \in Trailer(data) : TRUE, Len(data)), Swup)
        ELSE Decode(body, Swum)

\* prefer_main_exe, by name: the program that is launched.
MainOf(files) ==
    IF \E i \in DOMAIN files : files[i].name = MainExe THEN {MainExe}
    ELSE {OtherExe} \intersect {files[i].name : i \in DOMAIN files}

Names == {MainExe, OtherExe, BadName} \union FileNames

\* A download of the installer b.
PackageInit(b) ==
    /\ built = b
    /\ blob = << >> /\ unpackStep = "download" /\ todo = << >>
    /\ installed = [n \in Names |-> Missing] /\ answer = "none"

\* The download ends after n cells.
Download(n) ==
    /\ unpackStep = "download" /\ unpackStep' = "parse"
    /\ blob' = SubSeq(Blob(built), 1, n)
    /\ UNCHANGED <<built, todo, installed, answer>>

Returns(result) == unpackStep' = "end" /\ answer' = result

\* Nothing is written before the whole package is decoded and a program found.
ParseRefused ==
    LET r == ParsePackage(blob)
    IN  /\ unpackStep = "parse" /\ (~r.ok \/ MainOf(r.files) = {})
        /\ Returns("error")
        /\ UNCHANGED <<built, blob, todo, installed>>

StartUnpack ==
    LET r == ParsePackage(blob)
    IN  /\ unpackStep = "parse" /\ r.ok /\ MainOf(r.files) # {}
        /\ unpackStep' = "write" /\ todo' = r.files
        /\ UNCHANGED <<built, blob, installed, answer>>

WriteFileOf ==
    /\ unpackStep = "write" /\ todo # << >>
    /\ installed' = [installed EXCEPT ![Head(todo).name] = Head(todo).data]
    /\ todo' = Tail(todo)
    /\ UNCHANGED <<built, blob, unpackStep, answer>>

\* A write fails: what is there stays.
WriteFails ==
    /\ unpackStep = "write" /\ todo # << >> /\ Returns("error")
    /\ UNCHANGED <<built, blob, todo, installed>>

Unpacked ==
    /\ unpackStep = "write" /\ todo = << >> /\ Returns("ok")
    /\ UNCHANGED <<built, blob, todo, installed>>

PackageNext ==
    \/ \E n \in 0 .. Len(Blob(built)) : Download(n)
    \/ ParseRefused \/ StartUnpack \/ WriteFileOf \/ WriteFails \/ Unpacked

-----------------------------------------------------------------------------
PackageTypeOK ==
    /\ built \in Installers
    /\ DOMAIN installed = Names
    /\ \A n \in Names : installed[n] = Missing \/ installed[n] \in Seq(PackageCell)
    /\ unpackStep \in {"download", "parse", "write", "end"}
    /\ answer \in {"none", "ok", "error"} /\ todo \in Seq(PackageFiles)

\* The last file of that name wins.
Latest(files, n) ==
    {files[i].data : i \in {j \in DOMAIN files : files[j].name = n
                              /\ \A k \in j + 1 .. Len(files) : files[k].name # n}}

\* The directory holds these files and no others, a program among them.
Holding(files) ==
    /\ MainOf(files) # {}
    /\ \A n \in Names :
           {installed[n]} = IF Latest(files, n) = {} THEN {Missing} ELSE Latest(files, n)

CutShort == Len(blob) < Len(Blob(built))

\* A file that was packed holds the magic number of an archive.
ArchiveInside ==
    \E i \in DOMAIN built.files : \E x \in DOMAIN built.files[i].data :
        built.files[i].data[x] = Swup

\* Wherever a download was cut and whatever write failed, an installer that
\* answers ok left exactly the files that were packed, a program among them,
\* unless it was cut and a file of it is an installer too: then what arrived may
\* end like an installer, and the files of the one inside are left, whole.  A
\* complete download of a package with good names and a program is never
\* refused; and a package that is refused left nothing.
WholeOrRefused ==
    /\ answer = "ok" =>
           \/ Holding(built.files)
           \/ CutShort /\ ArchiveInside /\ Holding(ParsePackage(blob).files)
    /\ answer = "error" =>
           \/ todo # << >>
           \/ CutShort \/ MainOf(built.files) = {}
           \/ \E i \in DOMAIN built.files : built.files[i].name = BadName
    /\ answer = "error" /\ todo = << >> => \A n \in Names : installed[n] = Missing
=============================================================================
