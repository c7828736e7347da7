--------------------------- MODULE AppManagerProofs ---------------------------
(***************************************************************************)
(* What TLAPS proves of AppManager, for every set of apps, capabilities    *)
(* and commands.                                                           *)
(***************************************************************************)
EXTENDS AppManager, TLAPS

(***************************************************************************)
(* What a command makes of the database.                                   *)
(***************************************************************************)

\* A manifest is one.
LEMMA ManifestType ==
    ASSUME NEW state \in {"installed", "registered", "removed"}, NEW system \in BOOLEAN
    PROVE  Manifest(state, system) \in App /\ Manifest(state, system).perms = {}
BY DEF Manifest, App

\* The permissions of a database, one id at a time.
LEMMA PermsAt ==
    ASSUME NEW d, NEW i \in Ids, NEW c \in Caps
    PROVE  <<i, c>> \in Perms(d) <=> d[i] # Absent /\ c \in d[i].perms
BY DEF Perms

\* A database without apps grants nothing.
LEMMA NoPerms == EmptyDb \in Db /\ Perms(EmptyDb) = {}
BY DEF EmptyDb, Db, Perms

\* A database in which one app was replaced.
LEMMA PutApp ==
    ASSUME NEW d \in Db, NEW i \in Ids, NEW a \in App
    PROVE  /\ [d EXCEPT ![i] = a] \in Db
           /\ \A k \in Ids, c \in Caps :
                 <<k, c>> \in Perms([d EXCEPT ![i] = a]) <=>
                    IF k = i THEN c \in a.perms ELSE <<k, c>> \in Perms(d)
<1> DEFINE e == [d EXCEPT ![i] = a]
<1>1. e \in Db /\ \A k \in Ids : e[k] = IF k = i THEN a ELSE d[k]
    BY DEF Db
<1>2. a # Absent
    BY AbsentAssumption
<1>3. ASSUME NEW k \in Ids, NEW c \in Caps
      PROVE  <<k, c>> \in Perms(e) <=> IF k = i THEN c \in a.perms ELSE <<k, c>> \in Perms(d)
    <2>1. <<k, c>> \in Perms(e) <=> e[k] # Absent /\ c \in e[k].perms
        BY PermsAt
    <2>2. <<k, c>> \in Perms(d) <=> d[k] # Absent /\ c \in d[k].perms
        BY PermsAt
    <2> QED
        BY <1>1, <1>2, <2>1, <2>2
<1> QED
    BY <1>1, <1>3

\* What a command writes is a database; only a grant adds a permission, its
\* own; after a revocation its permission is gone.
LEMMA EditedPerms ==
    ASSUME NEW d \in Db, NEW c \in Command, NEW e \in Edited(d, c)
    PROVE  /\ e \in Db
           /\ Perms(e) \subseteq Perms(d) \union (IF c.op = "grant" THEN {Pair(c)} ELSE {})
           /\ c.op = "revoke" => Pair(c) \notin Perms(e)
<1>0. c.op \in Ops /\ c.id \in Ids /\ c.cap \in Caps /\ d[c.id] \in App \union {Absent}
    BY DEF Command, Db
<1> DEFINE Added(k, x) == c.op = "grant" /\ k = c.id /\ x = c.cap
<1>1. SUFFICES /\ e \in Db
               /\ \A k \in Ids, x \in Caps : <<k, x>> \in Perms(e) => <<k, x>> \in Perms(d) \/ Added(k, x)
               /\ c.op = "revoke" => <<c.id, c.cap>> \notin Perms(e)
    BY DEF Perms, Pair
<1>2. CASE c.op \in {"show", "channel", "edit"}
    BY <1>2 DEF Edited
<1>3. CASE c.op = "list"
    <2>1. e = RegisterSysapps(d)
        BY <1>3 DEF Edited
    <2>2. Manifest("registered", TRUE) \in App /\ Manifest("registered", TRUE).perms = {}
        BY ManifestType
    <2>3. e \in Db /\ \A i \in Ids : e[i] = d[i] \/ e[i] = Manifest("registered", TRUE)
        BY <2>1, <2>2 DEF RegisterSysapps, Db
    <2>4. ASSUME NEW i \in Ids, NEW x \in Caps, <<i, x>> \in Perms(e) PROVE <<i, x>> \in Perms(d)
        <3>1. e[i] # Absent /\ x \in e[i].perms
            BY <2>4, PermsAt
        <3>2. e[i] = d[i]
            BY <2>2, <2>3, <3>1
        <3> QED
            BY <3>1, <3>2, PermsAt
    <2> QED
        BY <1>3, <2>3, <2>4
<1>4. CASE c.op = "install"
    <2>1. e = [d EXCEPT ![c.id] = Manifest("installed", FALSE)]
        BY <1>4 DEF Edited, Install
    <2>2. Manifest("installed", FALSE) \in App /\ Manifest("installed", FALSE).perms = {}
        BY ManifestType
    <2> QED
        BY <1>0, <1>4, <2>1, <2>2, PutApp
<1>5. CASE c.op = "uninstall"
    <2> DEFINE a == [d[c.id] EXCEPT !.state = "removed"]
    <2>1. e = [d EXCEPT ![c.id] = a] /\ d[c.id] # Absent
        BY <1>5 DEF Edited, Uninstall
    <2>2. a \in App /\ a.perms = d[c.id].perms
        BY <1>0, <2>1 DEF App
    <2>3. \A x \in Caps : x \in a.perms <=> <<c.id, x>> \in Perms(d)
        BY <1>0, <2>1, <2>2, PermsAt
    <2> HIDE DEF a
    <2>4. e \in Db /\ \A k \in Ids, x \in Caps : <<k, x>> \in Perms(e) <=>
              IF k = c.id THEN x \in a.perms ELSE <<k, x>> \in Perms(d)
        BY <1>0, <2>1, <2>2, PutApp
    <2> QED
        BY <1>0, <1>5, <2>3, <2>4
<1>6. CASE c.op = "grant"
    <2> DEFINE a == [d[c.id] EXCEPT !.perms = @ \union {c.cap}]
    <2>1. e = [d EXCEPT ![c.id] = a] /\ d[c.id] # Absent
        BY <1>6 DEF Edited, AddPermission, Active
    <2>2. a \in App /\ a.perms = d[c.id].perms \union {c.cap}
        BY <1>0, <2>1 DEF App
    <2>3. \A x \in Caps : x \in a.perms <=> <<c.id, x>> \in Perms(d) \/ x = c.cap
        BY <1>0, <2>1, <2>2, PermsAt
    <2> HIDE DEF a
    <2>4. e \in Db /\ \A k \in Ids, x \in Caps : <<k, x>> \in Perms(e) <=>
              IF k = c.id THEN x \in a.perms ELSE <<k, x>> \in Perms(d)
        BY <1>0, <2>1, <2>2, PutApp
    <2> QED
        BY <1>0, <1>6, <2>3, <2>4
<1>7. CASE c.op = "revoke"
    <2> DEFINE a == [d[c.id] EXCEPT !.perms = @ \ {c.cap}]
    <2>1. e = [d EXCEPT ![c.id] = a] /\ d[c.id] # Absent
        BY <1>7 DEF Edited, DropPermission
    <2>2. a \in App /\ a.perms = d[c.id].perms \ {c.cap}
        BY <1>0, <2>1 DEF App
    <2>3. \A x \in Caps : x \in a.perms <=> <<c.id, x>> \in Perms(d) /\ x # c.cap
        BY <1>0, <2>1, <2>2, PermsAt
    <2> HIDE DEF a
    <2>4. e \in Db /\ \A k \in Ids, x \in Caps : <<k, x>> \in Perms(e) <=>
              IF k = c.id THEN x \in a.perms ELSE <<k, x>> \in Perms(d)
        BY <1>0, <2>1, <2>2, PutApp
    <2> QED
        BY <1>0, <1>7, <2>3, <2>4
<1> QED
    BY <1>0, <1>2, <1>3, <1>4, <1>5, <1>6, <1>7 DEF Ops

\* A revocation that leaves the database alone finds no such app in it.
LEMMA NothingToRevoke ==
    ASSUME NEW d \in Db, NEW c \in Command, Edited(d, c) = {}, c.op = "revoke"
    PROVE  Pair(c) \notin Perms(d)
<1>1. c.id \in Ids /\ c.cap \in Caps
    BY DEF Command
<1>2. d[c.id] = Absent
    BY DEF Edited, DropPermission
<1> QED
    BY <1>1, <1>2, PermsAt DEF Pair

(***************************************************************************)
(* Types.                                                                  *)
(***************************************************************************)

\* What a command writes to a file is a file.
LEMMA FileType ==
    ASSUME NEW S, NEW v \in S
    PROVE  /\ Whole(v) \in Files(S)
           /\ NoText("missing", v) \in Files(S)
           /\ NoText("blank", v) \in Files(S)
           /\ NoText("torn", v) \in Files(S)
           /\ \A f \in Files(S), w \in S : Overlay(f, w, v) \subseteq Files(S)
BY DEF Whole, NoText, Files, Overlay

\* The files and the copies keep their types in every step of a command.
LEMMA StepType ==
    ASSUME TypeOK, NEW p \in Proc, Begin(p) \/ Step(p) \/ ShortWrite(p) \/ Kill(p)
    PROVE  TypeOK'
<1>0. EmptyDb \in Db /\ {} \in Grants
    BY NoPerms DEF Grants
<1>1. /\ \A f \in Files(Db), w \in Db : Overlay(f, w, EmptyDb) \subseteq Files(Db)
      /\ NoText("blank", EmptyDb) \in Files(Db) /\ NoText("torn", EmptyDb) \in Files(Db)
    BY <1>0, FileType
<1>2. /\ \A f \in Files(Grants), w \in Grants : Overlay(f, w, {}) \subseteq Files(Grants)
      /\ NoText("blank", {}) \in Files(Grants) /\ NoText("torn", {}) \in Files(Grants)
    BY <1>0, FileType
<1>3. db.of \in Db /\ grants.of \in Grants
    BY DEF TypeOK, Files
<1>4. \A c \in Commands : c \in Command /\ Pair(c) \in Ids \X Caps
    BY CommandsAssumption DEF Command, Pair
<1>5. cmd[p] \in Command /\ Pair(cmd[p]) \in Ids \X Caps
    BY <1>4 DEF TypeOK
<1>6. CASE Begin(p)
    <2>1. PICK c \in Commands :
             /\ cmd' = [cmd EXCEPT ![p] = c]
             /\ allowed' = IF c.op = "grant" THEN allowed \union {Pair(c)} ELSE allowed
             /\ \/ owed' = [q \in Proc |-> IF q = p THEN {} ELSE owed[q] \ {Pair(c)}]
                \/ owed' = [owed EXCEPT ![p] = {Pair(c)}]
                \/ owed' = [owed EXCEPT ![p] = {}]
        BY <1>6 DEF Begin
    <2>2. cmd' \in [Proc -> Commands] /\ allowed' \in Grants
        BY <1>4, <2>1 DEF TypeOK, Grants
    <2>3. owed' \in [Proc -> Grants]
        BY <1>0, <1>4, <2>1 DEF TypeOK, Grants
    <2>4. pc' \in [Proc -> PcStates] /\ UNCHANGED <<db, grants, mem, gmem, failed>>
        BY <1>6 DEF Begin, Go, TypeOK, PcStates
    <2> QED
        BY <2>2, <2>3, <2>4 DEF TypeOK
<1>7. CASE LayoutDb(p) \/ LayoutPerms(p)
    BY <1>0, <1>7 DEF TypeOK, LayoutDb, LayoutPerms, Go, DropMem, DropGmem, PcStates
<1>8. CASE TruncateDb(p) \/ TruncatePerms(p)
    BY <1>1, <1>2, <1>8 DEF TypeOK, TruncateDb, TruncatePerms, Go, PcStates
<1>9. CASE FillDb(p)
    BY <1>0, <1>1, <1>9 DEF TypeOK, FillDb, DropMem, Go, PcStates
<1>10. CASE Load(p)
    <2>1. \/ \E d \in Edited(db.of, cmd[p]) : mem' = [mem EXCEPT ![p] = d]
          \/ mem' = mem
        BY <1>10 DEF Load
    <2>3. mem' \in [Proc -> Db]
        BY <1>3, <1>5, <2>1, EditedPerms DEF TypeOK
    <2>2. pc' \in [Proc -> PcStates] /\ UNCHANGED <<db, grants, cmd, gmem, allowed, owed, failed>>
        BY <1>10 DEF TypeOK, Load, Go, PcStates
    <2> QED
        BY <2>2, <2>3 DEF TypeOK
<1>11. CASE LoadPerms(p)
    BY <1>3, <1>5, <1>11 DEF TypeOK, LoadPerms, Go, PcStates, Regranted, Grants
<1>12. CASE FillPerms(p)
    <2>1. grants' \in Files(Grants) /\ gmem' \in [Proc -> Grants]
        BY <1>0, <1>2, <1>12 DEF TypeOK, FillPerms, DropGmem
    <2>2. allowed' \in Grants
        BY <1>12 DEF TypeOK, FillPerms, Grants
    <2> QED
        BY <1>12, <2>1, <2>2 DEF TypeOK, FillPerms, Go, PcStates
<1>13. CASE ShortWrite(p)
    BY <1>0, <1>1, <1>2, <1>13 DEF TypeOK, ShortWrite, Go, DropMem, DropGmem, PcStates
<1>14. CASE Kill(p)
    BY <1>0, <1>14 DEF TypeOK, Kill, DropMem, DropGmem, PcStates
<1> QED
    BY <1>6, <1>7, <1>8, <1>9, <1>10, <1>11, <1>12, <1>13, <1>14 DEF Step

\* The first state.
LEMMA InitType == Init => TypeOK
<1>1. EmptyDb \in Db /\ {} \in Grants
    BY NoPerms DEF Grants
<1>2. NoText("missing", EmptyDb) \in Files(Db) /\ NoText("missing", {}) \in Files(Grants)
    BY <1>1, FileType
<1> QED
    BY <1>1, <1>2 DEF Init, TypeOK, PcStates

\* The types hold, whatever commands run and wherever they are killed.
THEOREM TypeCorrect == Spec => []TypeOK
<1>1. Init => TypeOK
    BY InitType
<1>2. TypeOK /\ [Next]_vars => TypeOK'
    <2>1. CASE Next
        BY <2>1, StepType DEF Next
    <2>2. CASE UNCHANGED vars
        BY <2>2 DEF TypeOK, vars
    <2> QED
        BY <2>1, <2>2
<1> QED
    BY <1>1, <1>2, PTL DEF Spec

(***************************************************************************)
(* A damaged database.                                                     *)
(***************************************************************************)

\* The database is damaged, and every command that runs started after that: it
\* is before the point where it would read the database.
DamageInv ==
    /\ TypeOK /\ Damaged(db)
    /\ \A p \in Proc :
           pc[p] \in {"idle", "layout", "layout2", "makeperms", "fillperms", "load"}

LEMMA DamageStep ==
    ASSUME DamageInv, NEW p \in Proc, Begin(p) \/ Step(p) \/ ShortWrite(p) \/ Kill(p)
    PROVE  DamageInv'
<1>0. TypeOK'
    BY StepType DEF DamageInv
<1>1. pc \in [Proc -> PcStates] /\ Damaged(db) /\ db.is # "missing"
    BY DEF DamageInv, TypeOK, Damaged
<1>2. pc[p] \in {"idle", "layout", "layout2", "makeperms", "fillperms", "load"}
    BY DEF DamageInv
<1> SUFFICES /\ db' = db
             /\ \E to \in {"idle", "layout", "layout2", "makeperms", "fillperms", "load"} :
                    pc' = [pc EXCEPT ![p] = to]
    BY <1>0, <1>1 DEF DamageInv, Damaged
<1>3. CASE Begin(p) \/ LayoutDb(p) \/ LayoutPerms(p)
    BY <1>1, <1>3 DEF Begin, LayoutDb, LayoutPerms, Go
<1>4. CASE Load(p)
    BY <1>1, <1>4 DEF Load, Go
<1>5. CASE TruncatePerms(p) \/ FillPerms(p) \/ LoadPerms(p)
    BY <1>2, <1>5 DEF TruncatePerms, FillPerms, LoadPerms, Go
<1>6. ~TruncateDb(p) /\ ~FillDb(p)
    BY <1>2 DEF TruncateDb, FillDb, Go
<1>7. CASE ShortWrite(p) \/ Kill(p)
    BY <1>2, <1>7 DEF ShortWrite, Kill, Go
<1> QED
    BY <1>3, <1>4, <1>5, <1>6, <1>7 DEF Step

\* Once no command runs and the database is damaged, it stays as it is for the
\* user to repair, whatever commands start later, however many at a time
\* (DamageKept, load_db).
THEOREM DamageIsKept == Spec => DamageKept
<1>1. AllIdle /\ Damaged(db) /\ TypeOK => DamageInv
    BY DEF AllIdle, DamageInv
<1>2. DamageInv /\ [Next]_vars => DamageInv'
    <2>1. ASSUME DamageInv, Next PROVE DamageInv'
        BY <2>1, DamageStep DEF Next
    <2>2. ASSUME DamageInv, UNCHANGED vars PROVE DamageInv'
        BY <2>2 DEF DamageInv, TypeOK, Damaged, vars
    <2> QED
        BY <2>1, <2>2
<1>3. DamageInv => Damaged(db)
    BY DEF DamageInv
<1> QED
    BY <1>1, <1>2, <1>3, TypeCorrect, PTL DEF Spec, DamageKept

(***************************************************************************)
(* One command at a time.                                                  *)
(***************************************************************************)

Solo == \A p, q \in Proc : p = q

\* Where a copy is in use.
CopyInv(p) ==
    /\ pc[p] \in {"save", "save2"} \/ mem[p] = EmptyDb
    /\ pc[p] \in {"saveperms", "saveperms2"} \/ gmem[p] = {}
    /\ pc[p] \in {"loadperms", "saveperms", "saveperms2"} => cmd[p].op \in {"grant", "revoke"}

\* What is not allowed is in no copy either, and what a revocation is about
\* is gone from everything it has dealt with.
DenyPart(p) ==
    /\ Perms(mem[p]) \subseteq allowed /\ gmem[p] \subseteq allowed
    /\ pc[p] # "idle" /\ cmd[p].op = "grant" => Pair(cmd[p]) \in allowed
    /\ pc[p] # "idle" => owed[p] \subseteq (IF cmd[p].op = "revoke" THEN {Pair(cmd[p])} ELSE {})
    /\ cmd[p].op = "revoke" =>
          /\ pc[p] \in {"save", "save2"} => Pair(cmd[p]) \notin Perms(mem[p])
          /\ pc[p] \in {"loadperms", "saveperms", "saveperms2"} => Pair(cmd[p]) \notin Perms(db.of)
          /\ pc[p] \in {"saveperms", "saveperms2"} => Pair(cmd[p]) \notin gmem[p]

DenyInv == TypeOK /\ DefaultDeny /\ \A p \in Proc : CopyInv(p) /\ DenyPart(p)

\* What the manifests list and the grants lack is what the running grant adds.
Mine(p) == IF cmd[p].op = "grant" THEN {Pair(cmd[p])} ELSE {}

AgreePart(p) ==
    /\ IF pc[p] \in {"fillperms", "saveperms2"} THEN grants.is = "blank" ELSE ~Damaged(grants)
    /\ pc[p] = "makeperms" => grants.is # "whole"
    /\ pc[p] \notin {"save2", "loadperms", "saveperms", "saveperms2"} => Perms(db.of) \subseteq grants.of
    /\ pc[p] \in {"save", "save2"} => Perms(mem[p]) \subseteq grants.of \union Mine(p)
    /\ pc[p] = "loadperms" => Perms(db.of) \subseteq grants.of \union Mine(p)
    /\ pc[p] \in {"saveperms", "saveperms2"} => Perms(db.of) \subseteq gmem[p]

AgreeInv ==
    /\ DenyInv
    /\ grants.is # "whole" => grants.of = {}
    /\ ~failed => \A p \in Proc : AgreePart(p)

\* A copy is in use only between the step that makes it and its write.
LEMMA CopyStep ==
    ASSUME TypeOK, NEW p \in Proc, CopyInv(p),
           Begin(p) \/ Step(p) \/ ShortWrite(p) \/ Kill(p)
    PROVE  CopyInv(p)'
<1>1. CASE Begin(p) \/ LayoutDb(p) \/ LayoutPerms(p)
    BY <1>1 DEF TypeOK, CopyInv, Begin, LayoutDb, LayoutPerms, Go, DropMem, DropGmem
<1>2. CASE TruncateDb(p) \/ TruncatePerms(p)
    BY <1>2 DEF TypeOK, CopyInv, TruncateDb, TruncatePerms, Go
<1>3. CASE FillDb(p) \/ FillPerms(p)
    BY <1>3 DEF TypeOK, CopyInv, FillDb, FillPerms, Go, DropMem, DropGmem
<1>4. CASE Load(p)
    <2>1. pc[p] = "load" /\ mem[p] = EmptyDb /\ gmem[p] = {}
        BY <1>4 DEF CopyInv, Load, Go
    <2>2. /\ \/ pc'[p] = "save"
             \/ mem' = mem /\ pc'[p] \in {"idle", "loadperms"}
          /\ pc'[p] = "loadperms" => cmd[p].op = "revoke"
          /\ UNCHANGED <<gmem, cmd>>
        BY <1>4 DEF TypeOK, Load, Go
    <2> QED
        BY <2>1, <2>2 DEF CopyInv
<1>5. CASE LoadPerms(p)
    BY <1>5 DEF TypeOK, CopyInv, LoadPerms, Go
<1>6. CASE ShortWrite(p) \/ Kill(p)
    BY <1>6 DEF TypeOK, CopyInv, ShortWrite, Kill, Go, DropMem, DropGmem
<1> QED
    BY <1>1, <1>2, <1>3, <1>4, <1>5, <1>6 DEF Step

\* What a write leaves in a file is what was written, or nothing.
LEMMA OverlayOf ==
    ASSUME NEW f, NEW v, NEW w, NEW g \in Overlay(f, v, w)
    PROVE  g.of \in {v, w} /\ g.is # "missing" /\ (f.is = "blank" => g = Whole(v))
BY DEF Overlay, Whole, NoText

\* One command at a time keeps DenyInv.
LEMMA DenyStep ==
    ASSUME Solo, DenyInv, NEW p \in Proc, Begin(p) \/ Step(p) \/ ShortWrite(p) \/ Kill(p)
    PROVE  DenyInv'
<1>0. /\ TypeOK /\ DefaultDeny /\ CopyInv(p) /\ DenyPart(p) /\ \A q \in Proc : q = p
      /\ Perms(EmptyDb) = {}
    BY NoPerms DEF DenyInv, Solo
<1>1. TypeOK' /\ CopyInv(p)'
    BY <1>0, CopyStep, StepType
<1>2. SUFFICES DefaultDeny' /\ DenyPart(p)'
    BY <1>0, <1>1 DEF DenyInv
<1>3. /\ db.of \in Db /\ cmd[p] \in Command
      /\ NoText("blank", EmptyDb).of = EmptyDb /\ NoText("torn", EmptyDb).of = EmptyDb
      /\ NoText("blank", {}).of = {} /\ NoText("torn", {}).of = {}
    BY <1>0, CommandsAssumption DEF TypeOK, Files, NoText
<1>4. CASE Begin(p)
    <2>1. PICK c \in Commands :
             /\ cmd' = [cmd EXCEPT ![p] = c]
             /\ allowed' = IF c.op = "grant" THEN allowed \union {Pair(c)} ELSE allowed
             /\ \/ c.op = "grant" /\ owed' = [q \in Proc |-> IF q = p THEN {} ELSE owed[q] \ {Pair(c)}]
                \/ c.op = "revoke" /\ owed' = [owed EXCEPT ![p] = {Pair(c)}]
                \/ owed' = [owed EXCEPT ![p] = {}]
        BY <1>4 DEF Begin
    <2>2. /\ cmd'[p] = c /\ pc'[p] = "layout" /\ mem[p] = EmptyDb /\ gmem[p] = {}
          /\ UNCHANGED <<db, grants, mem, gmem>>
        BY <1>0, <1>4, <2>1 DEF Begin, Go, TypeOK, CopyInv
    <2>3. owed'[p] \subseteq IF c.op = "revoke" THEN {Pair(c)} ELSE {}
        BY <1>0, <2>1 DEF TypeOK
    <2>4. DefaultDeny'
        BY <1>0, <2>1, <2>2 DEF DefaultDeny
    <2>5. DenyPart(p)'
        BY <1>0, <2>1, <2>2, <2>3 DEF DenyPart
    <2> QED
        BY <2>4, <2>5
<1>5. CASE LayoutDb(p) \/ LayoutPerms(p)
    BY <1>0, <1>5 DEF TypeOK, DefaultDeny, DenyPart, CopyInv, LayoutDb, LayoutPerms, Go, DropMem, DropGmem
<1>6. CASE TruncateDb(p) \/ TruncatePerms(p)
    BY <1>0, <1>3, <1>6 DEF TypeOK, DefaultDeny, DenyPart, CopyInv, TruncateDb, TruncatePerms, Go
<1>7. CASE FillDb(p)
    <2>1. db'.of = mem[p] \/ db'.of = EmptyDb
        BY <1>7, OverlayOf DEF FillDb
    <2>2. mem'[p] = EmptyDb /\ UNCHANGED <<grants, cmd, gmem, allowed, owed>>
        BY <1>0, <1>7 DEF FillDb, DropMem, TypeOK
    <2>3. /\ pc[p] # "idle" /\ gmem[p] = {}
          /\ pc[p] = "save2" \/ pc'[p] = "layout2"
          /\ pc'[p] \notin {"save", "save2", "saveperms", "saveperms2"}
        BY <1>0, <1>7 DEF FillDb, Go, TypeOK, CopyInv
    <2> QED
        BY <1>0, <2>1, <2>2, <2>3 DEF DefaultDeny, DenyPart
<1>8. CASE Load(p)
    <2>1. \/ /\ mem' = mem /\ pc'[p] \in {"idle", "loadperms"}
             /\ pc'[p] = "loadperms" => cmd[p].op = "revoke" /\ Edited(db.of, cmd[p]) = {}
          \/ /\ pc'[p] = "save"
             /\ \E d \in Edited(db.of, cmd[p]) : mem' = [mem EXCEPT ![p] = d]
        BY <1>0, <1>8 DEF Load, Go, TypeOK
    <2>2. pc[p] = "load" /\ UNCHANGED <<db, grants, cmd, gmem, allowed, owed>>
        BY <1>8 DEF Load, Go
    <2>3. CASE mem' = mem /\ pc'[p] \in {"idle", "loadperms"}
        BY <1>0, <1>3, <2>1, <2>2, <2>3, NothingToRevoke DEF DefaultDeny, DenyPart
    <2>4. CASE pc'[p] = "save"
        <3>1. PICK d \in Edited(db.of, cmd[p]) : mem' = [mem EXCEPT ![p] = d]
            BY <2>1, <2>4
        <3>2. /\ Perms(d) \subseteq Perms(db.of) \union (IF cmd[p].op = "grant" THEN {Pair(cmd[p])} ELSE {})
              /\ cmd[p].op = "revoke" => Pair(cmd[p]) \notin Perms(d)
            BY <1>3, EditedPerms
        <3>3. mem'[p] = d
            BY <1>0, <3>1 DEF TypeOK
        <3> QED
            BY <1>0, <2>2, <2>4, <3>2, <3>3 DEF DefaultDeny, DenyPart
    <2> QED
        BY <2>1, <2>3, <2>4
<1>9. CASE LoadPerms(p)
    <2>1. /\ pc[p] = "loadperms" /\ UNCHANGED <<db, grants, cmd, mem, allowed, owed>>
          /\ \/ pc'[p] = "idle" /\ gmem' = gmem
             \/ pc'[p] = "saveperms" /\ gmem'[p] = Regranted(grants.of, cmd[p])
        BY <1>0, <1>9 DEF LoadPerms, Go, TypeOK
    <2> QED
        BY <1>0, <2>1 DEF DefaultDeny, DenyPart, CopyInv, Regranted
<1>10. CASE FillPerms(p)
    <2>1. /\ grants'.of = gmem[p] \/ grants'.of = {}
          /\ gmem'[p] = {} /\ UNCHANGED <<db, cmd, mem, owed>>
        BY <1>0, <1>10, OverlayOf DEF FillPerms, DropGmem, TypeOK
    <2>2. /\ mem[p] = EmptyDb
          /\ \/ pc[p] = "fillperms" /\ pc'[p] = "load" /\ allowed' = allowed
             \/ pc[p] = "saveperms2" /\ pc'[p] = "idle" /\ allowed' = allowed \ owed[p]
        BY <1>0, <1>10 DEF FillPerms, Go, TypeOK, CopyInv
    <2> QED
        BY <1>0, <2>1, <2>2 DEF DefaultDeny, DenyPart
<1>11. CASE ShortWrite(p) \/ Kill(p)
    <2>1. /\ db'.of = db.of \/ db'.of = EmptyDb
          /\ grants'.of = grants.of \/ grants'.of = {}
          /\ mem'[p] = EmptyDb /\ gmem'[p] = {} /\ pc'[p] = "idle"
          /\ UNCHANGED <<cmd, allowed, owed>>
        BY <1>0, <1>3, <1>11 DEF ShortWrite, Kill, Go, DropMem, DropGmem, TypeOK
    <2> QED
        BY <1>0, <2>1 DEF DefaultDeny, DenyPart
<1> QED
    BY <1>4, <1>5, <1>6, <1>7, <1>8, <1>9, <1>10, <1>11 DEF Step

\* Default deny, if commands run one at a time: whatever they are and wherever
\* they are killed, a listed permission was granted and not revoked since.
THEOREM DenyByDefault == ASSUME Solo PROVE Spec => []DefaultDeny
<1>1. Init => DenyInv
    <2> SUFFICES ASSUME Init PROVE DenyInv
        OBVIOUS
    <2>1. TypeOK
        BY InitType
    <2>2. db.of = EmptyDb /\ grants.of = {}
        BY DEF Init, NoText
    <2> QED
        BY <2>1, <2>2, NoPerms DEF Init, DenyInv, DefaultDeny, CopyInv, DenyPart
<1>2. DenyInv /\ [Next]_vars => DenyInv'
    <2>1. ASSUME DenyInv, Next PROVE DenyInv'
        BY <2>1, DenyStep DEF Next
    <2>2. ASSUME DenyInv, UNCHANGED vars PROVE DenyInv'
        BY <2>2 DEF DenyInv, TypeOK, DefaultDeny, CopyInv, DenyPart, vars
    <2> QED
        BY <2>1, <2>2
<1>3. DenyInv => DefaultDeny
    BY DEF DenyInv
<1> QED
    BY <1>1, <1>2, <1>3, PTL DEF Spec

\* One command at a time keeps AgreeInv.
LEMMA AgreeStep ==
    ASSUME Solo, AgreeInv, NEW p \in Proc, Begin(p) \/ Step(p) \/ ShortWrite(p) \/ Kill(p)
    PROVE  AgreeInv'
<1>0. /\ TypeOK /\ CopyInv(p) /\ DenyPart(p) /\ \A q \in Proc : q = p
      /\ Perms(EmptyDb) = {}
      /\ (grants.is # "whole" => grants.of = {})
    BY NoPerms DEF AgreeInv, DenyInv, Solo
<1>1. DenyInv'
    BY DenyStep DEF AgreeInv
<1>2. (grants.is # "whole" => grants.of = {})'
    <2>1. CASE FillPerms(p)
        <3>1. grants' = Whole(gmem[p]) \/ grants' = NoText("torn", {})
            BY <2>1 DEF FillPerms, Overlay
        <3> QED
            BY <3>1 DEF Whole, NoText
    <2>2. CASE TruncatePerms(p) \/ ShortWrite(p)
        BY <1>0, <2>2 DEF TruncatePerms, ShortWrite, NoText
    <2>3. CASE grants' = grants
        BY <1>0, <2>3
    <2> QED
        BY <2>1, <2>2, <2>3 DEF Begin, Step, Kill, LayoutDb, LayoutPerms, TruncateDb, FillDb, Load,
                                LoadPerms
<1>3. failed' = failed \/ (failed' = TRUE /\ (ShortWrite(p) \/ Kill(p)))
    BY DEF Begin, Step, ShortWrite, Kill, LayoutDb, LayoutPerms, TruncateDb, FillDb, Load,
           LoadPerms, TruncatePerms, FillPerms
<1>4. SUFFICES ASSUME ~failed, ~ShortWrite(p), ~Kill(p) PROVE AgreePart(p)'
    BY <1>0, <1>1, <1>2, <1>3 DEF AgreeInv, ShortWrite, Kill
<1>5. AgreePart(p)
    BY <1>4 DEF AgreeInv
<1>6. db.of \in Db /\ cmd[p] \in Command
    BY <1>0, CommandsAssumption DEF TypeOK, Files
<1>7. CASE Begin(p) \/ LayoutDb(p) \/ LayoutPerms(p)
    BY <1>0, <1>5, <1>7 DEF TypeOK, AgreePart, CopyInv, Begin, LayoutDb, LayoutPerms, Go,
                            DropMem, DropGmem, Damaged, Mine
<1>8. CASE TruncateDb(p)
    <2>1. /\ \/ pc[p] = "makedb" /\ pc'[p] = "filldb"
             \/ pc[p] = "save" /\ pc'[p] = "save2"
          /\ db'.of = EmptyDb /\ UNCHANGED <<grants, cmd, mem, gmem>>
        BY <1>0, <1>8 DEF TruncateDb, Go, TypeOK, NoText
    <2> QED
        BY <1>0, <1>5, <2>1 DEF AgreePart, Mine, Damaged
<1>9. CASE TruncatePerms(p)
    <2>1. /\ \/ pc[p] = "makeperms" /\ pc'[p] = "fillperms"
             \/ pc[p] = "saveperms" /\ pc'[p] = "saveperms2"
          /\ grants'.is = "blank" /\ grants'.of = {} /\ UNCHANGED <<db, cmd, mem, gmem>>
        BY <1>0, <1>9 DEF TruncatePerms, Go, TypeOK, NoText
    <2> QED
        BY <1>0, <1>5, <2>1 DEF AgreePart, Mine
<1>10. CASE FillDb(p)
    <2>1. db'.of = mem[p] \/ db'.of = EmptyDb
        BY <1>10, OverlayOf DEF FillDb
    <2>2. mem'[p] = EmptyDb /\ UNCHANGED <<grants, cmd, gmem>>
        BY <1>0, <1>10 DEF FillDb, DropMem, TypeOK
    <2>3. \/ pc[p] = "filldb" /\ pc'[p] = "layout2" /\ mem[p] = EmptyDb
          \/ pc[p] = "save2" /\ pc'[p] = "loadperms"
          \/ pc[p] = "save2" /\ pc'[p] = "idle" /\ cmd[p].op \notin {"grant", "revoke"}
        <3>1. pc' = [pc EXCEPT ![p] = "layout2"] /\ pc[p] = "filldb" => mem[p] = EmptyDb
            BY <1>0 DEF CopyInv
        <3> QED
            BY <1>0, <1>10, <3>1 DEF FillDb, Go, TypeOK
    <2> QED
        BY <1>0, <1>5, <2>1, <2>2, <2>3 DEF AgreePart, Mine, Damaged
<1>11. CASE Load(p)
    <2>1. \/ mem' = mem /\ pc'[p] \in {"idle", "loadperms"}
          \/ /\ pc'[p] = "save"
             /\ \E d \in Edited(db.of, cmd[p]) : mem' = [mem EXCEPT ![p] = d]
        BY <1>0, <1>11 DEF Load, Go, TypeOK
    <2>2. pc[p] = "load" /\ UNCHANGED <<db, grants, cmd, gmem>>
        BY <1>11 DEF Load, Go
    <2>3. CASE mem' = mem /\ pc'[p] \in {"idle", "loadperms"}
        BY <1>5, <2>2, <2>3 DEF AgreePart, Mine, Damaged
    <2>4. CASE pc'[p] = "save"
        <3>1. PICK d \in Edited(db.of, cmd[p]) : mem' = [mem EXCEPT ![p] = d]
            BY <2>1, <2>4
        <3>2. Perms(d) \subseteq Perms(db.of) \union Mine(p) /\ mem'[p] = d
            BY <1>0, <1>6, <3>1, EditedPerms DEF Mine, TypeOK
        <3> QED
            BY <1>5, <2>2, <2>4, <3>2 DEF AgreePart, Mine, Damaged
    <2> QED
        BY <2>1, <2>3, <2>4
<1>12. CASE LoadPerms(p)
    <2>1. /\ pc[p] = "loadperms" /\ UNCHANGED <<db, grants, cmd, mem>>
          /\ \/ Damaged(grants)
             \/ pc'[p] = "saveperms" /\ gmem'[p] = Regranted(grants.of, cmd[p])
        BY <1>0, <1>12 DEF LoadPerms, Go, TypeOK
    <2>2. ~Damaged(grants) /\ cmd[p].op \in {"grant", "revoke"}
        BY <1>0, <1>5, <2>1 DEF AgreePart, CopyInv
    <2>3. Perms(db.of) \subseteq gmem'[p]
        BY <1>0, <1>5, <2>1, <2>2 DEF AgreePart, DenyPart, Mine, Regranted
    <2> QED
        BY <2>1, <2>2, <2>3 DEF AgreePart
<1>13. CASE FillPerms(p)
    <2>1. grants.is = "blank" /\ pc[p] \in {"fillperms", "saveperms2"}
        BY <1>5, <1>13 DEF AgreePart, FillPerms, Go
    <2>2. grants' = Whole(gmem[p]) /\ UNCHANGED <<db, cmd, mem>>
        BY <1>13, <2>1, OverlayOf DEF FillPerms
    <2>3. /\ mem[p] = EmptyDb
          /\ \/ pc[p] = "fillperms" /\ pc'[p] = "load"
             \/ pc[p] = "saveperms2" /\ pc'[p] = "idle"
        BY <1>0, <1>13 DEF FillPerms, Go, TypeOK, CopyInv
    <2>4. grants.of = {}
        BY <1>0, <2>1
    <2>5. Perms(db.of) \subseteq gmem[p]
        BY <1>5, <2>1, <2>4 DEF AgreePart
    <2> QED
        BY <2>2, <2>3, <2>5, <1>0 DEF AgreePart, Whole, Damaged
<1> QED
    BY <1>4, <1>7, <1>8, <1>9, <1>10, <1>11, <1>12, <1>13 DEF Step

\* Between commands that all came to their end, what a manifest lists is
\* granted, if commands run one at a time.
THEOREM AgreementHolds ==
    ASSUME Solo, Proc # {} PROVE Spec => []FilesAgree
<1>1. Init => AgreeInv
    <2> SUFFICES ASSUME Init PROVE AgreeInv
        OBVIOUS
    <2>1. /\ TypeOK /\ db.of = EmptyDb /\ grants.of = {} /\ grants.is = "missing"
          /\ \A p \in Proc : pc[p] = "idle" /\ mem[p] = EmptyDb /\ gmem[p] = {} /\ owed[p] = {}
        BY InitType DEF Init, NoText
    <2> QED
        BY <2>1, NoPerms DEF AgreeInv, AgreePart, DenyInv, DefaultDeny, CopyInv, DenyPart, Damaged
<1>2. AgreeInv /\ [Next]_vars => AgreeInv'
    <2>1. ASSUME AgreeInv, Next PROVE AgreeInv'
        BY <2>1, AgreeStep DEF Next
    <2>2. ASSUME AgreeInv, UNCHANGED vars PROVE AgreeInv'
        BY <2>2 DEF AgreeInv, AgreePart, DenyInv, TypeOK, DefaultDeny, CopyInv, DenyPart, Mine,
                    Damaged, vars
    <2> QED
        BY <2>1, <2>2
<1>3. AgreeInv => FilesAgree
    BY DEF AgreeInv, AgreePart, FilesAgree, AllIdle
<1> QED
    BY <1>1, <1>2, <1>3, PTL DEF Spec
===============================================================================
