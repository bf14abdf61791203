--------------------------- MODULE FileToolsProofs ---------------------------
(***************************************************************************)
(* atomicWrite never shows a torn file, for any number of concurrent       *)
(* calls, of temporary names and of crashes.  WholeOrNothing alone is not  *)
(* inductive: what a call renames is its own inode because O_EXCL keeps a  *)
(* name in use from being taken, and what the file links to stays whole    *)
(* because its call has written and synced it and is past its rename.      *)
(***************************************************************************)
EXTENDS FileTools, TLAPS

\* Where a call's inode is under its temporary name.
Holding == {"write", "sync", "rename"}

\* Past the rename, if there was one.
Gone == {"close", "mark", "cleanup", "ok", "error", "left", "dead"}

\* Where data[c] is what the call has read or is going to install.
Loaded == {"compute", "mark", "name", "create", "close"} \cup Holding

HasName == \A c \in Calls :
    /\ pc[c] \in {"create", "close", "cleanup"} \cup Holding => tmpOf[c] \in Names
    /\ pc[c] \in Holding => tmp[tmpOf[c]] # Litter

HasData == \A c \in Calls : pc[c] \in Loaded => data[c] \in Contents

LinkHasData == \A c \in Calls :
    (c = file \/ c = disk.file \/ \E n \in Names : tmp[n] = c)
       => pc[c] \in Holding \cup Gone /\ data[c] \in Contents

WholeData == \A c \in Calls : pc[c] \in Loaded => data[c].base # Torn

Keeps == \A c \in Calls : pc[c] \in Holding => tmp[tmpOf[c]] = c

Synced == \A c \in Calls :
    /\ pc[c] = "sync" => inode[c] = "whole"
    /\ pc[c] = "rename" => inode[c] = "synced"

WholeFiles == \A c \in Calls :
    (c = file \/ c = disk.file) => pc[c] \in Gone /\ inode[c] = "synced" /\ data[c].base # Torn

Sound == WholeData /\ Keeps /\ Synced /\ WholeFiles

IInv == TypeOK /\ HasName /\ HasData /\ LinkHasData /\ TmpsAreOwned /\ (crossed \/ Sound)

-----------------------------------------------------------------------------
\* A text written whole is a content.
LEMMA PlainType == \A b \in Calls \cup {Original, Foreign, Torn} :
                      Plain(b) \in Contents /\ Plain(b) # NoFile /\ Plain(b).base = b
BY ContentAssumption DEF Plain, Contents

\* What a name of the file leads to is a content or nothing.
LEMMA TextType ==
    ASSUME TypeOK, NEW i \in Links, i \in Calls => data[i] \in Contents
    PROVE  /\ TextOf(i) \in Contents \cup {NoFile}
           /\ TextOf(i) = NoFile <=> i = NoFile
<1>1. CASE i = NoFile
  <2>1. TextOf(i) = NoFile  BY <1>1, FileAssumption DEF TextOf
  <2>. QED  BY <1>1, <2>1
<1>2. CASE i \in Calls
  <2>1. i # NoFile  BY <1>2, FileAssumption
  <2>2. TextOf(i) = IF inode[i] = "partial" THEN Plain(Torn) ELSE data[i]  BY <1>2, <2>1 DEF TextOf
  <2>. QED  BY <1>2, <2>1, <2>2, PlainType, ContentAssumption
<1>3. CASE i \in {Original, Foreign}
  <2>1. i # NoFile /\ i \notin Calls  BY <1>3, FileAssumption
  <2>2. TextOf(i) = Plain(i)  BY <2>1 DEF TextOf
  <2>. QED  BY <1>3, <2>1, <2>2, PlainType
<1>. QED  BY <1>1, <1>2, <1>3 DEF Links

\* What a sound file holds.
LEMMA WholeText ==
    ASSUME IInv, ~crossed, NEW i \in {file, disk.file}
    PROVE  /\ i \in Links
           /\ TextOf(i) \in Contents \cup {NoFile}
           /\ TextOf(i) = NoFile <=> i = NoFile
           /\ i \in Calls => TextOf(i) = data[i]
           /\ ~IsTorn(i)
<1>1. i \in Links  BY DEF IInv, TypeOK
<1>2. i \in Calls => data[i] \in Contents /\ inode[i] = "synced" /\ data[i].base # Torn /\ i # NoFile
  BY FileAssumption DEF IInv, LinkHasData, Sound, WholeFiles
<1>3. i \in Calls => TextOf(i) = data[i]  BY <1>2 DEF TextOf
<1>4. ~IsTorn(i)
  <2>1. CASE i \in Calls \/ i = NoFile  BY <2>1, <1>2, <1>3 DEF IsTorn
  <2>2. CASE i \in {Original, Foreign} /\ i \notin Calls /\ i # NoFile
    <3>1. TextOf(i) = Plain(i)  BY <2>2 DEF TextOf
    <3>. QED  BY <2>2, <3>1, PlainType, FileAssumption DEF IsTorn
  <2>. QED  BY <1>1, <2>1, <2>2 DEF Links
<1>. QED  BY <1>1, <1>2, <1>3, <1>4, TextType DEF IInv

\* The invariant gives the property.
LEMMA WholeFromIInv == IInv => WholeOrNothing
<1>. SUFFICES ASSUME IInv, ~crossed PROVE WholeOrNothing  BY DEF WholeOrNothing
<1>1. ~IsTorn(file) /\ ~IsTorn(disk.file)  BY WholeText
<1>2. \A c \in Calls : pc[c] = "rename" => tmp[tmpOf[c]] = c /\ inode[c] = "synced"
  BY DEF IInv, Sound, Keeps, Synced, Holding
<1>. QED  BY <1>1, <1>2 DEF WholeOrNothing

\* The invariant holds initially: no call is under way.
LEMMA InitIInv == Init => IInv
<1>. SUFFICES ASSUME Init PROVE IInv  OBVIOUS
<1>1. TypeOK
  BY DEF Init, TypeOK, Links
<1>2. \A c \in Calls : pc[c] = "idle"  BY DEF Init
<1>3. /\ \A n \in Names : tmp[n] \notin Calls
      /\ file \notin Calls /\ disk.file \notin Calls
  BY FileAssumption DEF Init
<1>4. HasName /\ HasData  BY <1>2 DEF HasName, HasData, Holding, Loaded
<1>5. LinkHasData /\ TmpsAreOwned  BY <1>3 DEF LinkHasData, TmpsAreOwned
<1>6. Sound  BY <1>2, <1>3 DEF Sound, WholeData, Keeps, Synced, WholeFiles, Holding, Loaded
<1>. QED  BY <1>1, <1>4, <1>5, <1>6 DEF IInv

\* A call that moves without touching a file: the steps before atomicWrite
\* creates its file, the failures, and those after the rename.
LEMMA QuietStep ==
    ASSUME IInv, NEW c \in Calls, NEW l, GoesTo(c, l), TypeOK',
           UNCHANGED <<file, tmp, inode, disk, crossed>>,
           \A d \in Calls \ {c} : data'[d] = data[d] /\ tmpOf'[d] = tmpOf[d],
           l \notin Holding,
           l \in {"create", "close", "cleanup"} => tmpOf'[c] \in Names,
           l \in Loaded => data'[c] \in Contents /\ (crossed \/ data'[c].base # Torn),
           pc[c] \in Holding \cup Gone
              => l \in Gone /\ data'[c] = data[c] /\ tmpOf'[c] = tmpOf[c],
           (\E n \in Names : tmp[n] = c) => l \in {"cleanup", "left"}
    PROVE  IInv'
<1>1. /\ pc'[c] = l
      /\ \A d \in Calls \ {c} : pc'[d] = pc[d]
  BY DEF IInv, TypeOK, GoesTo
<1>2. HasName'  BY <1>1 DEF IInv, HasName
<1>3. HasData'  BY <1>1 DEF IInv, HasData
<1>4. LinkHasData'  BY <1>1 DEF IInv, LinkHasData
<1>5. TmpsAreOwned'
  <2>. SUFFICES ASSUME NEW n \in Names, tmp'[n] \in Calls
                PROVE  tmpOf'[tmp'[n]] = n
                       /\ pc'[tmp'[n]] \in {"write", "sync", "rename", "cleanup", "left"}
    BY DEF TmpsAreOwned
  <2>1. /\ tmp'[n] = tmp[n] /\ tmpOf[tmp[n]] = n
        /\ pc[tmp[n]] \in {"write", "sync", "rename", "cleanup", "left"}
    BY DEF IInv, TmpsAreOwned
  <2>2. CASE tmp[n] = c  BY <2>1, <2>2, <1>1 DEF Holding, Gone
  <2>3. CASE tmp[n] # c  BY <2>1, <2>3, <1>1
  <2>. QED  BY <2>2, <2>3
<1>6. ASSUME ~crossed PROVE Sound'
  <2>. USE <1>1, <1>6 DEF IInv, Sound
  <2>1. WholeData'  BY DEF WholeData
  <2>2. Keeps'  BY DEF Keeps
  <2>3. Synced'  BY DEF Synced, Holding
  <2>4. WholeFiles'  BY DEF WholeFiles
  <2>. QED  BY <2>1, <2>2, <2>3, <2>4
<1>. QED  BY <1>2, <1>3, <1>4, <1>5, <1>6 DEF IInv

\* The steps up to atomicWrite.
LEMMA PrepareStep ==
    ASSUME IInv, NEW c \in Calls,
           Begin(c) \/ Stat(c) \/ Gate(c) \/ Open(c) \/ Compute(c) \/ Mkdir(c) \/ TmpName(c)
    PROVE  IInv'
<1>. USE DEF GoesTo, still
<1>t. TypeOK  BY DEF IInv
<1>u. UNCHANGED <<file, tmp, inode, disk, crossed>>
  BY DEF Begin, Stat, Gate, Open, Compute, Mkdir, TmpName
<1>p. pc[c] \in {"idle", "stat", "gate", "open", "compute", "mkdir", "name"}
  BY DEF Begin, Stat, Gate, Open, Compute, Mkdir, TmpName
<1>n. pc[c] \notin Holding \cup Gone /\ ~ \E n \in Names : tmp[n] = c
  BY <1>p DEF IInv, TmpsAreOwned, Holding, Gone
<1>1. CASE Begin(c)
  <2>1. TypeOK'  BY <1>1, <1>t DEF Begin, TypeOK
  <2>2. GoesTo(c, "stat") /\ UNCHANGED <<data, tmpOf>>  BY <1>1 DEF Begin
  <2>. QED  BY <2>1, <2>2, <1>u, <1>n, QuietStep DEF Loaded, Holding
<1>2. CASE Stat(c)
  <2>1. PICK l \in {"open", "gate", "mkdir", "error"} : GoesTo(c, l)  BY <1>2 DEF Stat
  <2>2. blind' \subseteq Calls /\ UNCHANGED <<tracker, op, data, tmpOf, known>>
    BY <1>2, <1>t DEF Stat, TypeOK
  <2>3. TypeOK'  BY <2>1, <2>2, <1>u, <1>t DEF TypeOK
  <2>. QED  BY <2>1, <2>2, <2>3, <1>u, <1>n, QuietStep DEF Loaded, Holding
<1>3. CASE Gate(c)
  <2>. DEFINE l == CASE ~tracker -> "error"
                     [] tracker /\ op[c] = "Write" -> "mkdir"
                     [] OTHER -> "open"
  <2>1. l \in {"mkdir", "error", "open"}  OBVIOUS
  <2>2. GoesTo(c, l) /\ UNCHANGED <<tracker, data, tmpOf, known, still>>  BY <1>3 DEF Gate
  <2>. HIDE DEF l
  <2>3. TypeOK'  BY <2>1, <2>2, <1>u, <1>t DEF TypeOK
  <2>. QED  BY <2>1, <2>2, <2>3, <1>u, <1>n, QuietStep DEF Loaded, Holding
<1>4. CASE Open(c)
  <2>0. UNCHANGED <<tracker, tmpOf, known, still>>  BY <1>4 DEF Open
  <2>1. CASE GoesTo(c, "error") /\ UNCHANGED data
    <3>1. TypeOK'  BY <2>0, <2>1, <1>u, <1>t DEF TypeOK
    <3>. QED  BY <2>0, <2>1, <3>1, <1>u, <1>n, QuietStep DEF Loaded, Holding
  <2>2. CASE /\ file # NoFile
             /\ data' = [data EXCEPT ![c] = TextOf(file)]
             /\ GoesTo(c, IF op[c] = "Read" THEN "mark" ELSE "compute")
    <3>1. PICK l \in {"mark", "compute"} : GoesTo(c, l)  BY <2>2
    <3>2. TextOf(file) \in Contents
      BY <2>2, <1>t, TextType DEF IInv, LinkHasData, TypeOK
    <3>3. crossed \/ TextOf(file).base # Torn  BY <2>2, WholeText DEF IsTorn
    <3>4. data' \in [Calls -> Contents \cup {NoFile}]  BY <2>2, <3>2, <1>t DEF TypeOK
    <3>5. TypeOK'  BY <2>0, <3>1, <3>4, <1>u, <1>t DEF TypeOK
    <3>6. data'[c] = TextOf(file) /\ \A d \in Calls \ {c} : data'[d] = data[d]
      BY <2>2, <1>t DEF TypeOK
    <3>7. l \notin Holding \cup {"create", "close", "cleanup"}  BY <3>1 DEF Holding
    <3>. QED  BY <2>0, <3>1, <3>2, <3>3, <3>5, <3>6, <3>7, <1>u, <1>n, QuietStep
  <2>. QED  BY <1>4, <2>1, <2>2 DEF Open
<1>5. CASE Compute(c)
  <2>0. UNCHANGED <<tracker, tmpOf, known, still>>  BY <1>5 DEF Compute
  <2>1. data[c] \in Contents /\ (crossed \/ data[c].base # Torn)
    BY <1>5 DEF IInv, HasData, Sound, WholeData, Loaded, Compute
  <2>2. CASE GoesTo(c, "error") /\ UNCHANGED data
    <3>1. TypeOK'  BY <2>0, <2>2, <1>u, <1>t DEF TypeOK
    <3>. QED  BY <2>0, <2>2, <3>1, <1>u, <1>n, QuietStep DEF Loaded, Holding
  <2>3. CASE GoesTo(c, "name") /\ data' = [data EXCEPT ![c] = WithEdit(data[c], c)]
    <3>1. WithEdit(data[c], c) \in Contents /\ WithEdit(data[c], c).base = data[c].base
      BY <2>1 DEF Contents, WithEdit
    <3>2. data'[c] = WithEdit(data[c], c) /\ \A d \in Calls \ {c} : data'[d] = data[d]
      BY <2>3, <1>t DEF TypeOK
    <3>3. data' \in [Calls -> Contents \cup {NoFile}]  BY <2>3, <3>1, <1>t DEF TypeOK
    <3>4. TypeOK'  BY <2>0, <2>3, <3>3, <1>u, <1>t DEF TypeOK
    <3>. QED  BY <2>0, <2>1, <2>3, <3>1, <3>2, <3>4, <1>u, <1>n, QuietStep DEF Holding
  <2>. QED  BY <1>5, <2>2, <2>3 DEF Compute
<1>6. CASE Mkdir(c)
  <2>0. UNCHANGED <<tracker, tmpOf, known, still>>  BY <1>6 DEF Mkdir
  <2>1. CASE GoesTo(c, "error") /\ UNCHANGED data
    <3>1. TypeOK'  BY <2>0, <2>1, <1>u, <1>t DEF TypeOK
    <3>. QED  BY <2>0, <2>1, <3>1, <1>u, <1>n, QuietStep DEF Loaded, Holding
  <2>2. CASE GoesTo(c, "name") /\ data' = [data EXCEPT ![c] = Plain(c)]
    <3>1. data'[c] = Plain(c) /\ \A d \in Calls \ {c} : data'[d] = data[d]  BY <2>2, <1>t DEF TypeOK
    <3>2. Plain(c) \in Contents /\ Plain(c).base # Torn  BY PlainType, FileAssumption
    <3>3. data' \in [Calls -> Contents \cup {NoFile}]  BY <2>2, <3>2, <1>t DEF TypeOK
    <3>4. TypeOK'  BY <2>0, <2>2, <3>3, <1>u, <1>t DEF TypeOK
    <3>. QED  BY <2>0, <2>2, <3>1, <3>2, <3>4, <1>u, <1>n, QuietStep DEF Holding
  <2>. QED  BY <1>6, <2>1, <2>2 DEF Mkdir
<1>7. CASE TmpName(c)
  <2>1. PICK n \in Names : tmpOf' = [tmpOf EXCEPT ![c] = n]  BY <1>7 DEF TmpName
  <2>2. TypeOK'  BY <1>7, <2>1, <1>t DEF TmpName, TypeOK
  <2>3. tmpOf'[c] = n /\ \A d \in Calls \ {c} : tmpOf'[d] = tmpOf[d]  BY <2>1, <1>t DEF TypeOK
  <2>4. data[c] \in Contents /\ (crossed \/ data[c].base # Torn)
    BY <1>7 DEF IInv, HasData, Sound, WholeData, Loaded, TmpName
  <2>5. GoesTo(c, "create") /\ UNCHANGED data  BY <1>7 DEF TmpName
  <2>. QED  BY <2>2, <2>3, <2>4, <2>5, <1>u, <1>n, QuietStep DEF Holding
<1>. QED  BY <1>1, <1>2, <1>3, <1>4, <1>5, <1>6, <1>7

\* The failures of atomicWrite, and the steps after the rename.
LEMMA AfterStep ==
    ASSUME IInv, NEW c \in Calls, NEW l, GoesTo(c, l),
           UNCHANGED <<file, tmp, inode, disk, op, data, tmpOf, blind, crossed>>,
           tracker' \in BOOLEAN, known' \subseteq Contents,
           pc[c] \in {"create", "mark", "close", "cleanup"} \cup Holding,
           l \in {"cleanup", "mark", "ok", "error", "left"},
           l = "cleanup" => pc[c] \in Holding \cup {"close"},
           l = "mark" => pc[c] = "close",
           (\E n \in Names : tmp[n] = c) => l \in {"cleanup", "left"}
    PROVE  IInv'
<1>1. TypeOK'  BY DEF IInv, TypeOK, GoesTo
<1>2. l \in {"create", "close", "cleanup"} => tmpOf'[c] \in Names  BY DEF IInv, HasName
<1>3. l \in Loaded => data'[c] \in Contents /\ (crossed \/ data'[c].base # Torn)
  BY DEF IInv, HasData, Sound, WholeData, Loaded, Holding
<1>4. l \notin Holding /\ l \in Gone  BY DEF Holding, Gone
<1>. QED  BY <1>1, <1>2, <1>3, <1>4, QuietStep

\* O_EXCL: the name a call creates its file under was free.
LEMMA CreateStep == ASSUME IInv, NEW c \in Calls, Create(c) PROVE IInv'
<1>. USE DEF GoesTo, still
<1>t. TypeOK  BY DEF IInv
<1>u. UNCHANGED <<file, inode, disk, tracker, op, data, tmpOf, known, blind, crossed>> /\ pc[c] = "create"
  BY DEF Create
<1>n. tmpOf[c] \in Names /\ \A n \in Names : tmp[n] # c
  BY <1>u DEF IInv, HasName, TmpsAreOwned
<1>1. CASE GoesTo(c, "error") /\ UNCHANGED tmp
  <2>1. known' \subseteq Contents /\ tracker' \in BOOLEAN  BY <1>u, <1>t DEF TypeOK
  <2>. QED  BY <1>1, <1>u, <1>n, <2>1, AfterStep
<1>2. CASE tmp[tmpOf[c]] = NoFile /\ tmp' = [tmp EXCEPT ![tmpOf[c]] = c] /\ GoesTo(c, "write")
  <2>1. TypeOK'  BY <1>2, <1>u, <1>t DEF TypeOK
  <2>2. /\ pc'[c] = "write" /\ tmp'[tmpOf[c]] = c
        /\ \A d \in Calls \ {c} : pc'[d] = pc[d]
        /\ \A n \in Names \ {tmpOf[c]} : tmp'[n] = tmp[n]
    BY <1>2, <1>n, <1>t DEF TypeOK
  <2>3. HasName'
    <3>1. c # Litter  BY FileAssumption
    <3>. QED  BY <3>1, <1>u, <1>n, <2>2 DEF IInv, HasName
  <2>4. data[c] \in Contents /\ (crossed \/ data[c].base # Torn)
    BY <1>u DEF IInv, HasData, Sound, WholeData, Loaded
  <2>5. HasData'  BY <1>u, <2>2, <2>4 DEF IInv, HasData
  <2>6. LinkHasData'
    <3>. SUFFICES ASSUME NEW d \in Calls, d = file' \/ d = disk'.file \/ \E n \in Names : tmp'[n] = d
                  PROVE  pc'[d] \in Holding \cup Gone /\ data'[d] \in Contents
      BY DEF LinkHasData
    <3>1. CASE d = c  BY <3>1, <1>u, <2>2, <2>4 DEF Holding
    <3>2. CASE d # c  BY <3>2, <1>u, <2>2 DEF IInv, LinkHasData
    <3>. QED  BY <3>1, <3>2
  <2>7. TmpsAreOwned'
    <3>. SUFFICES ASSUME NEW n \in Names, tmp'[n] \in Calls
                  PROVE  tmpOf'[tmp'[n]] = n
                         /\ pc'[tmp'[n]] \in {"write", "sync", "rename", "cleanup", "left"}
      BY DEF TmpsAreOwned
    <3>1. CASE n = tmpOf[c]  BY <3>1, <1>u, <2>2
    <3>2. CASE n # tmpOf[c]  BY <3>2, <1>u, <1>n, <2>2 DEF IInv, TmpsAreOwned
    <3>. QED  BY <3>1, <3>2
  <2>8. ASSUME ~crossed PROVE Sound'
    <3>. USE <2>8 DEF IInv, Sound
    <3>1. WholeData'  BY <1>u, <2>2, <2>4 DEF WholeData
    <3>2. Keeps'
      <4>1. NoFile \notin Calls  BY FileAssumption
      <4>. QED  BY <4>1, <1>2, <1>u, <2>2 DEF Keeps
    <3>3. Synced'  BY <1>u, <2>2 DEF Synced
    <3>4. WholeFiles'
      <4>1. pc[c] \notin Gone  BY <1>u DEF Gone
      <4>. QED  BY <4>1, <1>u, <2>2 DEF WholeFiles
    <3>. QED  BY <3>1, <3>2, <3>3, <3>4
  <2>. QED  BY <1>u, <2>1, <2>3, <2>5, <2>6, <2>7, <2>8 DEF IInv
<1>. QED  BY <1>1, <1>2 DEF Create

\* Write and sync touch the call's own inode, which the file does not link to.
LEMMA WriteStep ==
    ASSUME IInv, NEW c \in Calls, WriteTmp(c) \/ Sync(c) \/ RenameFails(c) PROVE IInv'
<1>. USE DEF GoesTo, still
<1>t. TypeOK /\ pc[c] \in Holding  BY DEF IInv, Holding, WriteTmp, Sync, RenameFails
<1>u. UNCHANGED <<file, tmp, disk, tracker, op, data, tmpOf, known, blind, crossed>>
  BY DEF WriteTmp, Sync, RenameFails
<1>1. ASSUME GoesTo(c, "cleanup"), UNCHANGED inode
      PROVE  IInv'
  <2>1. known' \subseteq Contents /\ tracker' \in BOOLEAN  BY <1>u, <1>t DEF TypeOK
  <2>. QED  BY <1>1, <1>t, <1>u, <2>1, AfterStep
<1>2. ASSUME NEW l \in {"sync", "rename"}, GoesTo(c, l),
             inode' = [inode EXCEPT ![c] = IF l = "sync" THEN "whole" ELSE "synced"]
      PROVE  IInv'
  <2>1. TypeOK'
    <3>1. inode' \in [Calls -> {"partial", "whole", "synced"}]  BY <1>2, <1>t DEF TypeOK
    <3>. QED  BY <3>1, <1>2, <1>u, <1>t DEF TypeOK
  <2>2. /\ pc'[c] = l /\ inode'[c] = IF l = "sync" THEN "whole" ELSE "synced"
        /\ \A d \in Calls \ {c} : pc'[d] = pc[d] /\ inode'[d] = inode[d]
    BY <1>2, <1>t DEF TypeOK
  <2>3. HasName' /\ HasData'
    BY <1>u, <1>t, <2>2 DEF IInv, HasName, HasData, Holding, Loaded
  <2>4. LinkHasData'  BY <1>u, <2>2 DEF IInv, LinkHasData, Holding
  <2>5. TmpsAreOwned'  BY <1>u, <2>2 DEF IInv, TmpsAreOwned
  <2>6. ASSUME ~crossed PROVE Sound'
    <3>. USE <2>6, <1>u, <1>t, <2>2 DEF IInv, Sound
    <3>1. WholeData'  BY DEF WholeData, Loaded
    <3>2. Keeps'  BY DEF Keeps
    <3>3. Synced'  BY DEF Synced
    <3>4. WholeFiles'
      <4>1. pc[c] \notin Gone  BY DEF Gone, Holding
      <4>. QED  BY <4>1 DEF WholeFiles
    <3>. QED  BY <3>1, <3>2, <3>3, <3>4
  <2>. QED  BY <1>u, <2>1, <2>3, <2>4, <2>5, <2>6 DEF IInv
<1>. QED
  <2>1. CASE WriteTmp(c)  BY <2>1, <1>1, <1>2 DEF WriteTmp
  <2>2. CASE Sync(c)  BY <2>2, <1>1, <1>2 DEF Sync
  <2>3. CASE RenameFails(c)  BY <2>3, <1>1 DEF RenameFails
  <2>. QED  BY <2>1, <2>2, <2>3

\* The rename puts the call's own inode, written and synced, under the file's
\* name.
LEMMA RenameStep == ASSUME IInv, NEW c \in Calls, Rename(c) PROVE IInv'
<1>. USE DEF GoesTo, still
<1>t. TypeOK /\ pc[c] = "rename" /\ tmpOf[c] \in Names /\ data[c] \in Contents
  BY DEF IInv, HasName, HasData, Holding, Loaded, Rename
<1>u. UNCHANGED <<inode, disk, tracker, op, data, tmpOf, blind, crossed>>  BY DEF Rename
<1>l. tmp[tmpOf[c]] \in Calls
  <2>1. tmp[tmpOf[c]] \in Calls \cup {NoFile, Litter}  BY <1>t DEF TypeOK
  <2>. QED  BY <2>1 DEF IInv, HasName, Holding, Rename
<1>1. /\ file' = tmp[tmpOf[c]] /\ file' \in Calls
      /\ pc'[c] = "close" /\ \A d \in Calls \ {c} : pc'[d] = pc[d]
      /\ tmp'[tmpOf[c]] = NoFile
      /\ \A n \in Names \ {tmpOf[c]} : tmp'[n] = tmp[n]
  BY <1>t, <1>l DEF Rename, TypeOK
<1>2. TypeOK'
  <2>1. file' \in Links  BY <1>1 DEF Links
  <2>2. known' \subseteq Contents  BY <1>t DEF Rename, TypeOK
  <2>3. tmp' \in [Names -> Calls \cup {NoFile, Litter}]  BY <1>t DEF Rename, TypeOK
  <2>4. pc' = [pc EXCEPT ![c] = "close"]  BY DEF Rename
  <2>. QED  BY <2>1, <2>2, <2>3, <2>4, <1>u, <1>t DEF TypeOK
<1>3. HasName'
  <2>1. NoFile # Litter  BY FileAssumption
  <2>. QED  BY <2>1, <1>u, <1>t, <1>1 DEF IInv, HasName, Holding
<1>4. HasData'  BY <1>u, <1>t, <1>1 DEF IInv, HasData
<1>5. NoFile \notin Calls  BY FileAssumption
<1>6. LinkHasData'
  <2>. SUFFICES ASSUME NEW d \in Calls, d = file' \/ d = disk'.file \/ \E n \in Names : tmp'[n] = d
                PROVE  pc'[d] \in Holding \cup Gone /\ data'[d] \in Contents
    BY DEF LinkHasData
  <2>1. d = disk.file \/ \E n \in Names : tmp[n] = d  BY <1>u, <1>1, <1>5, <1>t
  <2>2. pc[d] \in Holding \cup Gone /\ data[d] \in Contents  BY <2>1 DEF IInv, LinkHasData
  <2>. QED  BY <2>2, <1>u, <1>1 DEF Gone
<1>7. TmpsAreOwned'
  <2>. SUFFICES ASSUME NEW n \in Names, tmp'[n] \in Calls
                PROVE  tmpOf'[tmp'[n]] = n
                       /\ pc'[tmp'[n]] \in {"write", "sync", "rename", "cleanup", "left"}
    BY DEF TmpsAreOwned
  <2>1. n # tmpOf[c] /\ tmp'[n] = tmp[n]  BY <1>1, <1>5
  <2>. QED  BY <2>1, <1>u, <1>1 DEF IInv, TmpsAreOwned
<1>8. ASSUME ~crossed PROVE Sound'
  <2>. USE <1>8 DEF IInv, Sound
  <2>1. file' = c /\ inode[c] = "synced" /\ data[c].base # Torn
    BY <1>1, <1>t DEF Keeps, Synced, WholeData, Loaded, Holding
  <2>2. WholeData'  BY <1>u, <1>1, <2>1 DEF WholeData
  <2>3. Keeps'
    <3>. SUFFICES ASSUME NEW d \in Calls, pc'[d] \in Holding PROVE tmp'[tmpOf'[d]] = d  BY DEF Keeps
    <3>1. d # c  BY <1>1 DEF Holding
    <3>2. tmp[tmpOf[d]] = d /\ tmpOf[d] \in Names  BY <3>1, <1>1 DEF Keeps, HasName
    <3>3. tmp[tmpOf[c]] = c  BY <1>1, <2>1
    <3>4. tmpOf[d] # tmpOf[c]  BY <3>1, <3>2, <3>3
    <3>. QED  BY <3>2, <3>4, <1>u, <1>1
  <2>4. Synced'  BY <1>u, <1>1 DEF Synced
  <2>5. WholeFiles'
    <3>. SUFFICES ASSUME NEW d \in Calls, d = file' \/ d = disk'.file
                  PROVE  pc'[d] \in Gone /\ inode'[d] = "synced" /\ data'[d].base # Torn
      BY DEF WholeFiles
    <3>1. CASE d = c  BY <3>1, <1>u, <1>1, <2>1 DEF Gone
    <3>2. CASE d # c  BY <3>2, <1>u, <1>1, <2>1 DEF WholeFiles
    <3>. QED  BY <3>1, <3>2
  <2>. QED  BY <2>2, <2>3, <2>4, <2>5
<1>. QED  BY <1>u, <1>2, <1>3, <1>4, <1>6, <1>7, <1>8 DEF IInv

\* The removal takes the call's own inode, or another's and crosses it.
LEMMA CleanupStep == ASSUME IInv, NEW c \in Calls, Cleanup(c) PROVE IInv'
<1>. USE DEF GoesTo
<1>t. TypeOK /\ pc[c] = "cleanup" /\ tmpOf[c] \in Names
  BY DEF IInv, HasName, Cleanup
<1>u. UNCHANGED <<file, inode, disk, tracker, op, data, tmpOf, known, blind>>  BY DEF Cleanup
<1>1. CASE GoesTo(c, IF tmp[tmpOf[c]] = c THEN "left" ELSE "error") /\ UNCHANGED <<tmp, crossed>>
  <2>1. PICK l \in {"left", "error"} : GoesTo(c, l) /\ (tmp[tmpOf[c]] = c => l = "left")  BY <1>1
  <2>2. \A n \in Names : tmp[n] = c => n = tmpOf[c]  BY DEF IInv, TmpsAreOwned
  <2>3. (\E n \in Names : tmp[n] = c) => l \in {"cleanup", "left"}  BY <2>1, <2>2
  <2>4. known' \subseteq Contents /\ tracker' \in BOOLEAN  BY <1>u, <1>t DEF TypeOK
  <2>5. UNCHANGED <<file, tmp, inode, disk, op, data, tmpOf, blind, crossed>>  BY <1>1, <1>u
  <2>. QED  BY <1>t, <2>1, <2>3, <2>4, <2>5, AfterStep
<1>2. CASE /\ tmp' = [tmp EXCEPT ![tmpOf[c]] = NoFile]
           /\ crossed' = (crossed \/ tmp[tmpOf[c]] \notin {c, NoFile})
           /\ GoesTo(c, "error")
  <2>1. /\ pc'[c] = "error" /\ \A d \in Calls \ {c} : pc'[d] = pc[d]
        /\ tmp'[tmpOf[c]] = NoFile
        /\ \A n \in Names \ {tmpOf[c]} : tmp'[n] = tmp[n]
    BY <1>2, <1>t DEF TypeOK
  <2>2. TypeOK'
    <3>1. crossed' \in BOOLEAN  BY <1>2
    <3>2. tmp' \in [Names -> Calls \cup {NoFile, Litter}]  BY <1>2, <1>t DEF TypeOK
    <3>3. pc' = [pc EXCEPT ![c] = "error"]  BY <1>2
    <3>. QED  BY <3>1, <3>2, <3>3, <1>u, <1>t DEF TypeOK
  <2>3. NoFile \notin Calls /\ NoFile # Litter  BY FileAssumption
  <2>4. HasName' /\ HasData'
    BY <1>u, <2>1, <2>3 DEF IInv, HasName, HasData, Holding, Loaded
  <2>5. LinkHasData'
    <3>. SUFFICES ASSUME NEW d \in Calls, d = file' \/ d = disk'.file \/ \E n \in Names : tmp'[n] = d
                  PROVE  pc'[d] \in Holding \cup Gone /\ data'[d] \in Contents
      BY DEF LinkHasData
    <3>1. d = file \/ d = disk.file \/ \E n \in Names : tmp[n] = d  BY <1>u, <2>1, <2>3
    <3>2. pc[d] \in Holding \cup Gone /\ data[d] \in Contents  BY <3>1 DEF IInv, LinkHasData
    <3>. QED  BY <3>2, <1>u, <2>1 DEF Gone
  <2>6. TmpsAreOwned'
    <3>. SUFFICES ASSUME NEW n \in Names, tmp'[n] \in Calls
                  PROVE  tmpOf'[tmp'[n]] = n
                         /\ pc'[tmp'[n]] \in {"write", "sync", "rename", "cleanup", "left"}
      BY DEF TmpsAreOwned
    <3>1. n # tmpOf[c] /\ tmp'[n] = tmp[n]  BY <2>1, <2>3
    <3>2. tmpOf[tmp[n]] = n /\ pc[tmp[n]] \in {"write", "sync", "rename", "cleanup", "left"}
      BY <3>1 DEF IInv, TmpsAreOwned
    <3>3. tmp[n] # c  BY <3>1, <3>2
    <3>. QED  BY <3>1, <3>2, <3>3, <1>u, <2>1
  <2>7. ASSUME ~crossed' PROVE Sound'
    <3>0. ~crossed /\ tmp[tmpOf[c]] \in {c, NoFile}  BY <1>2, <2>7
    <3>. USE <3>0 DEF IInv, Sound
    <3>1. WholeData'  BY <1>u, <2>1 DEF WholeData, Loaded, Holding
    <3>2. Keeps'
      <4>. SUFFICES ASSUME NEW d \in Calls, pc'[d] \in Holding PROVE tmp'[tmpOf'[d]] = d  BY DEF Keeps
      <4>1. d # c  BY <2>1 DEF Holding
      <4>2. tmp[tmpOf[d]] = d /\ tmpOf[d] \in Names  BY <4>1, <2>1 DEF Keeps, HasName
      <4>3. tmpOf[d] # tmpOf[c]  BY <3>0, <4>1, <4>2, <2>3
      <4>. QED  BY <4>2, <4>3, <1>u, <2>1
    <3>3. Synced'  BY <1>u, <2>1 DEF Synced
    <3>4. WholeFiles'  BY <1>u, <2>1 DEF WholeFiles, Gone
    <3>. QED  BY <3>1, <3>2, <3>3, <3>4
  <2>. QED  BY <2>2, <2>4, <2>5, <2>6, <2>7 DEF IInv
<1>. QED  BY <1>1, <1>2 DEF Cleanup

\* The deferred Close, and MarkRead.
LEMMA EndStep == ASSUME IInv, NEW c \in Calls, Close(c) \/ MarkRead(c) PROVE IInv'
<1>. USE DEF still
<1>t. TypeOK  BY DEF IInv
<1>u. /\ UNCHANGED <<file, tmp, inode, disk, op, data, tmpOf, blind, crossed>>
      /\ pc[c] \in {"close", "mark"}
  BY DEF Close, MarkRead
<1>n. ~ \E n \in Names : tmp[n] = c  BY <1>u DEF IInv, TmpsAreOwned
<1>1. CASE Close(c)
  <2>1. PICK l \in {"mark", "ok", "cleanup"} : GoesTo(c, l)  BY <1>1 DEF Close
  <2>2. known' \subseteq Contents /\ tracker' \in BOOLEAN /\ pc[c] = "close"
    BY <1>1, <1>t DEF Close, TypeOK
  <2>. QED  BY <2>1, <2>2, <1>u, <1>n, AfterStep
<1>2. CASE MarkRead(c)
  <2>1. data[c] \in Contents  BY <1>2 DEF IInv, HasData, Loaded, MarkRead
  <2>2. known' \subseteq Contents /\ tracker' \in BOOLEAN /\ GoesTo(c, "ok")
    BY <1>2, <2>1, <1>t DEF MarkRead, TypeOK
  <2>. QED  BY <2>2, <1>u, <1>n, AfterStep
<1>. QED  BY <1>1, <1>2

\* Commands put a whole text or nothing there; the kernel writes what is there.
LEMMA OutsideStep == ASSUME IInv, BashWrites \/ BashDeletes \/ Flush PROVE IInv'
<1>. USE DEF still
<1>t. TypeOK  BY DEF IInv
<1>u. UNCHANGED <<tmp, inode, tracker, op, pc, data, tmpOf, known, blind, crossed>>
  BY DEF BashWrites, BashDeletes, Flush
<1>1. file' \in {file, Foreign, NoFile} /\ disk'.file \in {file, disk.file}
  BY DEF BashWrites, BashDeletes, Flush
<1>2. file' \in Calls => file' = file  BY <1>1, FileAssumption
<1>3. TypeOK'
  <2>1. file' \in Links  BY <1>1, <1>t DEF TypeOK, Links
  <2>2. disk' \in [file : Links, names : SUBSET Names]
    BY <1>t DEF BashWrites, BashDeletes, Flush, TypeOK
  <2>. QED  BY <2>1, <2>2, <1>u, <1>t DEF TypeOK
<1>4. HasName' /\ HasData' /\ TmpsAreOwned'  BY <1>u DEF IInv, HasName, HasData, TmpsAreOwned
<1>5. LinkHasData'  BY <1>u, <1>1, <1>2 DEF IInv, LinkHasData
<1>6. ASSUME ~crossed PROVE Sound'
  <2>. USE <1>6, <1>u DEF IInv, Sound
  <2>1. WholeData' /\ Keeps' /\ Synced'  BY DEF WholeData, Keeps, Synced
  <2>2. WholeFiles'  BY <1>1, <1>2 DEF WholeFiles
  <2>. QED  BY <2>1, <2>2
<1>. QED  BY <1>u, <1>3, <1>4, <1>5, <1>6 DEF IInv

\* After a crash nobody is in atomicWrite, and the disk has synced inodes only.
LEMMA CrashStep == ASSUME IInv, Crash PROVE IInv'
<1>. USE DEF still
<1>t. TypeOK  BY DEF IInv
<1>1. /\ UNCHANGED <<disk, op, data, tmpOf, blind, crossed>> /\ known' = {} /\ tracker' = FALSE
      /\ file' = disk.file
      /\ pc' = [c \in Calls |-> IF c \in Active THEN "dead" ELSE pc[c]]
      /\ tmp' = [n \in Names |-> IF n \in disk.names THEN Litter ELSE NoFile]
      /\ inode' = [c \in Calls |-> IF inode[c] = "whole" THEN "partial" ELSE inode[c]]
  BY DEF Crash
<1>2. \A c \in Calls : pc'[c] \in {"idle", "ok", "error", "left", "dead"}
                       /\ (pc[c] \in Gone => pc'[c] \in Gone)
                       /\ (pc[c] \in Holding => pc'[c] \in Gone)
  BY <1>1, <1>t DEF Active, TypeOK, Gone, Holding
<1>3. \A n \in Names : tmp'[n] \notin Calls  BY <1>1, FileAssumption
<1>4. TypeOK'
  <2>1. tmp' \in [Names -> Calls \cup {NoFile, Litter}]  BY <1>1
  <2>2. inode' \in [Calls -> {"partial", "whole", "synced"}]  BY <1>1, <1>t DEF TypeOK
  <2>3. pc' \in [Calls -> {"idle", "stat", "gate", "open", "mkdir", "compute", "mark", "name", "create",
                          "write", "sync", "rename", "close", "cleanup", "ok", "error", "left", "dead"}]
    BY <1>1, <1>t DEF TypeOK
  <2>. QED  BY <2>1, <2>2, <2>3, <1>1, <1>t DEF TypeOK
<1>5. HasName' /\ HasData'  BY <1>2 DEF HasName, HasData, Holding, Loaded
<1>6. LinkHasData'  BY <1>1, <1>2, <1>3 DEF IInv, LinkHasData
<1>7. TmpsAreOwned'  BY <1>3 DEF TmpsAreOwned
<1>8. ASSUME ~crossed PROVE Sound'
  <2>1. WholeData' /\ Keeps' /\ Synced'  BY <1>2 DEF WholeData, Keeps, Synced, Holding, Loaded
  <2>2. WholeFiles'  BY <1>1, <1>2, <1>8 DEF IInv, Sound, WholeFiles
  <2>. QED  BY <2>1, <2>2 DEF Sound
<1>. QED  BY <1>1, <1>4, <1>5, <1>6, <1>7, <1>8 DEF IInv

\* Every step keeps the invariant.
LEMMA StepIInv == IInv /\ [Next]_vars => IInv'
<1>. SUFFICES ASSUME IInv, [Next]_vars PROVE IInv'  OBVIOUS
<1>1. ASSUME NEW c \in Calls, Step(c) PROVE IInv'
  BY <1>1, PrepareStep, CreateStep, WriteStep, RenameStep, CleanupStep, EndStep DEF Step
<1>2. CASE BashWrites \/ BashDeletes \/ Flush  BY <1>2, OutsideStep
<1>3. CASE Crash  BY <1>3, CrashStep
<1>4. CASE UNCHANGED vars
  <2>. USE <1>4 DEF vars
  <2>1. TypeOK' /\ HasName' /\ HasData'  BY DEF IInv, TypeOK, HasName, HasData
  <2>2. LinkHasData' /\ TmpsAreOwned'  BY DEF IInv, LinkHasData, TmpsAreOwned
  <2>3. crossed' \/ Sound'  BY DEF IInv, Sound, WholeData, Keeps, Synced, WholeFiles
  <2>. QED  BY <2>1, <2>2, <2>3 DEF IInv
<1>. QED  BY <1>1, <1>2, <1>3, <1>4 DEF Next

\* Write, Edit and the AST tools install a new content whole or not at all
\* (write.go atomicWrite): no interleaving of calls, no collision of their
\* temporary names, no failing system call and no crash shows a torn file or
\* renames another call's inode into place, as long as no Close that failed
\* after a rename has made a call remove another's temporary file.
THEOREM AtomicWrite == Spec => []WholeOrNothing
<1>1. IInv => WholeOrNothing  BY WholeFromIInv
<1>. QED  BY <1>1, InitIInv, StepIInv, PTL DEF Spec

\* The variables of FileTools keep their types (write.go, edit.go, tracker.go).
THEOREM TypeCorrect == Spec => []TypeOK
<1>1. IInv => TypeOK  BY DEF IInv
<1>. QED  BY <1>1, InitIInv, StepIInv, PTL DEF Spec

\* No error path of atomicWrite forgets its temporary file: each one belongs
\* to the call that made it and is still there, could not be removed by it,
\* or is what a crash has left.
THEOREM NoLitter == Spec => []TmpsAreOwned
<1>1. IInv => TmpsAreOwned  BY DEF IInv
<1>. QED  BY <1>1, InitIInv, StepIInv, PTL DEF Spec
-----------------------------------------------------------------------------
(* What a step leaves of the file's text.                                  *)

\* A call that is past its rename keeps its text and its inode.
LEMMA GoneKept ==
    ASSUME TypeOK, NEW c \in Calls, Step(c), NEW d \in Calls, pc[d] \in Gone
    PROVE  data'[d] = data[d] /\ inode'[d] = inode[d]
<1>. USE DEF GoesTo, still
<1>1. CASE Begin(c) \/ Stat(c) \/ Gate(c) \/ TmpName(c) \/ Create(c) \/ RenameFails(c) \/ Rename(c)
           \/ Close(c) \/ Cleanup(c) \/ MarkRead(c)
  BY <1>1 DEF Begin, Stat, Gate, TmpName, Create, RenameFails, Rename, Close, Cleanup, MarkRead
<1>2. CASE Open(c) \/ Compute(c) \/ Mkdir(c)
  <2>1. d # c  BY <1>2 DEF Open, Compute, Mkdir, Gone
  <2>. QED  BY <1>2, <2>1 DEF TypeOK, Open, Compute, Mkdir
<1>3. CASE WriteTmp(c) \/ Sync(c)
  <2>1. d # c  BY <1>3 DEF WriteTmp, Sync, Gone
  <2>. QED  BY <1>3, <2>1 DEF TypeOK, WriteTmp, Sync
<1>. QED  BY <1>1, <1>2, <1>3 DEF Step

\* Nobody but its call writes to an inode, and the file links to one only
\* when its call is past that.
LEMMA TextKept ==
    ASSUME IInv, ~crossed, UNCHANGED disk,
           \A d \in Calls : pc[d] \in Gone => data'[d] = data[d] /\ inode'[d] = inode[d]
    PROVE  /\ file' = file => TextOf(file)' = TextOf(file)
           /\ TextOf(disk.file)' = TextOf(disk.file)
<1>1. \A i \in {file, disk.file} : i \in Calls => data'[i] = data[i] /\ inode'[i] = inode[i]
  BY DEF IInv, Sound, WholeFiles
<1>. QED  BY <1>1 DEF TextOf

\* The rename installs what the call has made.
LEMMA RenameText ==
    ASSUME IInv, ~crossed, NEW c \in Calls, Rename(c)
    PROVE  TextOf(file)' = data[c]
<1>1. file' = c /\ inode'[c] = "synced" /\ data' = data
  BY DEF Rename, IInv, Sound, Keeps, Synced, Holding
<1>2. c # NoFile  BY FileAssumption
<1>. QED  BY <1>1, <1>2 DEF TextOf

\* Only a rename changes the file, and nothing uncrosses two calls.
LEMMA StepFrame ==
    ASSUME IInv, NEW c \in Calls, Step(c), ~crossed'
    PROVE  /\ ~crossed /\ UNCHANGED <<disk, crossed>>
           /\ Rename(c) \/ UNCHANGED file
           /\ UNCHANGED file => TextOf(file)' = TextOf(file)
           /\ TextOf(disk.file)' = TextOf(disk.file)
<1>. USE DEF still
<1>1. ~crossed
  <2>1. CASE Cleanup(c)  BY <2>1 DEF Cleanup
  <2>2. CASE ~Cleanup(c)
    BY <2>2 DEF Step, Begin, Stat, Gate, Open, Compute, Mkdir, TmpName, Create, WriteTmp, Sync, RenameFails,
                Rename, Close, MarkRead
  <2>. QED  BY <2>1, <2>2
<1>2. UNCHANGED disk /\ (Rename(c) \/ UNCHANGED file)
  BY DEF Step, Begin, Stat, Gate, Open, Compute, Mkdir, TmpName, Create, WriteTmp, Sync, RenameFails,
         Rename, Close, Cleanup, MarkRead
<1>3. \A d \in Calls : pc[d] \in Gone => data'[d] = data[d] /\ inode'[d] = inode[d]
  BY GoneKept DEF IInv
<1>4. UNCHANGED crossed
  <2>1. crossed \in BOOLEAN /\ crossed' \in BOOLEAN  BY StepIInv DEF IInv, TypeOK, Next
  <2>. QED  BY <1>1, <2>1
<1>. QED  BY <1>1, <1>2, <1>3, <1>4, TextKept

-----------------------------------------------------------------------------
(* The Read gate.  What the file holds is accounted for when it is gone, a  *)
(* command's, or known to the agent.  Nothing but a crash ends that, and a  *)
(* crash ends every call; so it is enough that a call that is going to      *)
(* replace the file has found it accounted for once, and that the tracker   *)
(* is only set when it is.                                                  *)

Accounted == file \in {NoFile, Foreign} \/ TextOf(file) \in known

\* Past the gate, or past the discovery that there is no file.
Replacing == {"mkdir", "compute", "name", "create", "write", "sync", "rename"}

MayReplace == \A c \in Calls :
    (pc[c] \in Replacing \/ (pc[c] = "open" /\ op[c] # "Read")) /\ c \notin blind => Accounted

MayMark == \A c \in Calls :
    /\ pc[c] = "close" => Accounted
    /\ pc[c] = "mark" => Accounted \/ TextOf(file) = data[c]

GateHolds == (tracker => Accounted) /\ MayReplace /\ MayMark

\* Steps that change neither the file nor what is known of it: the call that
\* moves must have the right to be where it goes.
LEMMA GateQuiet ==
    ASSUME TypeOK, GateHolds, NEW c \in Calls, NEW l, GoesTo(c, l),
           UNCHANGED <<file, tracker, known>>, TextOf(file)' = TextOf(file),
           \A d \in Calls \ {c} : data'[d] = data[d] /\ op'[d] = op[d],
           blind' \in {blind, blind \cup {c}},
           (l \in Replacing \/ (l = "open" /\ op'[c] # "Read")) /\ c \notin blind' => Accounted,
           l = "close" => Accounted,
           l = "mark" => Accounted \/ TextOf(file) = data'[c]
    PROVE  GateHolds'
<1>1. /\ pc'[c] = l
      /\ \A d \in Calls \ {c} : pc'[d] = pc[d] /\ (d \in blind' <=> d \in blind)
  BY DEF TypeOK, GoesTo
<1>2. Accounted' = Accounted  BY DEF Accounted
<1>3. MayReplace'  BY <1>1, <1>2 DEF GateHolds, MayReplace
<1>4. MayMark'  BY <1>1, <1>2 DEF GateHolds, MayMark
<1>. QED  BY <1>2, <1>3, <1>4 DEF GateHolds

\* A step of a call keeps the gate.
LEMMA GateStep ==
    ASSUME IInv, GateHolds, NEW c \in Calls, Step(c), ~crossed' PROVE GateHolds'
<1>. USE DEF still
<1>t. TypeOK  BY DEF IInv
<1>f. /\ ~crossed /\ (UNCHANGED file => TextOf(file)' = TextOf(file))
      /\ \A d \in Calls \ {c} : data'[d] = data[d] /\ op'[d] = op[d]
  <2>1. ~crossed /\ (UNCHANGED file => TextOf(file)' = TextOf(file))  BY StepFrame
  <2>2. \A d \in Calls \ {c} : data'[d] = data[d] /\ op'[d] = op[d]
    BY <1>t DEF Step, Begin, Stat, Gate, Open, Compute, Mkdir, TmpName, Create, WriteTmp, Sync, RenameFails,
                Rename, Close, Cleanup, MarkRead, TypeOK
  <2>. QED  BY <2>1, <2>2
<1>1. CASE Begin(c)
  <2>1. GoesTo(c, "stat") /\ UNCHANGED <<file, tracker, known, blind>>  BY <1>1 DEF Begin
  <2>. QED  BY <2>1, <1>f, <1>t, GateQuiet DEF Replacing
<1>2. CASE Stat(c)
  <2>1. UNCHANGED <<file, tracker, known, op>> /\ blind' \in {blind, blind \cup {c}}
    BY <1>2 DEF Stat
  <2>2. CASE file # NoFile /\ GoesTo(c, IF op[c] = "Read" THEN "open" ELSE "gate")
    <3>1. PICK l \in {"open", "gate"} : GoesTo(c, l) /\ (l = "open" => op[c] = "Read")  BY <2>2
    <3>. QED  BY <2>1, <3>1, <1>f, <1>t, GateQuiet DEF Replacing
  <2>3. CASE /\ GoesTo(c, IF op[c] = "Write" THEN "mkdir" ELSE "error")
             /\ blind' = IF file = NoFile THEN blind ELSE blind \cup {c}
    <3>1. PICK l \in {"mkdir", "error"} : GoesTo(c, l)  BY <2>3
    <3>2. c \notin blind' => Accounted  BY <2>3 DEF Accounted
    <3>. QED  BY <2>1, <3>1, <3>2, <1>f, <1>t, GateQuiet DEF Replacing
  <2>. QED  BY <1>2, <2>2, <2>3 DEF Stat
<1>3. CASE Gate(c)
  <2>. DEFINE l == CASE ~tracker -> "error"
                     [] tracker /\ op[c] = "Write" -> "mkdir"
                     [] OTHER -> "open"
  <2>1. GoesTo(c, l) /\ UNCHANGED <<file, tracker, known, blind>>  BY <1>3 DEF Gate
  <2>2. l \in {"error", "mkdir", "open"} /\ (l # "error" => Accounted)
    BY DEF GateHolds
  <2>. HIDE DEF l
  <2>. QED  BY <2>1, <2>2, <1>f, <1>t, GateQuiet DEF Replacing
<1>4. CASE Open(c)
  <2>1. UNCHANGED <<file, tracker, known, blind, op>>  BY <1>4 DEF Open
  <2>2. CASE GoesTo(c, "error")
    BY <2>1, <2>2, <1>f, <1>t, GateQuiet DEF Replacing
  <2>3. CASE /\ data' = [data EXCEPT ![c] = TextOf(file)]
             /\ GoesTo(c, IF op[c] = "Read" THEN "mark" ELSE "compute")
    <3>1. PICK l \in {"mark", "compute"} : GoesTo(c, l) /\ (l = "compute" => op[c] # "Read")  BY <2>3
    <3>2. op[c] # "Read" /\ c \notin blind => Accounted  BY <1>4 DEF GateHolds, MayReplace, Open
    <3>3. data'[c] = TextOf(file)  BY <2>3, <1>t DEF TypeOK
    <3>4. CASE l = "mark"
      BY <2>1, <3>1, <3>3, <3>4, <1>f, <1>t, GateQuiet DEF Replacing
    <3>5. CASE l = "compute"
      BY <2>1, <3>1, <3>2, <3>5, <1>f, <1>t, GateQuiet DEF Replacing
    <3>. QED  BY <3>4, <3>5
  <2>. QED  BY <1>4, <2>2, <2>3 DEF Open
<1>5. CASE Compute(c) \/ Mkdir(c) \/ TmpName(c) \/ Create(c) \/ WriteTmp(c) \/ Sync(c) \/ RenameFails(c)
  <2>1. UNCHANGED <<file, tracker, known, blind>> /\ pc[c] \in Replacing
    BY <1>5 DEF Compute, Mkdir, TmpName, Create, WriteTmp, Sync, RenameFails, Replacing
  <2>2. c \notin blind => Accounted  BY <2>1 DEF GateHolds, MayReplace
  <2>3. \E l \in {"error", "name", "create", "write", "sync", "rename", "cleanup"} : GoesTo(c, l)
    BY <1>5 DEF Compute, Mkdir, TmpName, Create, WriteTmp, Sync, RenameFails
  <2>. QED  BY <2>1, <2>2, <2>3, <1>f, <1>t, GateQuiet
<1>6. CASE Close(c)
  <2>1. UNCHANGED <<file, tracker, known, blind>>  BY <1>6 DEF Close
  <2>2. Accounted  BY <1>6 DEF GateHolds, MayMark, Close
  <2>3. \E l \in {"mark", "ok", "cleanup"} : GoesTo(c, l)  BY <1>6 DEF Close
  <2>. QED  BY <2>1, <2>2, <2>3, <1>f, <1>t, GateQuiet
<1>7. CASE Cleanup(c)
  <2>1. UNCHANGED <<file, tracker, known, blind>>  BY <1>7 DEF Cleanup
  <2>2. \E l \in {"error", "left"} : GoesTo(c, l)  BY <1>7 DEF Cleanup
  <2>. QED  BY <2>1, <2>2, <1>f, <1>t, GateQuiet DEF Replacing
<1>8. CASE Rename(c)
  <2>1. TextOf(file)' = data[c] /\ data[c] \in known'  BY <1>8, <1>f, RenameText DEF Rename
  <2>2. Accounted'  BY <2>1 DEF Accounted
  <2>. QED  BY <2>2 DEF GateHolds, MayReplace, MayMark
<1>9. CASE MarkRead(c)
  <2>1. Accounted \/ TextOf(file) = data[c]  BY <1>9 DEF GateHolds, MayMark, MarkRead
  <2>2. known' = known \cup {data[c]} /\ UNCHANGED file  BY <1>9 DEF MarkRead
  <2>3. Accounted'  BY <2>1, <2>2, <1>f DEF Accounted
  <2>. QED  BY <2>3 DEF GateHolds, MayReplace, MayMark
<1>. QED  BY <1>1, <1>2, <1>3, <1>4, <1>5, <1>6, <1>7, <1>8, <1>9 DEF Step

\* So do commands, the kernel and crashes.
LEMMA GateOutside ==
    ASSUME IInv, GateHolds, ~crossed, BashWrites \/ BashDeletes \/ Flush \/ Crash PROVE GateHolds'
<1>. USE DEF still
<1>1. CASE BashWrites \/ BashDeletes
  <2>1. Accounted'  BY <1>1 DEF BashWrites, BashDeletes, Accounted
  <2>. QED  BY <2>1 DEF GateHolds, MayReplace, MayMark
<1>2. CASE Flush
  <2>1. UNCHANGED <<file, inode, tracker, op, pc, data, known, blind>>  BY <1>2 DEF Flush
  <2>2. TextOf(file)' = TextOf(file)  BY <2>1 DEF TextOf
  <2>3. Accounted' = Accounted  BY <2>1, <2>2 DEF Accounted
  <2>. QED  BY <2>1, <2>2, <2>3 DEF GateHolds, MayReplace, MayMark
<1>3. CASE Crash
  <2>1. ~tracker' /\ \A c \in Calls : pc'[c] \in {"idle", "ok", "error", "left", "dead"}
    BY <1>3 DEF Crash, Active, IInv, TypeOK
  <2>. QED  BY <2>1 DEF GateHolds, MayReplace, MayMark, Replacing
<1>. QED  BY <1>1, <1>2, <1>3

\* read-tracker.md's "blind mutation" does not happen: however many calls
\* interleave and whenever the server crashes, a call that can see the file
\* only replaces what the agent has read or made since the server started, or
\* a command has written.  The exceptions are the code's: any error of os.Stat
\* lets Write pass the gate, and so does a crossed removal.
THEOREM GateIsKept == Spec => NoBlindMutation
<1>1. Init => GateHolds  BY DEF Init, GateHolds, MayReplace, MayMark, Replacing
<1>2. IInv /\ (crossed \/ GateHolds) /\ [Next]_vars => (crossed \/ GateHolds)'
  <2>. SUFFICES ASSUME IInv, crossed \/ GateHolds, [Next]_vars, ~crossed' PROVE GateHolds'  OBVIOUS
  <2>1. ASSUME NEW c \in Calls, Step(c) PROVE GateHolds'
    BY <2>1, StepFrame, GateStep
  <2>2. CASE BashWrites \/ BashDeletes \/ Flush \/ Crash
    <3>1. ~crossed  BY <2>2 DEF BashWrites, BashDeletes, Flush, Crash, still
    <3>. QED  BY <2>2, <3>1, GateOutside
  <2>3. CASE UNCHANGED vars
    <3>1. Accounted' = Accounted  BY <2>3 DEF vars, Accounted, TextOf
    <3>2. TextOf(file)' = TextOf(file)  BY <2>3 DEF vars, TextOf
    <3>. QED  BY <2>3, <3>1, <3>2 DEF vars, GateHolds, MayReplace, MayMark
  <2>. QED  BY <2>1, <2>2, <2>3 DEF Next
<1>3. ASSUME crossed \/ GateHolds, NEW c \in Calls, Rename(c)
      PROVE  file \in {NoFile, Foreign} \/ TextOf(file) \in known \/ c \in blind \/ crossed
  BY <1>3 DEF GateHolds, MayReplace, Rename, Replacing, Accounted
<1>4. (crossed \/ GateHolds) /\ [Next]_vars
        => [\A c \in Calls : Rename(c) => \/ file \in {NoFile, Foreign}
                                          \/ TextOf(file) \in known
                                          \/ c \in blind \/ crossed]_vars
  BY <1>3
<1>. QED  BY <1>1, <1>2, <1>4, InitIInv, StepIInv, PTL DEF Spec, NoBlindMutation

-----------------------------------------------------------------------------
(* The refinement of AtomicFile.  Every step of a call either leaves its    *)
(* stage alone or is the AtomicFile step between the two stages; that the   *)
(* renamed inode holds the call's own text, whole, is the invariant.        *)

\* The stages as AtomicFile sees them.
Stages == [c \in Calls |-> StageOf(c)]

\* AtomicFile's own texts and stages are those of FileTools.
LEMMA PromiseNames ==
    /\ \A b : Promise!Whole(b) = Plain(b)
    /\ Promise!fileVars = <<TextOf(file), TextOf(disk.file), Stages, data, crossed>>
BY DEF Promise!Whole, Plain, Promise!fileVars, Stages

\* A step of one call moves only its stage.
LEMMA OneStage ==
    ASSUME TypeOK, NEW c \in Calls, NEW l, GoesTo(c, l),
           \A d \in Calls \ {c} : op'[d] = op[d]
    PROVE  /\ pc'[c] = l
           /\ Stages[c] = StageOf(c)
           /\ Stages' = [Stages EXCEPT ![c] = StageOf(c)']
<1>1. pc'[c] = l /\ \A d \in Calls \ {c} : pc'[d] = pc[d] /\ op'[d] = op[d]  BY DEF TypeOK, GoesTo
<1>2. \A d \in Calls \ {c} : StageOf(d)' = StageOf(d)  BY <1>1 DEF StageOf
<1>3. Stages' = [d \in Calls |-> StageOf(d)']  BY DEF Stages
<1>4. [Stages EXCEPT ![c] = StageOf(c)'] = [d \in Calls |-> StageOf(d)']
  BY <1>2 DEF Stages
<1>. QED  BY <1>1, <1>3, <1>4 DEF Stages

\* A call that moves from one stage to another does what Moves says.
LEMMA Staged ==
    ASSUME TypeOK, NEW c \in Calls, NEW l, GoesTo(c, l), \A d \in Calls \ {c} : op'[d] = op[d],
           NEW from, NEW to, StageOf(c) = from, StageOf(c)' = to
    PROVE  Promise!Moves(c, from, to)
BY OneStage DEF Promise!Moves, Stages

\* Nothing AtomicFile sees of a call changes but its stage.
Beside == /\ TextOf(file)' = TextOf(file) /\ TextOf(disk.file)' = TextOf(disk.file)
          /\ UNCHANGED <<data, op, crossed>> /\ ~crossed

\* A step that keeps the call's stage as well is hidden.
LEMMA Hidden ==
    ASSUME TypeOK, NEW c \in Calls, NEW l, GoesTo(c, l), Beside, StageOf(c)' = StageOf(c)
    PROVE  UNCHANGED Promise!fileVars
<1>1. Stages' = Stages  BY OneStage DEF Stages, Beside
<1>2. /\ TextOf(file)' = TextOf(file) /\ TextOf(disk.file)' = TextOf(disk.file)
      /\ UNCHANGED <<data, crossed>>
  BY DEF Beside
<1>. QED  BY <1>1, <1>2 DEF Promise!fileVars, Stages

\* A call that fails moves towards its error and touches nothing.
LEMMA Failing ==
    ASSUME TypeOK, NEW c \in Calls, NEW l, GoesTo(c, l), Beside,
           \/ StageOf(c) \in {"begun", "took", "made"} /\ l = "error"
           \/ StageOf(c) \in {"made", "replaced"} /\ l = "cleanup"
           \/ StageOf(c) = "failing" /\ l \in {"error", "left"}
    PROVE  Promise!Next
<1>1. pc'[c] = l  BY OneStage DEF Beside
<1>2. StageOf(c)' = IF l = "cleanup" THEN "failing" ELSE "error"  BY <1>1 DEF StageOf
<1>3. Promise!Moves(c, StageOf(c), StageOf(c)')  BY Staged DEF Beside
<1>4. Promise!Fail(c)  BY <1>2, <1>3 DEF Promise!Fail, Beside
<1>. QED  BY <1>4 DEF Promise!Next, Beside

\* A step of a call under way that crosses nobody.
LEMMA StepBeside ==
    ASSUME IInv, NEW c \in Calls, Step(c), ~crossed'
    PROVE  /\ UNCHANGED <<file, data, op>> => Beside
           /\ ~crossed /\ UNCHANGED crossed /\ TextOf(disk.file)' = TextOf(disk.file)
           /\ UNCHANGED file => TextOf(file)' = TextOf(file)
BY StepFrame DEF Beside

\* The steps up to atomicWrite: a call begins, takes the file whole or makes a
\* text up, or fails.
LEMMA PrepareRefines ==
    ASSUME IInv, NEW c \in Calls, Step(c), ~crossed',
           Begin(c) \/ Stat(c) \/ Gate(c) \/ Open(c) \/ Compute(c) \/ Mkdir(c)
    PROVE  Promise!Next \/ UNCHANGED Promise!fileVars
<1>. USE DEF still
<1>t. TypeOK  BY DEF IInv
<1>b. /\ UNCHANGED <<file, data, op>> => Beside
      /\ ~crossed /\ UNCHANGED crossed /\ TextOf(disk.file)' = TextOf(disk.file)
      /\ UNCHANGED file => TextOf(file)' = TextOf(file)
  BY StepBeside
<1>1. CASE Begin(c)
  <2>1. GoesTo(c, "stat") /\ UNCHANGED <<file, data>> /\ pc[c] = "idle"  BY <1>1 DEF Begin
  <2>2. \A d \in Calls \ {c} : op'[d] = op[d]  BY <1>1, <1>t DEF Begin, TypeOK
  <2>3. pc'[c] = "stat"  BY <2>1, <2>2, <1>t, OneStage
  <2>4. StageOf(c) = "idle" /\ StageOf(c)' = "begun"  BY <2>1, <2>3 DEF StageOf
  <2>5. Promise!Moves(c, "idle", "begun")  BY <1>t, <2>1, <2>2, <2>4, Staged
  <2>6. Promise!Begin(c)  BY <1>b, <2>1, <2>5 DEF Promise!Begin
  <2>. QED  BY <1>b, <2>6 DEF Promise!Next
<1>2. CASE Stat(c) \/ Gate(c)
  <2>1. PICK l \in {"mkdir", "error", "open", "gate"} : GoesTo(c, l)
    <3>1. CASE Stat(c)  BY <3>1 DEF Stat
    <3>2. CASE Gate(c)
      <4>. DEFINE m == CASE ~tracker -> "error"
                         [] tracker /\ op[c] = "Write" -> "mkdir"
                         [] OTHER -> "open"
      <4>1. m \in {"mkdir", "error", "open", "gate"}  OBVIOUS
      <4>2. GoesTo(c, m)  BY <3>2 DEF Gate
      <4>. HIDE DEF m
      <4>. QED  BY <4>1, <4>2
    <3>. QED  BY <1>2, <3>1, <3>2
  <2>2. Beside /\ StageOf(c) = "begun"  BY <1>2, <1>b DEF Stat, Gate, StageOf
  <2>3. CASE l = "error"  BY <1>t, <2>1, <2>2, <2>3, Failing
  <2>4. CASE l # "error"
    <3>1. pc'[c] = l  BY <1>t, <2>1, <2>2, OneStage DEF Beside
    <3>2. StageOf(c)' = "begun"  BY <2>1, <2>4, <3>1 DEF StageOf
    <3>. QED  BY <1>t, <2>1, <2>2, <3>2, Hidden
  <2>. QED  BY <2>3, <2>4
<1>3. CASE Open(c)
  <2>1. UNCHANGED <<op, file>> /\ StageOf(c) = "begun"  BY <1>3 DEF Open, StageOf
  <2>2. CASE GoesTo(c, "error") /\ UNCHANGED data  BY <1>t, <1>b, <2>1, <2>2, Failing
  <2>3. CASE /\ file # NoFile
             /\ data' = [data EXCEPT ![c] = TextOf(file)]
             /\ GoesTo(c, IF op[c] = "Read" THEN "mark" ELSE "compute")
    <3>1. pc'[c] = IF op[c] = "Read" THEN "mark" ELSE "compute"  BY <1>t, <2>1, <2>3, OneStage
    <3>2. StageOf(c)' = "took"  BY <2>1, <3>1 DEF StageOf
    <3>3. Promise!Moves(c, "begun", "took")  BY <1>t, <2>1, <2>3, <3>2, Staged
    <3>4. TextOf(file) # NoFile  BY <2>3, <1>b, WholeText
    <3>5. Promise!Take(c)  BY <1>b, <2>1, <2>3, <3>3, <3>4 DEF Promise!Take
    <3>. QED  BY <1>b, <3>5 DEF Promise!Next, Step, Open
  <2>. QED  BY <1>3, <2>2, <2>3 DEF Open
<1>4. CASE Compute(c)
  <2>1. UNCHANGED <<op, file>> /\ StageOf(c) = "took"  BY <1>4 DEF Compute, StageOf
  <2>2. CASE GoesTo(c, "error") /\ UNCHANGED data  BY <1>t, <1>b, <2>1, <2>2, Failing
  <2>3. CASE GoesTo(c, "name") /\ data' = [data EXCEPT ![c] = WithEdit(data[c], c)]
    <3>0. pc'[c] = "name"  BY <1>t, <2>1, <2>3, OneStage
    <3>1. StageOf(c)' = "made"  BY <3>0 DEF StageOf
    <3>2. Promise!Moves(c, "took", "made")  BY <1>t, <2>1, <2>3, <3>1, Staged
    <3>3. data' = [data EXCEPT ![c].edits = @ \cup {c}]  BY <2>3 DEF WithEdit
    <3>4. Promise!Make(c)  BY <1>b, <2>1, <3>2, <3>3 DEF Promise!Make
    <3>. QED  BY <1>b, <3>4 DEF Promise!Next
  <2>. QED  BY <1>4, <2>2, <2>3 DEF Compute
<1>5. CASE Mkdir(c)
  <2>1. UNCHANGED <<op, file>> /\ StageOf(c) = "begun"  BY <1>5 DEF Mkdir, StageOf
  <2>2. CASE GoesTo(c, "error") /\ UNCHANGED data  BY <1>t, <1>b, <2>1, <2>2, Failing
  <2>3. CASE GoesTo(c, "name") /\ data' = [data EXCEPT ![c] = Plain(c)]
    <3>0. pc'[c] = "name"  BY <1>t, <2>1, <2>3, OneStage
    <3>1. StageOf(c)' = "made"  BY <3>0 DEF StageOf
    <3>2. Promise!Moves(c, "begun", "made")  BY <1>t, <2>1, <2>3, <3>1, Staged
    <3>3. Promise!Make(c)  BY <1>b, <2>1, <2>3, <3>2, PromiseNames DEF Promise!Make
    <3>. QED  BY <1>b, <3>3 DEF Promise!Next
  <2>. QED  BY <1>5, <2>2, <2>3 DEF Mkdir
<1>. QED  BY <1>1, <1>2, <1>3, <1>4, <1>5

\* atomicWrite up to its rename, and its clean-up, happen beside the file.
LEMMA WriteRefines ==
    ASSUME IInv, NEW c \in Calls, Step(c), ~crossed',
           \/ TmpName(c) \/ Create(c) \/ WriteTmp(c) \/ Sync(c) \/ RenameFails(c) \/ Cleanup(c)
    PROVE  Promise!Next \/ UNCHANGED Promise!fileVars
<1>. USE DEF still
<1>t. TypeOK  BY DEF IInv
<1>1. UNCHANGED <<op, file, data>>
  BY DEF TmpName, Create, WriteTmp, Sync, RenameFails, Cleanup
<1>2. Beside  BY <1>1, StepBeside
<1>3. CASE Cleanup(c)
  <2>1. PICK l \in {"error", "left"} : GoesTo(c, l)  BY <1>3 DEF Cleanup
  <2>2. StageOf(c) = "failing"  BY <1>3 DEF Cleanup, StageOf
  <2>. QED  BY <1>t, <1>2, <2>1, <2>2, Failing
<1>4. CASE ~Cleanup(c)
  <2>1. StageOf(c) = "made"
    BY <1>4 DEF TmpName, Create, WriteTmp, Sync, RenameFails, StageOf
  <2>2. PICK l \in {"create", "write", "sync", "rename", "cleanup", "error"} : GoesTo(c, l)
    BY <1>4 DEF TmpName, Create, WriteTmp, Sync, RenameFails
  <2>3. CASE l \in {"error", "cleanup"}  BY <1>t, <1>2, <2>1, <2>2, <2>3, Failing
  <2>4. CASE l \notin {"error", "cleanup"}
    <3>1. pc'[c] = l  BY <1>t, <1>2, <2>2, OneStage DEF Beside
    <3>2. StageOf(c)' = "made"  BY <2>2, <2>4, <3>1 DEF StageOf
    <3>. QED  BY <1>t, <1>2, <2>1, <2>2, <3>2, Hidden
  <2>. QED  BY <2>3, <2>4
<1>. QED  BY <1>3, <1>4

\* The rename installs what the call has made, and nothing else does.
LEMMA RenameRefines ==
    ASSUME IInv, NEW c \in Calls, Rename(c), ~crossed' PROVE Promise!Next
<1>t. TypeOK /\ Step(c)  BY DEF IInv, Step
<1>1. ~crossed /\ UNCHANGED crossed /\ TextOf(disk.file)' = TextOf(disk.file)  BY <1>t, StepFrame
<1>2. TextOf(file)' = data[c]  BY <1>1, RenameText
<1>3. GoesTo(c, "close") /\ UNCHANGED <<op, data>> /\ StageOf(c) = "made"
  BY DEF Rename, StageOf, still
<1>4. pc'[c] = "close"  BY <1>t, <1>3, OneStage
<1>5. StageOf(c)' = "replaced"  BY <1>4 DEF StageOf
<1>6. Promise!Moves(c, "made", "replaced")  BY <1>t, <1>3, <1>5, Staged
<1>7. Promise!Replace(c)  BY <1>1, <1>2, <1>3, <1>6 DEF Promise!Replace
<1>. QED  BY <1>1, <1>7 DEF Promise!Next

\* The Close, MarkRead and the result.
LEMMA EndRefines ==
    ASSUME IInv, NEW c \in Calls, Close(c) \/ MarkRead(c), ~crossed'
    PROVE  Promise!Next \/ UNCHANGED Promise!fileVars
<1>t. TypeOK /\ Step(c)  BY DEF IInv, Step
<1>1. UNCHANGED <<op, file, data>>  BY DEF Close, MarkRead, still
<1>2. Beside  BY <1>t, <1>1, StepBeside
<1>3. PICK l \in {"mark", "ok", "cleanup"} : GoesTo(c, l) /\ (l = "mark" => op[c] = "Write")
  BY DEF Close, MarkRead
<1>4. /\ StageOf(c) \in {"took", "replaced"}
      /\ l # "ok" => StageOf(c) = "replaced"
  <2>1. CASE Close(c)  BY <2>1 DEF Close, StageOf
  <2>2. CASE MarkRead(c)
    <3>1. GoesTo(c, "ok") /\ pc[c] = "mark"  BY <2>2 DEF MarkRead
    <3>2. l = "ok"  BY <1>t, <1>3, <3>1 DEF GoesTo, TypeOK
    <3>. QED  BY <3>1, <3>2 DEF StageOf
  <2>. QED  BY <2>1, <2>2
<1>5. pc'[c] = l  BY <1>t, <1>2, <1>3, OneStage DEF Beside
<1>6. CASE l = "cleanup"  BY <1>t, <1>2, <1>3, <1>4, <1>6, Failing
<1>7. CASE l = "mark"
  <2>1. StageOf(c)' = StageOf(c)  BY <1>1, <1>3, <1>4, <1>5, <1>7 DEF StageOf
  <2>. QED  BY <1>t, <1>2, <1>3, <2>1, Hidden
<1>8. CASE l = "ok"
  <2>1. StageOf(c)' = "ok"  BY <1>5, <1>8 DEF StageOf
  <2>2. Promise!Moves(c, StageOf(c), "ok")  BY <1>t, <1>2, <1>3, <2>1, Staged DEF Beside
  <2>3. Promise!Succeed(c)  BY <1>2, <1>4, <2>2 DEF Promise!Succeed, Beside
  <2>. QED  BY <1>2, <2>3 DEF Promise!Next, Beside
<1>. QED  BY <1>3, <1>6, <1>7, <1>8

\* Commands put a whole text or nothing there, and the kernel writes what is
\* there.
LEMMA OutsideRefines ==
    ASSUME IInv, ~crossed, BashWrites \/ BashDeletes \/ Flush PROVE Promise!Next
<1>. USE DEF still
<1>1. UNCHANGED <<pc, op, data, inode, crossed>>  BY DEF BashWrites, BashDeletes, Flush
<1>2. Stages' = Stages  BY <1>1 DEF Stages, StageOf
<1>3. CASE BashWrites \/ BashDeletes
  <2>1. TextOf(file)' \in {NoFile, Plain(Foreign)}
    <3>1. file' \in {NoFile, Foreign}  BY <1>3 DEF BashWrites, BashDeletes
    <3>. QED  BY <3>1, FileAssumption DEF TextOf
  <2>2. TextOf(disk.file)' = TextOf(disk.file)
    BY <1>1, <1>3 DEF BashWrites, BashDeletes, TextOf
  <2>3. Promise!Command  BY <1>1, <1>2, <2>1, <2>2, PromiseNames DEF Promise!Command, Stages
  <2>. QED  BY <1>1, <2>3 DEF Promise!Next
<1>4. CASE Flush
  <2>1. TextOf(file)' = TextOf(file) /\ TextOf(disk.file)' = TextOf(file)
    BY <1>1, <1>4 DEF Flush, TextOf
  <2>2. Promise!Flush  BY <1>1, <1>2, <2>1 DEF Promise!Flush, Stages
  <2>. QED  BY <1>1, <2>2 DEF Promise!Next
<1>. QED  BY <1>3, <1>4

\* A crash ends the calls under way, and brings the disk's text back.
LEMMA CrashRefines == ASSUME IInv, ~crossed, Crash PROVE Promise!Next
<1>t. TypeOK  BY DEF IInv
<1>1. /\ UNCHANGED <<disk, op, data, crossed>> /\ file' = disk.file
      /\ pc' = [c \in Calls |-> IF c \in Active THEN "dead" ELSE pc[c]]
      /\ inode' = [c \in Calls |-> IF inode[c] = "whole" THEN "partial" ELSE inode[c]]
  BY DEF Crash, still
<1>2. \A c \in Calls : StageOf(c)' = IF StageOf(c) \in Promise!Underway THEN "dead" ELSE StageOf(c)
  <2>. SUFFICES ASSUME NEW c \in Calls
                PROVE  StageOf(c)' = IF StageOf(c) \in Promise!Underway THEN "dead" ELSE StageOf(c)
    OBVIOUS
  <2>1. CASE c \in Active
    <3>1. pc'[c] = "dead"  BY <1>1, <2>1
    <3>2. StageOf(c) \in Promise!Underway  BY <1>t, <2>1 DEF Active, StageOf, TypeOK, Promise!Underway
    <3>3. StageOf(c)' = "dead"  BY <3>1 DEF StageOf
    <3>. QED  BY <3>2, <3>3
  <2>2. CASE c \notin Active
    <3>1. pc'[c] = pc[c] /\ pc[c] \in {"idle", "ok", "error", "left", "dead"}  BY <1>1, <2>2 DEF Active
    <3>. QED  BY <3>1 DEF StageOf, Promise!Underway
  <2>. QED  BY <2>1, <2>2
<1>3. \A d \in Calls : d = disk.file => data'[d] = data[d] /\ inode'[d] = inode[d]
  BY <1>1 DEF IInv, Sound, WholeFiles
<1>4. TextOf(file)' = TextOf(disk.file) /\ TextOf(disk.file)' = TextOf(disk.file)
  BY <1>1, <1>3 DEF TextOf
<1>5. Promise!Crash  BY <1>1, <1>2, <1>4 DEF Promise!Crash
<1>. QED  BY <1>1, <1>5 DEF Promise!Next

\* The file tools keep AtomicFile's promise, for any number of concurrent
\* calls and of temporary names, whatever system calls fail and whenever the
\* machine crashes, up to a crossed removal (write.go atomicWrite, edit.go
\* HandleEdit).
THEOREM FileRefinement == Spec => ImplementsAtomicFile
<1>1. Init => Promise!Init
  <2>. SUFFICES ASSUME Init PROVE Promise!Init  OBVIOUS
  <2>1. Stages = [c \in Calls |-> "idle"]  BY DEF Init, Stages, StageOf
  <2>2. TextOf(file) \in {NoFile, Plain(Original)} /\ disk.file = file
    BY FileAssumption DEF Init, TextOf
  <2>. QED  BY <2>1, <2>2, PromiseNames DEF Init, Promise!Init, Stages
<1>2. IInv /\ [Next]_vars => [Promise!Next]_(Promise!fileVars)
  <2>. SUFFICES ASSUME IInv, [Next]_vars PROVE Promise!Next \/ UNCHANGED Promise!fileVars  OBVIOUS
  <2>1. CASE crossed'  BY <2>1 DEF Promise!Next
  <2>2. CASE ~crossed'
    <3>1. ASSUME NEW c \in Calls, Step(c) PROVE Promise!Next \/ UNCHANGED Promise!fileVars
      BY <2>2, <3>1, PrepareRefines, WriteRefines, RenameRefines, EndRefines DEF Step
    <3>2. CASE BashWrites \/ BashDeletes \/ Flush \/ Crash
      <4>1. ~crossed  BY <2>2, <3>2 DEF BashWrites, BashDeletes, Flush, Crash, still
      <4>. QED  BY <3>2, <4>1, OutsideRefines, CrashRefines
    <3>3. CASE UNCHANGED vars
      BY <3>3 DEF vars, Promise!fileVars, StageOf, TextOf
    <3>. QED  BY <3>1, <3>2, <3>3 DEF Next
  <2>. QED  BY <2>1, <2>2
<1>. QED  BY <1>1, <1>2, InitIInv, StepIInv, PTL DEF Spec, ImplementsAtomicFile, Promise!Spec
=============================================================================
