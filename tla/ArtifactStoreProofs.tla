------------------------- MODULE ArtifactStoreProofs -------------------------
(***************************************************************************)
(* Proofs about ArtifactStore for any number of contents, folders,         *)
(* processes, puts and crashes, the folders shared or not.                 *)
(***************************************************************************)
EXTENDS ArtifactStore, TLAPS

USE StoreAssumption

(* What put() knows between its system calls. *)
PutsAgree ==
  \A p \in Processes :
    /\ phase[p] # "idle" => content[p] # None
    /\ handle[p] # None <=> phase[p] \in {"write", "rewrite"}
    /\ phase[p] \in Naming \cup {"lookup", "rewrite"} =>
         blob[content[p]] # None /\ folder[p] # None
    /\ phase[p] \in Naming \cup {"rewrite"} =>
         path[p] \in {<<folder[p], Plain>>, <<folder[p], content[p]>>}

(* Every file was made for one content, and its names say which. *)
FilesMade ==
  /\ \A i \in Inodes : data[i] = None <=> made[i] = None
  /\ \A c \in Contents : blob[c] # None => made[blob[c]] = c
  /\ \A c \in Contents : tmp[c] # None => made[tmp[c]] = c
  /\ \A x \in Paths : human[x] # None => made[human[x]] # None
  /\ \A x \in Paths : human[x] # None /\ x[2] # Plain => made[human[x]] = x[2]

(* Nobody writes anything else into a file of an uncontested content. *)
OwnFiles ==
  \A i \in Inodes : made[i] # None /\ made[i] \notin contested =>
    /\ data[i] \in {made[i], Torn}
    /\ \A p \in Processes : handle[p] = i => content[p] = made[i]

(* The file p has open was made for p's content, unless p's name is contested. *)
HandlesMade ==
  \A p \in Processes :
    /\ handle[p] # None => made[handle[p]] # None
    /\ phase[p] = "write" => made[handle[p]] = content[p]
    /\ phase[p] = "rewrite" =>
         /\ handle[p] = human[path[p]]
         /\ content[p] \in contested \/ made[handle[p]] = content[p]

(* Two puts that hold one free name have contested it, and so has the one  *)
(* that finds the name taken after all.                                    *)
NamesContested ==
  /\ \A p, q \in Processes :
       p # q /\ {phase[p], phase[q]} \subseteq Naming /\ path[p] = path[q] /\ human[path[p]] = None
         => content[p] \in contested
  /\ \A p \in Processes : phase[p] \in Naming /\ human[path[p]] # None =>
       /\ content[p] \in contested \/ (phase[p] = "check" /\ made[human[path[p]]] = content[p])
       /\ phase[p] # "check" => made[human[path[p]]] \in contested

(* What a put() that returned stored has its own file under its name. *)
StoredHolds ==
  \A e \in stored :
    /\ human[e[2]] # None
    /\ e[1] \notin contested => made[human[e[2]]] = e[1]

(* A .tmp file has no other name: truncating it harms nobody. *)
TmpApart ==
  \A c \in Contents : tmp[c] # None =>
    /\ blob[c] # tmp[c]
    /\ \A x \in Paths : human[x] # tmp[c]

TornInTheMaking == \A i \in Inodes : data[i] = Torn => InTheMaking(i)

(* Two writers of one content have met. *)
WritersMeet ==
  \A p, q \in Processes :
    p # q /\ content[p] = content[q] /\ {phase[p], phase[q]} \subseteq {"write", "rename"}
      => content[p] \in overlapped

(* A writer who met nobody has the .tmp file for himself. *)
LoneWriter ==
  \A p \in Processes : LET c == content[p] IN
    c \notin overlapped =>
      /\ phase[p] = "write" => handle[p] = tmp[c]
      /\ phase[p] = "rename" => tmp[c] # None /\ data[tmp[c]] = c

TornOverlapped ==
  \A c \in Contents : IsTorn(c) /\ c \notin contested => c \in overlapped

Listed ==
  manifest # None =>
    \A e \in {x \in manifest : x.file = "blob"} :
      /\ blob[e.name] # None
      /\ e.name \notin overlapped \cup contested => e.sha = e.name

StoreInv ==
  /\ TypeOK
  /\ PutsAgree
  /\ FilesMade
  /\ OwnFiles
  /\ HandlesMade
  /\ NamesContested
  /\ StoredHolds
  /\ TmpApart
  /\ TornInTheMaking
  /\ WritersMeet
  /\ LoneWriter
  /\ TornOverlapped
  /\ Listed
-----------------------------------------------------------------------------
(* None is nothing a variable could stand for; Torn is no content. *)
LEMMA NoneApart ==
  /\ None \notin Contents /\ None # Torn /\ None \notin Inodes /\ None \notin Paths
  /\ None \notin Folders /\ Torn \notin Contents /\ Plain \notin Contents
  OBVIOUS

(* open() takes the file of that name, or one that does not exist yet. *)
LEMMA FileTaken ==
  ASSUME NEW name \in Inodes \cup {None}, NEW i \in FileAt(name)
  PROVE  /\ i \in Inodes
         /\ name # None => i = name
         /\ name = None => data[i] = None
  BY NoneApart DEF FileAt

(* A file that does not exist yet has no name, and nobody has it open. *)
LEMMA FreshFile ==
  ASSUME TypeOK, FilesMade, HandlesMade, NEW i \in Inodes, data[i] = None
  PROVE  /\ made[i] = None
         /\ \A c \in Contents : blob[c] # i /\ tmp[c] # i
         /\ \A x \in Paths : human[x] # i
         /\ \A p \in Processes : handle[p] # i
  BY NoneApart DEF FilesMade, HandlesMade

(* The names put() may choose are paths of its folder. *)
LEMMA PathFacts ==
  ASSUME NEW f \in Folders, NEW c \in Contents
  PROVE  /\ <<f, Plain>> \in Paths /\ <<f, c>> \in Paths
         /\ <<f, Plain>>[2] = Plain /\ <<f, c>>[2] = c
  BY DEF Paths

(* A process that has a name in hand has a content and a path. *)
LEMMA InHand ==
  ASSUME TypeOK, PutsAgree, NEW p \in Processes, phase[p] \in Naming \cup {"rewrite"}
  PROVE  /\ content[p] \in Contents /\ folder[p] \in Folders
         /\ path[p] \in Paths
         /\ path[p][2] \in {Plain, content[p]}
         /\ blob[content[p]] \in Inodes
<1>1. content[p] \in Contents /\ folder[p] \in Folders /\ blob[content[p]] \in Inodes
  BY NoneApart DEF TypeOK, PutsAgree, Naming
<1>2. path[p] \in {<<folder[p], Plain>>, <<folder[p], content[p]>>}
  BY DEF PutsAgree
<1>. QED
  BY <1>1, <1>2, PathFacts

(***************************************************************************)
(* Types.                                                                  *)
(***************************************************************************)
LEMMA InitTyped == Init => TypeOK
  BY DEF Init, TypeOK, Phases

LEMMA StepTyped ==
  ASSUME TypeOK, PutsAgree, FilesMade, [Next]_vars
  PROVE  TypeOK'
<1> USE NoneApart DEF TypeOK, PutsAgree, Goto, SetData, Leave, Return, Make,
                      fileVars, putVars, counters, history, Phases, Writing, Naming
<1>1. ASSUME NEW p \in Processes, NEW c \in Contents, NEW f \in Folders \cup {None},
             StartPut(p, c, f)
      PROVE  TypeOK'
  BY <1>1 DEF StartPut
<1>2. ASSUME NEW p \in Processes, Open(p) PROVE TypeOK'
  <2>1. content[p] \in Contents
    BY <1>2 DEF Open
  <2>2. tmp[content[p]] \in Inodes \cup {None}
    BY <2>1
  <2>3. PICK i \in FileAt(tmp[content[p]]) :
          /\ data' = [data EXCEPT ![i] = Torn]
          /\ made' = IF data[i] = None THEN [made EXCEPT ![i] = content[p]] ELSE made
          /\ tmp' = [tmp EXCEPT ![content[p]] = i]
          /\ handle' = [handle EXCEPT ![p] = i]
          /\ overlapped' \in {overlapped \cup {content[p]}, overlapped}
    BY <1>2 DEF Open
  <2>4. i \in Inodes
    BY <2>2, <2>3, FileTaken
  <2>. QED
    BY <1>2, <2>1, <2>3, <2>4 DEF Open
<1>3. ASSUME NEW p \in Processes, Write(p) PROVE TypeOK'
  BY <1>3 DEF Write
<1>4. ASSUME NEW p \in Processes, Rename(p) PROVE TypeOK'
  BY <1>4 DEF Rename
<1>5. ASSUME NEW p \in Processes, LookUp(p) PROVE TypeOK'
  <2>1. content[p] \in Contents /\ folder[p] \in Folders
    BY <1>5 DEF LookUp
  <2>2. HumanPath(p) \in Paths
    BY <2>1, PathFacts DEF HumanPath
  <2>3. contested' \subseteq Contents
    BY <1>5, <2>1 DEF LookUp
  <2>. QED
    BY <1>5, <2>2, <2>3 DEF LookUp
<1>6. ASSUME NEW p \in Processes, Check(p) PROVE TypeOK'
  <2>1. content[p] \in Contents /\ path[p] \in Paths
    BY <1>6, InHand DEF Check
  <2>2. stored' \subseteq Contents \X Paths
    BY <1>6, <2>1 DEF Check
  <2>. QED
    BY <1>6, <2>2 DEF Check
<1>7. ASSUME NEW p \in Processes, Link(p) PROVE TypeOK'
  <2>1. content[p] \in Contents /\ path[p] \in Paths
    BY <1>7, InHand DEF Link
  <2>2. stored' \subseteq Contents \X Paths
    BY <1>7, <2>1 DEF Link
  <2>3. human' \in [Paths -> Inodes \cup {None}]
    BY <1>7, <2>1 DEF Link
  <2>. QED
    BY <1>7, <2>2, <2>3 DEF Link
<1>8. ASSUME NEW p \in Processes, LinkRaises(p) PROVE TypeOK'
  BY <1>8 DEF LinkRaises
<1>9. ASSUME NEW p \in Processes, Reopen(p) PROVE TypeOK'
  <2>1. content[p] \in Contents /\ human[path[p]] \in Inodes \cup {None}
    BY <1>9, InHand DEF Reopen
  <2>2. PICK i \in FileAt(human[path[p]]) :
          /\ data' = [data EXCEPT ![i] = Torn]
          /\ made' = IF data[i] = None THEN [made EXCEPT ![i] = content[p]] ELSE made
          /\ human' = [human EXCEPT ![path[p]] = i]
          /\ handle' = [handle EXCEPT ![p] = i]
    BY <1>9 DEF Reopen
  <2>3. i \in Inodes
    BY <2>1, <2>2, FileTaken
  <2>. QED
    BY <1>9, <2>1, <2>2, <2>3 DEF Reopen
<1>10. ASSUME NEW p \in Processes, Rewrite(p) PROVE TypeOK'
  <2>1. content[p] \in Contents /\ path[p] \in Paths
    BY <1>10, InHand DEF Rewrite
  <2>2. stored' \subseteq Contents \X Paths
    BY <1>10, <2>1 DEF Rewrite
  <2>3. data' \in [Inodes -> Contents \cup {Torn, None}]
    BY <1>10, <2>1 DEF Rewrite
  <2>. QED
    BY <1>10, <2>2, <2>3 DEF Rewrite
<1>11. ASSUME NEW p \in Processes, Crash(p) PROVE TypeOK'
  BY <1>11 DEF Crash
<1>12. CASE WriteManifest
  <2>1. ASSUME NEW c \in Contents, NEW e \in EntriesOf(c) PROVE e \in Entries
    BY <2>1 DEF EntriesOf, Entries, FilesMade
  <2>. QED
    BY <1>12, <2>1 DEF WriteManifest
<1>13. CASE UNCHANGED vars
  BY <1>13 DEF vars
<1>. QED
  BY <1>1, <1>2, <1>3, <1>4, <1>5, <1>6, <1>7, <1>8, <1>9, <1>10, <1>11, <1>12, <1>13
     DEF Next, PutStep
-----------------------------------------------------------------------------
LEMMA StartPutKeeps ==
  ASSUME StoreInv, TypeOK', NEW p \in Processes, NEW c \in Contents,
         NEW f \in Folders \cup {None}, StartPut(p, c, f)
  PROVE  StoreInv'
<1> USE NoneApart DEF StoreInv, TypeOK, PutsAgree, Goto, SetData, Leave, Return, Make,
                      fileVars, putVars, counters, history, Phases, Writing, Naming, StartPut
<1>1. PutsAgree'
  BY DEF PutsAgree
<1>2. FilesMade'
  BY DEF FilesMade
<1>3. OwnFiles'
  BY DEF OwnFiles
<1>4. HandlesMade'
  BY DEF HandlesMade
<1>5. NamesContested'
  BY DEF NamesContested
<1>6. StoredHolds'
  BY DEF StoredHolds
<1>7. TmpApart'
  BY DEF TmpApart
<1>8. TornInTheMaking'
  BY DEF TornInTheMaking, InTheMaking
<1>9. WritersMeet'
  BY DEF WritersMeet
<1>10. LoneWriter'
  BY DEF LoneWriter
<1>11. TornOverlapped'
  BY DEF TornOverlapped, IsTorn
<1>12. Listed'
  BY DEF Listed
<1>. QED
  BY <1>1, <1>2, <1>3, <1>4, <1>5, <1>6, <1>7, <1>8, <1>9, <1>10, <1>11, <1>12

LEMMA OpenKeeps ==
  ASSUME StoreInv, TypeOK', NEW p \in Processes, Open(p)
  PROVE  StoreInv'
<1> USE NoneApart DEF StoreInv, TypeOK, PutsAgree, Goto, SetData, Leave, Return, Make,
                      fileVars, putVars, counters, history, Phases, Writing, Naming, Open
<1>a. content[p] \in Contents /\ phase[p] = "open" /\ handle[p] = None
  OBVIOUS
<1> DEFINE c == content[p]
<1>b. tmp[c] \in Inodes \cup {None}
  BY <1>a
<1>c. PICK i \in FileAt(tmp[c]) :
        /\ data' = [data EXCEPT ![i] = Torn]
        /\ made' = IF data[i] = None THEN [made EXCEPT ![i] = c] ELSE made
        /\ tmp' = [tmp EXCEPT ![c] = i]
        /\ handle' = [handle EXCEPT ![p] = i]
        /\ overlapped' = IF \E q \in Processes \ {p} : content[q] = c /\ phase[q] \in Writing
                         THEN overlapped \cup {c} ELSE overlapped
  OBVIOUS
<1>d. i \in Inodes /\ (tmp[c] # None => i = tmp[c]) /\ (tmp[c] = None => data[i] = None)
  BY <1>b, <1>c, FileTaken
<1>e. /\ phase' = [phase EXCEPT ![p] = "write"]
      /\ UNCHANGED <<blob, human, content, folder, path, manifest, puts, crashes, stored, contested>>
  OBVIOUS
<1>f. /\ \A d \in Contents : blob[d] # i
      /\ \A x \in Paths : human[x] # i
      /\ \A d \in Contents \ {c} : tmp[d] # i
  <2>1. CASE tmp[c] = None
    BY <1>d, <2>1, FreshFile
  <2>2. CASE tmp[c] # None
    BY <1>a, <1>d, <2>2 DEF TmpApart, FilesMade
  <2>. QED
    BY <2>1, <2>2
<1>g. /\ made'[i] = c
      /\ \A j \in Inodes : j # i => made'[j] = made[j] /\ data'[j] = data[j]
      /\ data'[i] = Torn /\ i # None
      /\ made[i] # None => made[i] = c
  <2>1. CASE tmp[c] = None
    BY <1>a, <1>c, <1>d, <2>1, FreshFile
  <2>2. CASE tmp[c] # None
    BY <1>a, <1>c, <1>d, <2>2 DEF FilesMade
  <2>. QED
    BY <2>1, <2>2
<1>h. \A q \in Processes \ {p} : handle'[q] = handle[q] /\ phase'[q] = phase[q]
  BY <1>c, <1>e
<1>i. handle'[p] = i /\ tmp'[c] = i /\ \A d \in Contents \ {c} : tmp'[d] = tmp[d]
  BY <1>a, <1>c
<1>j. /\ overlapped \subseteq overlapped'
      /\ c \notin overlapped' =>
           \A q \in Processes \ {p} : content[q] = c => phase[q] \notin Writing
  BY <1>c
<1> HIDE DEF Open, c
<1>1. PutsAgree'
  BY <1>a, <1>c, <1>d, <1>e, <1>g DEF PutsAgree
<1>2. FilesMade'
  <2>1. ASSUME NEW j \in Inodes PROVE data'[j] = None <=> made'[j] = None
    BY <1>a, <1>g DEF FilesMade, c
  <2>2. \A d \in Contents : blob[d] # None => made'[blob[d]] = d
    BY <1>f, <1>g DEF FilesMade
  <2>3. ASSUME NEW d \in Contents, tmp'[d] # None PROVE made'[tmp'[d]] = d
    <3>1. CASE d = c
      BY <1>g, <1>i, <3>1
    <3>2. CASE d # c
      BY <1>f, <1>g, <1>i, <2>3, <3>2 DEF FilesMade
    <3>. QED
      BY <3>1, <3>2
  <2>4. \A y \in Paths : human[y] # None => made'[human[y]] = made[human[y]]
    BY <1>f, <1>g
  <2>. QED
    BY <1>e, <2>1, <2>2, <2>3, <2>4 DEF FilesMade
<1>3. OwnFiles'
  <2>1. ASSUME NEW j \in Inodes, made'[j] # None, made'[j] \notin contested,
               NEW q \in Processes, handle'[q] = j
        PROVE  content[q] = made'[j]
    <3>1. CASE q = p
      BY <1>g, <1>i, <2>1, <3>1 DEF c
    <3>2. CASE q # p
      <4>1. handle[q] = j /\ made[j] # None /\ made[j] = made'[j]
        BY <1>g, <1>h, <2>1, <3>2 DEF HandlesMade
      <4>. QED
        BY <2>1, <4>1 DEF OwnFiles
    <3>. QED
      BY <3>1, <3>2
  <2>2. ASSUME NEW j \in Inodes, made'[j] # None, made'[j] \notin contested
        PROVE  data'[j] \in {made'[j], Torn}
    BY <1>g, <2>2 DEF OwnFiles
  <2>. QED
    BY <1>e, <2>1, <2>2 DEF OwnFiles
<1>4. HandlesMade'
  <2>1. ASSUME NEW q \in Processes
        PROVE  /\ handle'[q] # None => made'[handle'[q]] # None
               /\ phase'[q] = "write" => made'[handle'[q]] = content[q]
               /\ phase'[q] = "rewrite" =>
                    /\ handle'[q] = human[path[q]]
                    /\ content[q] \in contested \/ made'[handle'[q]] = content[q]
    <3>1. CASE q = p
      BY <1>a, <1>e, <1>g, <1>i, <3>1 DEF c
    <3>2. CASE q # p
      <4>1. handle[q] # None => handle[q] \in Inodes /\ made'[handle[q]] = made[handle[q]]
        BY <1>g DEF HandlesMade
      <4>. QED
        BY <1>h, <3>2, <4>1 DEF HandlesMade
    <3>. QED
      BY <3>1, <3>2
  <2>. QED
    BY <1>e, <2>1 DEF HandlesMade
<1>5. NamesContested'
  <2>1. \A q \in Processes : phase'[q] \in Naming =>
          /\ q # p /\ phase'[q] = phase[q] /\ path[q] \in Paths
          /\ human[path[q]] # None => made'[human[path[q]]] = made[human[path[q]]]
    BY <1>e, <1>f, <1>g, InHand
  <2>. QED
    BY <1>e, <2>1 DEF NamesContested
<1>6. StoredHolds'
  <2>1. \A e \in stored : human[e[2]] \in Inodes /\ human[e[2]] # i
    BY <1>f DEF StoredHolds
  <2>. QED
    BY <1>e, <1>g, <2>1 DEF StoredHolds
<1>7. TmpApart'
  BY <1>e, <1>f, <1>i DEF TmpApart
<1>8. TornInTheMaking'
  <2>1. ASSUME NEW j \in Inodes, j # i, data'[j] = Torn
        PROVE  crashes > 0 \/ \E q \in Processes : handle'[q] = j
    <3>1. data[j] = Torn
      BY <1>g, <2>1
    <3>2. CASE crashes > 0
      BY <3>2
    <3>3. CASE \E q \in Processes : handle[q] = j
      <4>1. PICK q \in Processes : handle[q] = j
        BY <3>3
      <4>2. q # p
        BY <1>a, <2>1, <4>1
      <4>. QED
        BY <4>1, <4>2, <1>h
    <3>. QED
      BY <2>1, <3>1, <3>2, <3>3 DEF TornInTheMaking, InTheMaking
  <2>. QED
    BY <1>e, <1>i, <2>1 DEF TornInTheMaking, InTheMaking
<1>9. WritersMeet'
  <2>1. ASSUME NEW q \in Processes, NEW r \in Processes, q # r, content[q] = content[r],
               {phase'[q], phase'[r]} \subseteq {"write", "rename"}
        PROVE  content[q] \in overlapped'
    <3>1. CASE q = p \/ r = p
      BY <1>h, <1>j, <2>1, <3>1 DEF c
    <3>2. CASE q # p /\ r # p
      BY <1>h, <1>j, <2>1, <3>2 DEF WritersMeet
    <3>. QED
      BY <3>1, <3>2
  <2>. QED
    BY <1>e, <2>1 DEF WritersMeet
<1>10. LoneWriter'
  <2>1. SUFFICES ASSUME NEW q \in Processes, content[q] \notin overlapped',
                        phase'[q] \in {"write", "rename"}
                 PROVE  /\ phase'[q] = "write" => handle'[q] = tmp'[content[q]]
                        /\ phase'[q] = "rename" => /\ tmp'[content[q]] # None
                                                  /\ data'[tmp'[content[q]]] = content[q]
    BY <1>e DEF LoneWriter
  <2>2. CASE q = p
    BY <1>e, <1>i, <2>2 DEF c
  <2>3. CASE q # p
    <3>1. content[q] \in Contents \ {c} /\ content[q] \notin overlapped
      BY <1>h, <1>j, <2>1, <2>3
    <3>2. tmp'[content[q]] = tmp[content[q]] /\ tmp[content[q]] # i
      BY <1>f, <1>i, <3>1
    <3>. QED
      BY <1>g, <1>h, <2>1, <2>3, <3>1, <3>2 DEF LoneWriter
  <2>. QED
    BY <2>2, <2>3
<1>11. TornOverlapped'
  <2>1. ASSUME NEW d \in Contents, blob[d] # None PROVE data'[blob[d]] = data[blob[d]]
    BY <1>f, <1>g, <2>1
  <2>. QED
    BY <1>e, <1>j, <2>1 DEF TornOverlapped, IsTorn
<1>12. Listed'
  BY <1>e, <1>j DEF Listed
<1>. QED
  BY <1>1, <1>2, <1>3, <1>4, <1>5, <1>6, <1>7, <1>8, <1>9, <1>10, <1>11, <1>12

LEMMA WriteKeeps ==
  ASSUME StoreInv, TypeOK', NEW p \in Processes, Write(p)
  PROVE  StoreInv'
<1> USE NoneApart DEF StoreInv, TypeOK, PutsAgree, Goto, SetData, Leave, Return, Make,
                      fileVars, putVars, counters, history, Phases, Writing, Naming, Write
<1>1. PutsAgree'
  BY DEF PutsAgree
<1>2. FilesMade'
  <2>1. handle[p] \in Inodes /\ data[handle[p]] # None /\ content[p] # None
    BY DEF FilesMade, HandlesMade
  <2>. QED
    BY <2>1 DEF FilesMade
<1>3. OwnFiles'
  BY DEF OwnFiles
<1>4. HandlesMade'
  BY DEF HandlesMade
<1>5. NamesContested'
  BY DEF NamesContested
<1>6. StoredHolds'
  BY DEF StoredHolds
<1>7. TmpApart'
  BY DEF TmpApart
<1>8. TornInTheMaking'
  BY DEF TornInTheMaking, InTheMaking
<1>9. WritersMeet'
  BY DEF WritersMeet
<1>10. LoneWriter'
  <2>1. SUFFICES ASSUME NEW q \in Processes, content[q] \notin overlapped,
                        phase'[q] \in {"write", "rename"}
                 PROVE  /\ phase'[q] = "write" => handle'[q] = tmp[content[q]]
                        /\ phase'[q] = "rename" => /\ tmp[content[q]] # None
                                                  /\ data'[tmp[content[q]]] = content[q]
    BY DEF LoneWriter
  <2>2. CASE q = p
    BY <2>1, <2>2 DEF LoneWriter
  <2>3. CASE q # p
    <3>1. content[q] \in Contents /\ phase'[q] = phase[q] /\ handle'[q] = handle[q]
      BY <2>1, <2>3
    <3>2. tmp[content[q]] = handle[p] => content[p] = content[q]
      BY <3>1 DEF FilesMade, HandlesMade
    <3>. QED
      BY <2>1, <3>1, <3>2 DEF LoneWriter
  <2>. QED
    BY <2>2, <2>3
<1>11. TornOverlapped'
  <2>1. SUFFICES ASSUME NEW d \in Contents, blob[d] # None, data'[blob[d]] # d, d \notin contested
                 PROVE  d \in overlapped
    BY DEF TornOverlapped, IsTorn
  <2>2. blob[d] = handle[p] => content[p] = d
    BY <2>1 DEF FilesMade, HandlesMade, OwnFiles
  <2>3. data'[blob[d]] = data[blob[d]]
    BY <2>1, <2>2
  <2>. QED
    BY <2>1, <2>3 DEF TornOverlapped, IsTorn
<1>12. Listed'
  BY DEF Listed
<1>. QED
  BY <1>1, <1>2, <1>3, <1>4, <1>5, <1>6, <1>7, <1>8, <1>9, <1>10, <1>11, <1>12

LEMMA RenameKeeps ==
  ASSUME StoreInv, TypeOK', NEW p \in Processes, Rename(p)
  PROVE  StoreInv'
<1> USE NoneApart DEF StoreInv, TypeOK, PutsAgree, Goto, SetData, Leave, Return, Make,
                      fileVars, putVars, counters, history, Phases, Writing, Naming, Rename
<1>1. PutsAgree'
  BY DEF PutsAgree
<1>2. FilesMade'
  BY DEF FilesMade
<1>3. OwnFiles'
  BY DEF OwnFiles
<1>4. HandlesMade'
  BY DEF HandlesMade
<1>5. NamesContested'
  BY DEF NamesContested
<1>6. StoredHolds'
  BY DEF StoredHolds
<1>7. TmpApart'
  BY DEF TmpApart
<1>8. TornInTheMaking'
  BY DEF TornInTheMaking, InTheMaking
<1>9. WritersMeet'
  BY DEF WritersMeet
<1>10. LoneWriter'
  <2>1. CASE tmp[content[p]] = None
    BY <2>1 DEF LoneWriter
  <2>2. CASE tmp[content[p]] # None
    <3>1. SUFFICES ASSUME NEW q \in Processes, content[q] \notin overlapped,
                          phase'[q] \in {"write", "rename"}
                   PROVE  q # p /\ content[q] # content[p]
      BY <2>2 DEF LoneWriter
    <3>. QED
      BY <2>2, <3>1 DEF WritersMeet
  <2>. QED
    BY <2>1, <2>2
<1>11. TornOverlapped'
  <2>1. SUFFICES ASSUME NEW d \in Contents, blob'[d] # None, data[blob'[d]] # d,
                        d \notin overlapped, d \notin contested
                 PROVE  FALSE
    BY DEF TornOverlapped, IsTorn
  <2>2. CASE blob' = blob
    BY <2>1, <2>2 DEF TornOverlapped, IsTorn
  <2>3. CASE tmp[content[p]] # None /\ blob' = [blob EXCEPT ![content[p]] = tmp[content[p]]]
    BY <2>1, <2>3 DEF TornOverlapped, IsTorn, LoneWriter
  <2>. QED
    BY <2>2, <2>3
<1>12. Listed'
  <2>1. ASSUME NEW d \in Contents, blob[d] # None PROVE blob'[d] # None
    BY <2>1
  <2>. QED
    BY <2>1 DEF Listed, Entries
<1>. QED
  BY <1>1, <1>2, <1>3, <1>4, <1>5, <1>6, <1>7, <1>8, <1>9, <1>10, <1>11, <1>12

LEMMA LookUpKeeps ==
  ASSUME StoreInv, TypeOK', NEW p \in Processes, LookUp(p)
  PROVE  StoreInv'
<1> USE NoneApart DEF StoreInv, TypeOK, PutsAgree, Goto, SetData, Leave, Return, Make,
                      fileVars, putVars, counters, history, Phases, Writing, Naming, LookUp
<1>a. content[p] \in Contents /\ folder[p] \in Folders
  OBVIOUS
<1>b. /\ HumanPath(p) \in {<<folder[p], Plain>>, <<folder[p], content[p]>>}
      /\ HumanPath(p) \in Paths
      /\ human[HumanPath(p)] # None => made[human[HumanPath(p)]] = content[p]
  <2>1. CASE HumanPath(p) = <<folder[p], Plain>>
    BY <1>a, <2>1, PathFacts DEF HumanPath, FilesMade
  <2>2. CASE HumanPath(p) = <<folder[p], content[p]>>
    <3>1. PICK y \in Paths : y = <<folder[p], content[p]>> /\ y[2] = content[p]
      BY ONLY <1>a, PathFacts
    <3>2. human[y] # None => made[human[y]] = content[p]
      BY <1>a, <3>1 DEF FilesMade
    <3>. QED
      BY ONLY <2>2, <3>1, <3>2
  <2>. QED
    BY <2>1, <2>2 DEF HumanPath
<1>1. PutsAgree'
  BY <1>b DEF PutsAgree
<1>2. FilesMade'
  BY DEF FilesMade
<1>3. OwnFiles'
  BY DEF OwnFiles
<1>4. HandlesMade'
  BY DEF HandlesMade
<1>5. NamesContested'
  <2>1. contested \subseteq contested'
    OBVIOUS
  <2>2. ASSUME NEW q \in Processes \ {p}, phase[q] \in Naming, path[q] = HumanPath(p),
               human[HumanPath(p)] = None
        PROVE  {content[p], content[q]} \subseteq contested'
    BY <2>2
  <2>3. ASSUME NEW q \in Processes, NEW r \in Processes, q # r,
               {phase'[q], phase'[r]} \subseteq Naming, path'[q] = path'[r],
               human[path'[q]] = None
        PROVE  content[q] \in contested'
    <3>1. CASE q = p
      BY <1>b, <2>2, <2>3, <3>1
    <3>2. CASE r = p
      BY <1>b, <2>2, <2>3, <3>2
    <3>3. CASE q # p /\ r # p
      BY <2>1, <2>3, <3>3 DEF NamesContested
    <3>. QED
      BY <3>1, <3>2, <3>3
  <2>4. ASSUME NEW q \in Processes, phase'[q] \in Naming, human[path'[q]] # None
        PROVE  /\ \/ content[q] \in contested'
                  \/ phase'[q] = "check" /\ made[human[path'[q]]] = content[q]
               /\ phase'[q] # "check" => made[human[path'[q]]] \in contested'
    <3>1. CASE q = p
      BY <1>b, <2>4, <3>1
    <3>2. CASE q # p
      BY <2>1, <2>4, <3>2 DEF NamesContested
    <3>. QED
      BY <3>1, <3>2
  <2>5. UNCHANGED <<human, made, content>>
    OBVIOUS
  <2>. QED
    BY ONLY <2>3, <2>4, <2>5 DEF NamesContested
<1>6. StoredHolds'
  BY DEF StoredHolds
<1>7. TmpApart'
  BY DEF TmpApart
<1>8. TornInTheMaking'
  BY DEF TornInTheMaking, InTheMaking
<1>9. WritersMeet'
  BY DEF WritersMeet
<1>10. LoneWriter'
  BY DEF LoneWriter
<1>11. TornOverlapped'
  BY DEF TornOverlapped, IsTorn
<1>12. Listed'
  BY DEF Listed
<1>. QED
  BY <1>1, <1>2, <1>3, <1>4, <1>5, <1>6, <1>7, <1>8, <1>9, <1>10, <1>11, <1>12

LEMMA CheckKeeps ==
  ASSUME StoreInv, TypeOK', NEW p \in Processes, Check(p)
  PROVE  StoreInv'
<1> USE NoneApart DEF StoreInv, TypeOK, PutsAgree, Goto, SetData, Leave, Return, Make,
                      fileVars, putVars, counters, history, Phases, Writing, Naming, Check
<1>1. PutsAgree'
  BY DEF PutsAgree
<1>2. FilesMade'
  BY DEF FilesMade
<1>3. OwnFiles'
  BY DEF OwnFiles
<1>4. HandlesMade'
  BY DEF HandlesMade
<1>5. NamesContested'
  BY DEF NamesContested
<1>6. StoredHolds'
  <2>1. CASE human[path[p]] = None
    BY <2>1 DEF StoredHolds
  <2>2. CASE human[path[p]] # None
    <3>1. content[p] \notin contested => made[human[path[p]]] = content[p]
      BY <2>2 DEF NamesContested
    <3>2. stored' = stored \cup {<<content[p], path[p]>>} /\ UNCHANGED <<human, made, contested>>
      BY <2>2
    <3>. QED
      BY ONLY StoredHolds, <2>2, <3>1, <3>2 DEF StoredHolds
  <2>. QED
    BY <2>1, <2>2
<1>7. TmpApart'
  BY DEF TmpApart
<1>8. TornInTheMaking'
  BY DEF TornInTheMaking, InTheMaking
<1>9. WritersMeet'
  BY DEF WritersMeet
<1>10. LoneWriter'
  BY DEF LoneWriter
<1>11. TornOverlapped'
  BY DEF TornOverlapped, IsTorn
<1>12. Listed'
  BY DEF Listed
<1>. QED
  BY <1>1, <1>2, <1>3, <1>4, <1>5, <1>6, <1>7, <1>8, <1>9, <1>10, <1>11, <1>12

LEMMA LinkKeeps ==
  ASSUME StoreInv, TypeOK', NEW p \in Processes, Link(p)
  PROVE  StoreInv'
<1> USE NoneApart DEF StoreInv, TypeOK, PutsAgree, Goto, SetData, Leave, Return, Make,
                      fileVars, putVars, counters, history, Phases, Writing, Naming, Link
<1>a. /\ content[p] \in Contents /\ path[p] \in Paths /\ human[path[p]] = None
      /\ blob[content[p]] \in Inodes
      /\ human' = [human EXCEPT ![path[p]] = blob[content[p]]]
  BY InHand
<1>b. made[blob[content[p]]] = content[p]
  BY <1>a DEF FilesMade
<1>c. \A x \in Paths : human[x] # None => human'[x] = human[x]
  BY <1>a
<1>d. /\ phase[p] = "link" /\ phase' = [phase EXCEPT ![p] = "idle"]
      /\ \A q \in Processes \ {p} : path'[q] = path[q] /\ content'[q] = content[q]
      /\ UNCHANGED <<data, blob, tmp, made, contested>>
      /\ stored' = stored \cup {<<content[p], path[p]>>}
  OBVIOUS
<1>1. PutsAgree'
  BY DEF PutsAgree
<1>2. FilesMade'
  BY DEF FilesMade
<1>3. OwnFiles'
  BY DEF OwnFiles
<1>4. HandlesMade'
  BY DEF HandlesMade
<1>5. NamesContested'
  <2>1. ASSUME NEW q \in Processes \ {p}, phase[q] \in Naming, path[q] = path[p]
        PROVE  {content[p], content[q]} \subseteq contested
    BY <1>a, <1>d, <2>1 DEF NamesContested
  <2>2. ASSUME NEW q \in Processes, NEW r \in Processes, q # r,
               {phase'[q], phase'[r]} \subseteq Naming, path'[q] = path'[r],
               human'[path'[q]] = None
        PROVE  content'[q] \in contested'
    <3>1. q # p /\ r # p
      BY <1>d, <2>2
    <3>2. path[q] \in Paths /\ human[path[q]] = None
      BY <1>c, <1>d, <2>2, <3>1, InHand
    <3>. QED
      BY <1>d, <2>2, <3>1, <3>2 DEF NamesContested
  <2>3. ASSUME NEW q \in Processes, phase'[q] \in Naming, human'[path'[q]] # None
        PROVE  /\ \/ content'[q] \in contested'
                  \/ phase'[q] = "check" /\ made'[human'[path'[q]]] = content'[q]
               /\ phase'[q] # "check" => made'[human'[path'[q]]] \in contested'
    <3>1. q # p /\ path'[q] = path[q] /\ content'[q] = content[q] /\ phase'[q] = phase[q]
      BY <1>d, <2>3
    <3>2. path[q] \in Paths
      BY <2>3, <3>1, InHand
    <3>3. CASE path[q] = path[p]
      BY <1>a, <1>b, <1>d, <2>1, <2>3, <3>1, <3>3
    <3>4. CASE path[q] # path[p]
      <4>1. human'[path[q]] = human[path[q]]
        BY <1>a, <3>2, <3>4
      <4>. QED
        BY <1>d, <2>3, <3>1, <4>1 DEF NamesContested
    <3>. QED
      BY <3>3, <3>4
  <2>. QED
    BY <2>2, <2>3 DEF NamesContested
<1>6. StoredHolds'
  <2>1. human'[path[p]] = blob[content[p]]
    BY <1>a
  <2>2. \A e \in stored : e[2] \in Paths
    OBVIOUS
  <2>3. ASSUME NEW e \in stored
        PROVE  human'[e[2]] # None /\ (e[1] \notin contested' => made'[human'[e[2]]] = e[1])
    BY <1>c, <1>d, <2>2 DEF StoredHolds
  <2>. QED
    BY <1>a, <1>b, <1>d, <2>1, <2>3 DEF StoredHolds
<1>7. TmpApart'
  <2>1. ASSUME NEW d \in Contents, tmp[d] # None PROVE blob[content[p]] # tmp[d]
    BY <1>a, <1>b, <2>1 DEF TmpApart, FilesMade
  <2>. QED
    BY <1>a, <1>d, <2>1 DEF TmpApart
<1>8. TornInTheMaking'
  BY DEF TornInTheMaking, InTheMaking
<1>9. WritersMeet'
  BY DEF WritersMeet
<1>10. LoneWriter'
  BY DEF LoneWriter
<1>11. TornOverlapped'
  BY DEF TornOverlapped, IsTorn
<1>12. Listed'
  BY DEF Listed
<1>. QED
  BY <1>1, <1>2, <1>3, <1>4, <1>5, <1>6, <1>7, <1>8, <1>9, <1>10, <1>11, <1>12

LEMMA LinkRaisesKeeps ==
  ASSUME StoreInv, TypeOK', NEW p \in Processes, LinkRaises(p)
  PROVE  StoreInv'
<1> USE NoneApart DEF StoreInv, TypeOK, PutsAgree, Goto, SetData, Leave, Return, Make,
                      fileVars, putVars, counters, history, Phases, Writing, Naming, LinkRaises
<1>1. PutsAgree'
  BY DEF PutsAgree
<1>2. FilesMade'
  BY DEF FilesMade
<1>3. OwnFiles'
  BY DEF OwnFiles
<1>4. HandlesMade'
  BY DEF HandlesMade
<1>5. NamesContested'
  BY DEF NamesContested
<1>6. StoredHolds'
  BY DEF StoredHolds
<1>7. TmpApart'
  BY DEF TmpApart
<1>8. TornInTheMaking'
  BY DEF TornInTheMaking, InTheMaking
<1>9. WritersMeet'
  BY DEF WritersMeet
<1>10. LoneWriter'
  BY DEF LoneWriter
<1>11. TornOverlapped'
  BY DEF TornOverlapped, IsTorn
<1>12. Listed'
  BY DEF Listed
<1>. QED
  BY <1>1, <1>2, <1>3, <1>4, <1>5, <1>6, <1>7, <1>8, <1>9, <1>10, <1>11, <1>12

LEMMA ReopenKeeps ==
  ASSUME StoreInv, TypeOK', NEW p \in Processes, Reopen(p)
  PROVE  StoreInv'
<1> USE NoneApart DEF StoreInv, TypeOK, PutsAgree, Goto, SetData, Leave, Return, Make,
                      fileVars, putVars, counters, history, Phases, Writing, Naming, Reopen
<1>a. /\ content[p] \in Contents /\ phase[p] = "reopen" /\ handle[p] = None
      /\ path[p] \in Paths /\ path[p][2] \in {Plain, content[p]}
  BY InHand
<1> DEFINE c == content[p]
           x == path[p]
<1>b. human[x] \in Inodes \cup {None}
  BY <1>a
<1>c. PICK i \in FileAt(human[x]) :
        /\ data' = [data EXCEPT ![i] = Torn]
        /\ made' = IF data[i] = None THEN [made EXCEPT ![i] = c] ELSE made
        /\ human' = [human EXCEPT ![x] = i]
        /\ handle' = [handle EXCEPT ![p] = i]
  OBVIOUS
<1>d. i \in Inodes /\ (human[x] # None => i = human[x]) /\ (human[x] = None => data[i] = None)
  BY <1>b, <1>c, FileTaken
<1>e. /\ phase' = [phase EXCEPT ![p] = "rewrite"]
      /\ UNCHANGED <<blob, tmp, content, folder, path, manifest, puts, crashes, stored,
                     overlapped, contested>>
  OBVIOUS
<1>f. \A d \in Contents : /\ tmp[d] # i
                          /\ blob[d] = i => d \in contested
  <2>1. CASE human[x] = None
    BY <1>d, <2>1, FreshFile
  <2>2. CASE human[x] # None
    BY <1>a, <1>d, <2>2 DEF TmpApart, FilesMade, NamesContested
  <2>. QED
    BY <2>1, <2>2
<1>g. /\ i # None /\ data'[i] = Torn
      /\ \A j \in Inodes : j # i => made'[j] = made[j] /\ data'[j] = data[j]
  BY <1>c, <1>d
<1>h. \/ made[i] = None /\ made'[i] = c /\ human[x] = None
      \/ /\ made[i] # None /\ made'[i] = made[i] /\ human[x] = i
         /\ made[i] \in contested /\ c \in contested
  <2>1. CASE human[x] = None
    BY <1>a, <1>c, <1>d, <2>1, FreshFile
  <2>2. CASE human[x] # None
    BY <1>a, <1>c, <1>d, <2>2 DEF FilesMade, NamesContested
  <2>. QED
    BY <2>1, <2>2
<1>i. /\ handle'[p] = i /\ human'[x] = i
      /\ \A y \in Paths \ {x} : human'[y] = human[y]
      /\ \A q \in Processes \ {p} : handle'[q] = handle[q] /\ phase'[q] = phase[q]
  BY <1>a, <1>c, <1>e
<1>j. \A j \in Inodes : made[j] # None => made'[j] = made[j]
  BY <1>g, <1>h
<1>k. \A y \in Paths : human[y] # None => human'[y] = human[y]
  BY <1>d, <1>i
<1> HIDE DEF Reopen, c, x
<1>1. PutsAgree'
  BY <1>a, <1>c, <1>d, <1>e, <1>g DEF PutsAgree
<1>2. FilesMade'
  <2>1. ASSUME NEW j \in Inodes PROVE data'[j] = None <=> made'[j] = None
    BY <1>a, <1>g, <1>h DEF FilesMade, c
  <2>2. /\ \A d \in Contents : blob[d] # None => made'[blob[d]] = d
        /\ \A d \in Contents : tmp[d] # None => made'[tmp[d]] = d
    BY <1>j DEF FilesMade
  <2>3. ASSUME NEW y \in Paths, human'[y] # None
        PROVE  made'[human'[y]] # None /\ (y[2] # Plain => made'[human'[y]] = y[2])
    <3>1. CASE human[y] # None
      BY <1>j, <1>k, <3>1 DEF FilesMade
    <3>2. CASE human[y] = None
      BY <1>a, <1>h, <1>i, <2>3, <3>2 DEF c, x
    <3>. QED
      BY <3>1, <3>2
  <2>. QED
    BY <1>e, <2>1, <2>2, <2>3 DEF FilesMade
<1>3. OwnFiles'
  <2>1. ASSUME NEW j \in Inodes, made'[j] # None, made'[j] \notin contested,
               NEW q \in Processes, handle'[q] = j
        PROVE  content[q] = made'[j]
    <3>1. CASE q = p
      BY <1>h, <1>i, <2>1, <3>1 DEF c
    <3>2. CASE q # p
      <4>1. handle[q] = j /\ made[j] # None
        BY <1>i, <2>1, <3>2 DEF HandlesMade
      <4>. QED
        BY <1>j, <2>1, <4>1 DEF OwnFiles
    <3>. QED
      BY <3>1, <3>2
  <2>2. ASSUME NEW j \in Inodes, made'[j] # None, made'[j] \notin contested
        PROVE  data'[j] \in {made'[j], Torn}
    BY <1>g, <2>2 DEF OwnFiles
  <2>. QED
    BY <1>e, <2>1, <2>2 DEF OwnFiles
<1>4. HandlesMade'
  <2>1. ASSUME NEW q \in Processes
        PROVE  /\ handle'[q] # None => made'[handle'[q]] # None
               /\ phase'[q] = "write" => made'[handle'[q]] = content[q]
               /\ phase'[q] = "rewrite" =>
                    /\ handle'[q] = human'[path[q]]
                    /\ content[q] \in contested \/ made'[handle'[q]] = content[q]
    <3>1. CASE q = p
      BY <1>a, <1>e, <1>h, <1>i, <3>1 DEF c, x
    <3>2. CASE q # p
      <4>1. handle[q] # None => handle[q] \in Inodes /\ made'[handle[q]] = made[handle[q]]
        BY <1>j DEF HandlesMade
      <4>2. phase[q] = "rewrite" => human'[path[q]] = human[path[q]]
        <5>1. ASSUME phase[q] = "rewrite" PROVE path[q] \in Paths /\ human[path[q]] # None
          BY <5>1, InHand DEF HandlesMade
        <5>. QED
          BY <1>k, <5>1
      <4>3. handle'[q] = handle[q] /\ phase'[q] = phase[q]
        BY <1>i, <3>2
      <4>4. phase[q] \in {"write", "rewrite"} => handle[q] # None
        OBVIOUS
      <4>. QED
        BY <4>1, <4>2, <4>3, <4>4 DEF HandlesMade
    <3>. QED
      BY <3>1, <3>2
  <2>. QED
    BY <1>e, <2>1 DEF HandlesMade
<1>5. NamesContested'
  <2>1. ASSUME NEW q \in Processes \ {p}, phase[q] \in Naming, path[q] = x, human[x] = None
        PROVE  {c, content[q]} \subseteq contested
    BY <1>a, <2>1 DEF NamesContested, c, x
  <2>2. ASSUME NEW q \in Processes, NEW r \in Processes, q # r,
               {phase'[q], phase'[r]} \subseteq Naming, path[q] = path[r],
               human'[path[q]] = None
        PROVE  content[q] \in contested
    <3>1. phase'[q] = phase[q] /\ phase'[r] = phase[r]
      BY <1>e, <1>i, <2>2
    <3>2. path[q] \in Paths /\ human[path[q]] = None
      BY <1>k, <2>2, <3>1, InHand
    <3>. QED
      BY <2>2, <3>1, <3>2 DEF NamesContested
  <2>3. ASSUME NEW q \in Processes, phase'[q] \in Naming, human'[path[q]] # None
        PROVE  /\ \/ content[q] \in contested
                  \/ phase'[q] = "check" /\ made'[human'[path[q]]] = content[q]
               /\ phase'[q] # "check" => made'[human'[path[q]]] \in contested
    <3>1. q # p /\ phase'[q] = phase[q] /\ path[q] \in Paths
      BY <1>e, <1>i, <2>3, InHand
    <3>2. CASE human[path[q]] # None
      <4>1. human'[path[q]] = human[path[q]] /\ made'[human[path[q]]] = made[human[path[q]]]
        BY <1>j, <1>k, <3>1, <3>2 DEF FilesMade
      <4>. QED
        BY <2>3, <3>1, <3>2, <4>1 DEF NamesContested
    <3>3. CASE human[path[q]] = None
      <4>1. path[q] = x
        BY <1>i, <2>3, <3>1, <3>3
      <4>. QED
        BY <1>g, <1>h, <1>i, <2>1, <2>3, <3>1, <3>3, <4>1
    <3>. QED
      BY <3>2, <3>3
  <2>. QED
    BY <1>e, <2>2, <2>3 DEF NamesContested
<1>6. StoredHolds'
  <2>1. ASSUME NEW e \in stored
        PROVE  /\ human'[e[2]] = human[e[2]]
               /\ made'[human[e[2]]] = made[human[e[2]]]
    <3>1. e[2] \in Paths /\ human[e[2]] # None
      BY DEF StoredHolds
    <3>. QED
      BY <1>j, <1>k, <3>1 DEF FilesMade
  <2>. QED
    BY <1>e, <2>1 DEF StoredHolds
<1>7. TmpApart'
  BY <1>e, <1>f, <1>i DEF TmpApart
<1>8. TornInTheMaking'
  <2>1. ASSUME NEW j \in Inodes, j # i, data'[j] = Torn
        PROVE  crashes > 0 \/ \E q \in Processes : handle'[q] = j
    <3>1. data[j] = Torn
      BY <1>g, <2>1
    <3>2. CASE crashes > 0
      BY <3>2
    <3>3. CASE \E q \in Processes : handle[q] = j
      <4>1. PICK q \in Processes : handle[q] = j
        BY <3>3
      <4>2. q # p
        BY <1>a, <2>1, <4>1
      <4>. QED
        BY <4>1, <4>2, <1>i
    <3>. QED
      BY <2>1, <3>1, <3>2, <3>3 DEF TornInTheMaking, InTheMaking
  <2>. QED
    BY <1>e, <1>i, <2>1 DEF TornInTheMaking, InTheMaking
<1>9. WritersMeet'
  BY <1>e, <1>i DEF WritersMeet
<1>10. LoneWriter'
  <2>1. ASSUME NEW q \in Processes, content[q] \notin overlapped,
               phase'[q] \in {"write", "rename"}
        PROVE  /\ phase'[q] = "write" => handle'[q] = tmp[content[q]]
               /\ phase'[q] = "rename" => /\ tmp[content[q]] # None
                                         /\ data'[tmp[content[q]]] = content[q]
    <3>1. q # p /\ phase'[q] = phase[q] /\ handle'[q] = handle[q] /\ content[q] \in Contents
      BY <1>e, <1>i, <2>1
    <3>2. tmp[content[q]] # None => data'[tmp[content[q]]] = data[tmp[content[q]]]
      BY <1>f, <1>g, <3>1
    <3>. QED
      BY <2>1, <3>1, <3>2 DEF LoneWriter
  <2>. QED
    BY <1>e, <2>1 DEF LoneWriter
<1>11. TornOverlapped'
  <2>1. ASSUME NEW d \in Contents, blob[d] # None, d \notin contested
        PROVE  data'[blob[d]] = data[blob[d]]
    BY <1>f, <1>g, <2>1
  <2>. QED
    BY <1>e, <2>1 DEF TornOverlapped, IsTorn
<1>12. Listed'
  BY <1>e DEF Listed
<1>. QED
  BY <1>1, <1>2, <1>3, <1>4, <1>5, <1>6, <1>7, <1>8, <1>9, <1>10, <1>11, <1>12

LEMMA RewriteKeeps ==
  ASSUME StoreInv, TypeOK', NEW p \in Processes, Rewrite(p)
  PROVE  StoreInv'
<1> USE NoneApart DEF StoreInv, TypeOK, PutsAgree, Goto, SetData, Leave, Return, Make,
                      fileVars, putVars, counters, history, Phases, Writing, Naming, Rewrite
<1>1. PutsAgree'
  BY DEF PutsAgree
<1>2. FilesMade'
  <2>1. handle[p] \in Inodes /\ data[handle[p]] # None /\ content[p] # None
    BY DEF FilesMade, HandlesMade
  <2>. QED
    BY <2>1 DEF FilesMade
<1>3. OwnFiles'
  BY DEF OwnFiles
<1>4. HandlesMade'
  BY DEF HandlesMade
<1>5. NamesContested'
  BY DEF NamesContested
<1>6. StoredHolds'
  <2>1. content[p] \in Contents /\ path[p] \in Paths
    BY InHand
  <2>2. /\ human[path[p]] # None
        /\ content[p] \notin contested => made[human[path[p]]] = content[p]
    BY DEF HandlesMade
  <2>3. stored' = stored \cup {<<content[p], path[p]>>} /\ UNCHANGED <<human, made, contested>>
    OBVIOUS
  <2>. QED
    BY ONLY StoredHolds, <2>2, <2>3 DEF StoredHolds
<1>7. TmpApart'
  BY DEF TmpApart
<1>8. TornInTheMaking'
  BY DEF TornInTheMaking, InTheMaking
<1>9. WritersMeet'
  BY DEF WritersMeet
<1>10. LoneWriter'
  <2>1. human[path[p]] = handle[p]
    BY DEF HandlesMade
  <2>2. SUFFICES ASSUME NEW q \in Processes, content[q] \notin overlapped,
                        phase'[q] \in {"write", "rename"}
                 PROVE  /\ phase'[q] = "write" => handle'[q] = tmp[content[q]]
                        /\ phase'[q] = "rename" => /\ tmp[content[q]] # None
                                                  /\ data'[tmp[content[q]]] = content[q]
    BY DEF LoneWriter
  <2>3. /\ q # p /\ content[q] \in Contents
        /\ phase'[q] = phase[q] /\ handle'[q] = handle[q]
    BY <2>2
  <2>4. tmp[content[q]] # None => tmp[content[q]] # handle[p]
    BY <2>1, <2>3, InHand DEF TmpApart
  <2>. QED
    BY <2>2, <2>3, <2>4 DEF LoneWriter
<1>11. TornOverlapped'
  <2>1. SUFFICES ASSUME NEW d \in Contents, blob[d] # None, data'[blob[d]] # d, d \notin contested
                 PROVE  d \in overlapped
    BY DEF TornOverlapped, IsTorn
  <2>2. blob[d] = handle[p] => content[p] = d
    BY <2>1 DEF FilesMade, HandlesMade, OwnFiles
  <2>3. data'[blob[d]] = data[blob[d]]
    BY <2>1, <2>2
  <2>. QED
    BY <2>1, <2>3 DEF TornOverlapped, IsTorn
<1>12. Listed'
  BY DEF Listed
<1>. QED
  BY <1>1, <1>2, <1>3, <1>4, <1>5, <1>6, <1>7, <1>8, <1>9, <1>10, <1>11, <1>12

LEMMA CrashKeeps ==
  ASSUME StoreInv, TypeOK', NEW p \in Processes, Crash(p)
  PROVE  StoreInv'
<1> USE NoneApart DEF StoreInv, TypeOK, PutsAgree, Goto, SetData, Leave, Return, Make,
                      fileVars, putVars, counters, history, Phases, Writing, Naming, Crash
<1>1. PutsAgree'
  BY DEF PutsAgree
<1>2. FilesMade'
  BY DEF FilesMade
<1>3. OwnFiles'
  BY DEF OwnFiles
<1>4. HandlesMade'
  BY DEF HandlesMade
<1>5. NamesContested'
  BY DEF NamesContested
<1>6. StoredHolds'
  BY DEF StoredHolds
<1>7. TmpApart'
  BY DEF TmpApart
<1>8. TornInTheMaking'
  BY DEF TornInTheMaking, InTheMaking
<1>9. WritersMeet'
  BY DEF WritersMeet
<1>10. LoneWriter'
  BY DEF LoneWriter
<1>11. TornOverlapped'
  BY DEF TornOverlapped, IsTorn
<1>12. Listed'
  BY DEF Listed
<1>. QED
  BY <1>1, <1>2, <1>3, <1>4, <1>5, <1>6, <1>7, <1>8, <1>9, <1>10, <1>11, <1>12

LEMMA WriteManifestKeeps ==
  ASSUME StoreInv, TypeOK', WriteManifest
  PROVE  StoreInv'
<1> USE DEF StoreInv, WriteManifest, fileVars, putVars, counters, history
<1>1. Listed'
  <2>1. SUFFICES ASSUME NEW e \in manifest', e.file = "blob"
                 PROVE  /\ blob[e.name] # None
                        /\ e.name \notin overlapped \cup contested => e.sha = e.name
    BY DEF Listed
  <2>2. PICK c \in Contents : e \in EntriesOf(c)
    BY <2>1
  <2>3. e.name = c /\ blob[c] # None /\ e.sha = data[blob[c]]
    BY <2>1, <2>2 DEF EntriesOf
  <2>. QED
    BY <2>3 DEF TornOverlapped, IsTorn
<1>2. PutsAgree' /\ FilesMade' /\ OwnFiles' /\ HandlesMade' /\ NamesContested'
  BY DEF PutsAgree, FilesMade, OwnFiles, HandlesMade, NamesContested
<1>3. StoredHolds' /\ TmpApart' /\ WritersMeet' /\ LoneWriter'
  BY DEF StoredHolds, TmpApart, WritersMeet, LoneWriter
<1>4. TornInTheMaking' /\ TornOverlapped'
  BY DEF TornInTheMaking, InTheMaking, TornOverlapped, IsTorn
<1>. QED
  BY <1>1, <1>2, <1>3, <1>4

LEMMA StutterKeeps ==
  ASSUME StoreInv, TypeOK', UNCHANGED vars
  PROVE  StoreInv'
<1> USE DEF StoreInv, vars, fileVars, putVars, counters, history
<1>1. PutsAgree' /\ FilesMade' /\ OwnFiles' /\ HandlesMade' /\ NamesContested'
  BY DEF PutsAgree, FilesMade, OwnFiles, HandlesMade, NamesContested
<1>2. StoredHolds' /\ TmpApart' /\ WritersMeet' /\ LoneWriter' /\ Listed'
  BY DEF StoredHolds, TmpApart, WritersMeet, LoneWriter, Listed
<1>3. TornInTheMaking' /\ TornOverlapped'
  BY DEF TornInTheMaking, InTheMaking, TornOverlapped, IsTorn
<1>. QED
  BY <1>1, <1>2, <1>3

LEMMA InitStore == Init => StoreInv
<1> SUFFICES ASSUME Init PROVE StoreInv
  OBVIOUS
<1>1. TypeOK
  BY InitTyped
<1>2. PutsAgree /\ FilesMade /\ OwnFiles /\ HandlesMade /\ NamesContested
  BY NoneApart DEF Init, PutsAgree, FilesMade, OwnFiles, HandlesMade, NamesContested, Naming
<1>3. StoredHolds /\ TmpApart /\ WritersMeet /\ LoneWriter
  BY DEF Init, StoredHolds, TmpApart, WritersMeet, LoneWriter
<1>4. TornInTheMaking /\ TornOverlapped /\ Listed
  BY NoneApart DEF Init, TornInTheMaking, TornOverlapped, IsTorn, Listed
<1>. QED
  BY <1>1, <1>2, <1>3, <1>4 DEF StoreInv

LEMMA StoreStep ==
  ASSUME StoreInv, [Next]_vars
  PROVE  StoreInv'
<1>1. TypeOK'
  BY StepTyped DEF StoreInv
<1>2. ASSUME NEW p \in Processes, PutStep(p) PROVE StoreInv'
  BY <1>1, <1>2, StartPutKeeps, OpenKeeps, WriteKeeps, RenameKeeps, LookUpKeeps, CheckKeeps,
     LinkKeeps, LinkRaisesKeeps, ReopenKeeps, RewriteKeeps DEF PutStep
<1>. QED
  BY <1>1, <1>2, CrashKeeps, WriteManifestKeeps, StutterKeeps DEF Next

(***************************************************************************)
(* The inductive invariant holds in every reachable state: every file was  *)
(* made for one content, its names say which, and only puts that held one  *)
(* free name together ever write into a file of another's.                 *)
(***************************************************************************)
THEOREM StoreInductive == Spec => []StoreInv
<1>1. Init => StoreInv
  BY InitStore
<1>2. StoreInv /\ [Next]_vars => StoreInv'
  BY StoreStep
<1>. QED
  BY <1>1, <1>2, PTL DEF Spec
-----------------------------------------------------------------------------
(***************************************************************************)
(* A blob that does not hold its content is contested, or was renamed      *)
(* while two processes were writing it, and somebody still completes it or *)
(* was killed.                                                             *)
(***************************************************************************)
THEOREM TornBlobs == Spec => []TornTakesTwo
<1>1. ASSUME StoreInv PROVE TornTakesTwo
  <2>1. ASSUME NEW c \in Contents, IsTorn(c), c \notin contested
        PROVE  c \in overlapped /\ InTheMaking(blob[c])
    <3>1. blob[c] \in Inodes /\ data[blob[c]] = Torn
      BY <1>1, <2>1, NoneApart DEF StoreInv, TypeOK, FilesMade, OwnFiles, IsTorn
    <3>. QED
      BY <1>1, <2>1, <3>1 DEF StoreInv, TornOverlapped, TornInTheMaking
  <2>. QED
    BY <2>1 DEF TornTakesTwo
<1>. QED
  BY <1>1, StoreInductive, PTL

(* What the invariant says of a stored content. *)
LEMMA StoredEvidence ==
  ASSUME StoreInv, NEW e \in stored, e[1] \notin contested
  PROVE  HoldsEvidence(e[2], e[1])
<1>1. e[1] \in Contents /\ e[2] \in Paths
  BY DEF StoreInv, TypeOK
<1>2. human[e[2]] \in Inodes /\ human[e[2]] # None /\ made[human[e[2]]] = e[1]
  BY <1>1 DEF StoreInv, TypeOK, StoredHolds
<1>3. data[human[e[2]]] \in {e[1], Torn}
  BY <1>1, <1>2, NoneApart DEF StoreInv, OwnFiles
<1>. QED
  BY <1>2, <1>3 DEF StoreInv, TornInTheMaking, HoldsEvidence

(***************************************************************************)
(* What a put() that returned stored is in its folder under the name it    *)
(* chose, with its content, or is still being written; unless contested.   *)
(***************************************************************************)
THEOREM EvidenceComplete == Spec => []EvidenceIsThere
<1>1. ASSUME StoreInv PROVE EvidenceIsThere
  BY <1>1, StoredEvidence DEF EvidenceIsThere
<1>. QED
  BY <1>1, StoreInductive, PTL

(***************************************************************************)
(* verify_manifest() never misses a listed blob, and finds every one that  *)
(* is neither contested nor was written by two together as it was listed.  *)
(***************************************************************************)
THEOREM ManifestTrue == Spec => []ManifestStaysTrue
<1>1. ASSUME StoreInv PROVE ManifestStaysTrue
  BY <1>1 DEF StoreInv, TypeOK, Entries, Listed, ManifestStaysTrue, TornOverlapped, IsTorn,
              StillThere
<1>. QED
  BY <1>1, StoreInductive, PTL

(* No step writes anything else into the file of a whole blob. *)
LEMMA BlobFileKept ==
  ASSUME StoreInv, [Next]_vars, NEW c \in Contents, Whole(c), c \notin contested
  PROVE  data'[blob[c]] = c /\ blob'[c] # None
<1> USE NoneApart DEF StoreInv, TypeOK, PutsAgree, Whole, Goto, SetData, Leave, Return,
                      fileVars, putVars, counters, history
<1>1. blob[c] \in Inodes /\ made[blob[c]] = c
  BY DEF FilesMade
<1>2. ASSUME NEW p \in Processes, Open(p) PROVE data'[blob[c]] = c /\ blob'[c] # None
  <2>1. PICK i \in FileAt(tmp[content[p]]) : data' = [data EXCEPT ![i] = Torn]
    BY <1>2 DEF Open
  <2>2. content[p] \in Contents /\ tmp[content[p]] \in Inodes \cup {None}
    BY <1>2 DEF Open
  <2>3. i # blob[c]
    BY <1>1, <2>1, <2>2, FileTaken DEF TmpApart, FilesMade
  <2>. QED
    BY <1>1, <1>2, <2>1, <2>3 DEF Open
<1>3. ASSUME NEW p \in Processes, Reopen(p) PROVE data'[blob[c]] = c /\ blob'[c] # None
  <2>1. PICK i \in FileAt(human[path[p]]) : data' = [data EXCEPT ![i] = Torn]
    BY <1>3 DEF Reopen
  <2>2. path[p] \in Paths /\ phase[p] = "reopen" /\ phase[p] \in Naming
    BY <1>3, InHand DEF Reopen, Naming
  <2>3. human[path[p]] # None => made[human[path[p]]] \in contested
    BY <2>2 DEF NamesContested
  <2>4. i # blob[c]
    BY <1>1, <2>1, <2>2, <2>3, FileTaken
  <2>. QED
    BY <1>1, <1>3, <2>1, <2>4 DEF Reopen
<1>4. ASSUME NEW p \in Processes, Write(p) \/ Rewrite(p)
      PROVE  data'[blob[c]] = c /\ blob'[c] # None
  BY <1>1, <1>4 DEF Write, Rewrite, OwnFiles
<1>5. ASSUME NEW p \in Processes, Rename(p) PROVE data'[blob[c]] = c /\ blob'[c] # None
  BY <1>1, <1>5 DEF Rename
<1>6. ASSUME UNCHANGED <<data, blob>> PROVE data'[blob[c]] = c /\ blob'[c] # None
  BY <1>6
<1>. QED
  BY <1>2, <1>3, <1>4, <1>5, <1>6
     DEF Next, PutStep, StartPut, LookUp, Check, Link, LinkRaises, Crash, WriteManifest, vars

(***************************************************************************)
(* Nothing removes a blob or touches the file of a whole one whose content *)
(* is not contested; its name may pass to a torn file only when two        *)
(* processes wrote the content.                                            *)
(***************************************************************************)
THEOREM BlobsImmutable == Spec => BlobsStayWhole
<1>1. ASSUME StoreInv, StoreInv', [Next]_vars
      PROVE  [\A c \in Contents : Whole(c) /\ c \notin contested =>
                /\ data'[blob[c]] = c
                /\ Whole(c)' \/ (IsTorn(c)' /\ c \in overlapped')]_vars
  <2>1. ASSUME NEW c \in Contents, Whole(c), c \notin contested
        PROVE  /\ data'[blob[c]] = c
               /\ Whole(c)' \/ (IsTorn(c)' /\ c \in overlapped')
    <3>1. data'[blob[c]] = c /\ blob'[c] # None
      BY <1>1, <2>1, BlobFileKept
    <3>2. Whole(c)' \/ IsTorn(c)'
      BY <3>1 DEF Whole, IsTorn
    <3>3. CASE c \notin contested'
      <4>1. IsTorn(c)' /\ c \notin contested' => c \in overlapped'
        BY <1>1 DEF StoreInv, TornOverlapped
      <4>. QED
        BY <3>1, <3>2, <3>3, <4>1
    <3>4. CASE c \in contested'
      <4>1. contested' # contested
        BY <2>1, <3>4
      <4>2. UNCHANGED <<data, blob>>
        BY <1>1, <4>1 DEF Next, PutStep, StartPut, Open, Write, Rename, LookUp, Check, Link,
           LinkRaises, Reopen, Rewrite, Crash, WriteManifest, vars, history, fileVars
      <4>. QED
        BY <2>1, <4>2 DEF Whole
    <3>. QED
      BY <3>1, <3>3, <3>4
  <2>. QED
    BY <2>1
<1>. QED
  BY <1>1, StoreInductive, PTL DEF Spec, BlobsStayWhole

(***************************************************************************)
(* Inodes, names and processes stay in their types.                        *)
(***************************************************************************)
THEOREM StoreTypeCorrect == Spec => []TypeOK
<1>1. StoreInv => TypeOK
  BY DEF StoreInv
<1>. QED
  BY <1>1, StoreInductive, PTL
-----------------------------------------------------------------------------
(***************************************************************************)
(* One process, as in the embedded mode: its puts follow one another, for  *)
(* put() has no await, and the exceptions never arise.                     *)
(***************************************************************************)
Alone == \A p, q \in Processes : p = q
Undisturbed == contested = {} /\ overlapped = {}

LEMMA AloneIsUndisturbed == ASSUME Alone PROVE Spec => []Undisturbed
<1>1. Init => Undisturbed
  BY DEF Init, Undisturbed
<1>2. ASSUME Undisturbed, [Next]_vars PROVE Undisturbed'
  <2>1. \A p \in Processes : Processes \ {p} = {}
    BY DEF Alone
  <2>2. ASSUME NEW p \in Processes, Open(p) PROVE Undisturbed'
    BY <1>2, <2>1, <2>2 DEF Open, Undisturbed
  <2>3. ASSUME NEW p \in Processes, LookUp(p) PROVE Undisturbed'
    BY <1>2, <2>1, <2>3 DEF LookUp, Undisturbed
  <2>4. ASSUME UNCHANGED <<contested, overlapped>> PROVE Undisturbed'
    BY <1>2, <2>4 DEF Undisturbed
  <2>. QED
    BY <1>2, <2>2, <2>3, <2>4 DEF Next, PutStep, StartPut, Write, Rename, Check, Link,
       LinkRaises, Reopen, Rewrite, Crash, WriteManifest, vars, history
<1>. QED
  BY <1>1, <1>2, PTL DEF Spec

(***************************************************************************)
(* Then artifact_store.py:3-4 holds as it is written: a blob never holds   *)
(* another content than its name says, whatever the folders, the names,    *)
(* the links that are refused and the crashes.                             *)
(***************************************************************************)
THEOREM AloneKeepsBlobs == ASSUME Alone PROVE Spec => []BlobsAreTheirNames
<1>1. ASSUME StoreInv, Undisturbed PROVE BlobsAreTheirNames
  <2>1. ASSUME NEW c \in Contents, blob[c] # None PROVE data[blob[c]] \in {c, Torn}
    <3>1. blob[c] \in Inodes /\ made[blob[c]] = c
      BY <1>1, <2>1 DEF StoreInv, TypeOK, FilesMade
    <3>. QED
      BY <1>1, <3>1, NoneApart DEF StoreInv, OwnFiles, Undisturbed
  <2>. QED
    BY <2>1 DEF BlobsAreTheirNames
<1>. QED
  BY <1>1, StoreInductive, AloneIsUndisturbed, PTL

(***************************************************************************)
(* Nor does it lose evidence: of two files the planner gives one name,     *)
(* the second gets a name of its own in the folder.                        *)
(***************************************************************************)
THEOREM AloneKeepsEvidence == ASSUME Alone PROVE Spec => []EvidenceIsNeverLost
<1>1. ASSUME StoreInv, Undisturbed PROVE EvidenceIsNeverLost
  <2>1. ASSUME NEW e \in stored
        PROVE  \E n \in {Plain, e[1]} : HoldsEvidence(<<e[2][1], n>>, e[1])
    <3>1. HoldsEvidence(e[2], e[1])
      BY <1>1, StoredEvidence DEF Undisturbed
    <3>2. e[2] \in Paths /\ e[1] \in Contents
      BY <1>1 DEF StoreInv, TypeOK
    <3>3. e[2] = <<e[2][1], e[2][2]>> /\ e[2][2] \in Contents \cup {Plain}
      BY <3>2 DEF Paths
    <3>4. e[2][2] \in {Plain, e[1]}
      BY <1>1, <3>1, <3>2, <3>3 DEF StoreInv, FilesMade, StoredHolds, Undisturbed, HoldsEvidence
    <3>. QED
      BY <3>1, <3>3, <3>4
  <2>. QED
    BY <2>1 DEF EvidenceIsNeverLost
<1>. QED
  BY <1>1, StoreInductive, AloneIsUndisturbed, PTL
=============================================================================
