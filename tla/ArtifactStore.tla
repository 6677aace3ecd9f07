---------------------------- MODULE ArtifactStore ----------------------------
(***************************************************************************)
(* storage/artifact_store.py and storage/manifest.py: the content-addressed*)
(* evidence files of a run and the manifest that lists them.  put() runs   *)
(* without an await, so the puts of one process do not interleave; the     *)
(* processes that share a run's directory (worker nodes, agent containers) *)
(* interleave between its system calls.  A content stands for its sha256.  *)
(* Hard links make inodes visible, so files are names of numbered inodes.  *)
(***************************************************************************)
EXTENDS Naturals, FiniteSets

CONSTANTS
  Contents,    \* what is put: bytes, named by their sha256
  Processes,   \* the processes that put into the run's directory
  Folders,     \* evidence folders: the planner's, cached with its plan
  LinkMayFail, \* the file system may refuse a hard link
  MaxPuts,     \* bound: calls of put()
  MaxCrashes,  \* bound: processes killed inside put()
  Torn,        \* what a file holds between its truncation and its write
  Plain,       \* the planner's name for a file of an evidence folder
  None         \* no file, no handle, no path, no folder

Inodes == 1..(2 * MaxPuts)  \* a put makes two files at most

(* The planner gives all files of a folder one name; the other names are   *)
(* the disambiguated ones, "<name>-<sha[:8]>".                             *)
Paths == Folders \X (Contents \cup {Plain})

ASSUME StoreAssumption ==
  /\ LinkMayFail \in BOOLEAN
  /\ MaxPuts \in Nat /\ MaxCrashes \in Nat
  /\ Torn \notin Contents /\ Plain \notin Contents
  /\ None \notin Contents \cup {Torn} \cup Inodes \cup Folders \cup Paths

VARIABLES
  data,       \* data[i]: what inode i holds; None: not created
  blob,       \* blob[c]: inode of blobs/<sha>
  tmp,        \* tmp[c]: inode of blobs/<sha>.tmp
  human,      \* human[path]: inode of the file in the evidence folder
  phase,      \* phase[p]: where p is inside put()
  content,    \* content[p]: what p puts
  folder,     \* folder[p]: the subfolder it is tagged with, or None
  handle,     \* handle[p]: inode p has open for writing
  path,       \* path[p]: human_path
  manifest,   \* entries of RUN_MANIFEST.json; None: not written yet
  puts,       \* number of calls of put() so far
  crashes,    \* number of crashes so far
  made,       \* history: made[i] is the content of the put that created i
  stored,     \* history: <<content, path>> of the puts that returned
  overlapped, \* history: contents two processes were writing together
  contested   \* history: contents of puts that chose one free name together

fileVars == <<data, blob, tmp, human>>
putVars == <<phase, content, folder, handle, path>>
counters == <<puts, crashes>>
history == <<made, stored, overlapped, contested>>
vars == <<fileVars, putVars, manifest, counters, history>>

Writing == {"open", "write", "rename"}
Naming == {"check", "link", "reopen"}
Phases == Writing \cup Naming \cup {"idle", "lookup", "rewrite"}
Entries == [file : {"blob", "tmp"}, name : Contents, sha : Contents \cup {Torn}]

TypeOK ==
  /\ data \in [Inodes -> Contents \cup {Torn, None}]
  /\ blob \in [Contents -> Inodes \cup {None}]
  /\ tmp \in [Contents -> Inodes \cup {None}]
  /\ human \in [Paths -> Inodes \cup {None}]
  /\ phase \in [Processes -> Phases]
  /\ content \in [Processes -> Contents \cup {None}]
  /\ folder \in [Processes -> Folders \cup {None}]
  /\ handle \in [Processes -> Inodes \cup {None}]
  /\ path \in [Processes -> Paths \cup {None}]
  /\ manifest = None \/ manifest \subseteq Entries
  /\ puts \in 0..MaxPuts
  /\ crashes \in 0..MaxCrashes
  /\ made \in [Inodes -> Contents \cup {None}]
  /\ stored \subseteq Contents \X Paths
  /\ overlapped \subseteq Contents
  /\ contested \subseteq Contents

Init ==
  /\ data = [i \in Inodes |-> None]
  /\ blob = [c \in Contents |-> None]
  /\ tmp = [c \in Contents |-> None]
  /\ human = [x \in Paths |-> None]
  /\ phase = [p \in Processes |-> "idle"]
  /\ content = [p \in Processes |-> None]
  /\ folder = [p \in Processes |-> None]
  /\ handle = [p \in Processes |-> None]
  /\ path = [p \in Processes |-> None]
  /\ manifest = None
  /\ puts = 0
  /\ crashes = 0
  /\ made = [i \in Inodes |-> None]
  /\ stored = {}
  /\ overlapped = {}
  /\ contested = {}
-----------------------------------------------------------------------------
Goto(p, where) == phase' = [phase EXCEPT ![p] = where]
SetData(i, d) == data' = [data EXCEPT ![i] = d]

(* open(..., "wb"): the file of that name, or a new one. *)
FileAt(name) ==
  IF name # None THEN {name}
  ELSE {i \in Inodes : data[i] = None /\ \A k \in 1..(i - 1) : data[k] # None}

(* An inode is made for the content of the put that creates it. *)
Make(i, c) == made' = IF data[i] = None THEN [made EXCEPT ![i] = c] ELSE made

Leave(p) ==
  /\ Goto(p, "idle")
  /\ content' = [content EXCEPT ![p] = None]
  /\ folder' = [folder EXCEPT ![p] = None]
  /\ handle' = [handle EXCEPT ![p] = None]
  /\ path' = [path EXCEPT ![p] = None]

Return(p) ==
  /\ Leave(p)
  /\ stored' = stored \cup {<<content[p], path[p]>>}

(* dest.exists(): a content that has a blob is not written again.  The     *)
(* folder is the plan's, so any sample's put may name any of them; one     *)
(* without a folder is over when the blob is there.                        *)
StartPut(p, c, f) ==
  /\ phase[p] = "idle"
  /\ puts < MaxPuts
  /\ puts' = puts + 1
  /\ IF blob[c] # None /\ f = None
     THEN UNCHANGED <<phase, content, folder>>
     ELSE /\ Goto(p, IF blob[c] = None THEN "open" ELSE "lookup")
          /\ content' = [content EXCEPT ![p] = c]
          /\ folder' = [folder EXCEPT ![p] = f]
  /\ UNCHANGED <<fileVars, handle, path, manifest, crashes, history>>

(* Fault: the blob is written under its final name. *)
OpenInPlace(p) ==
  /\ phase[p] = "open"
  /\ \E i \in FileAt(blob[content[p]]) :
       /\ SetData(i, Torn)
       /\ Make(i, content[p])
       /\ blob' = [blob EXCEPT ![content[p]] = i]
       /\ handle' = [handle EXCEPT ![p] = i]
  /\ Goto(p, "write")
  /\ UNCHANGED <<tmp, human, content, folder, path, manifest, counters>>
  /\ UNCHANGED <<stored, overlapped, contested>>

(* tmp.write_bytes opens the file: truncates the one there or makes one. *)
Open(p) ==
  /\ phase[p] = "open"
  /\ LET c == content[p] IN
     \E i \in FileAt(tmp[c]) :
       /\ SetData(i, Torn)
       /\ Make(i, c)
       /\ tmp' = [tmp EXCEPT ![c] = i]
       /\ handle' = [handle EXCEPT ![p] = i]
       /\ overlapped' = IF \E q \in Processes \ {p} : content[q] = c /\ phase[q] \in Writing
                        THEN overlapped \cup {c} ELSE overlapped
  /\ Goto(p, "write")
  /\ UNCHANGED <<blob, human, content, folder, path, manifest, counters, stored, contested>>

Write(p) ==
  /\ phase[p] = "write"
  /\ SetData(handle[p], content[p])
  /\ handle' = [handle EXCEPT ![p] = None]
  /\ Goto(p, "rename")
  /\ UNCHANGED <<blob, tmp, human, content, folder, path, manifest, counters, history>>

(* tmp.rename(dest); if another process has renamed the file, put raises. *)
Rename(p) ==
  /\ phase[p] = "rename"
  /\ LET c == content[p] IN
     /\ IF tmp[c] = None
        THEN UNCHANGED <<blob, tmp>>
        ELSE /\ blob' = [blob EXCEPT ![c] = tmp[c]]
             /\ tmp' = [tmp EXCEPT ![c] = None]
     /\ IF tmp[c] = None \/ folder[p] = None
        THEN Leave(p)
        ELSE Goto(p, "lookup") /\ UNCHANGED <<content, folder, handle, path>>
  /\ UNCHANGED <<data, human, manifest, counters, history>>

(* Fault: a file of that name is taken for the same file. *)
HumanPathByName(p) == <<folder[p], Plain>>

(* human_path: the planner's name, unless it is another file's. *)
HumanPath(p) ==
  LET x == <<folder[p], Plain>> IN
  IF human[x] \in {None, blob[content[p]]} THEN x ELSE <<folder[p], content[p]>>

(* The first human_path.exists(), and stat() of both files if it is there. *)
LookUp(p) ==
  /\ phase[p] = "lookup"
  /\ LET x == HumanPath(p)
         rivals == {q \in Processes \ {p} : phase[q] \in Naming /\ path[q] = x}
     IN /\ path' = [path EXCEPT ![p] = x]
        /\ contested' = IF human[x] = None /\ rivals # {}
                        THEN contested \cup {content[q] : q \in rivals \cup {p}}
                        ELSE contested
  /\ Goto(p, "check")
  /\ UNCHANGED <<fileVars, content, folder, handle, manifest, counters>>
  /\ UNCHANGED <<made, stored, overlapped>>

(* Fault: hardlink_to without asking whether the name is taken. *)
CheckNothing(p) ==
  /\ phase[p] = "check"
  /\ Goto(p, "link")
  /\ UNCHANGED <<fileVars, content, folder, handle, path, manifest, counters, history>>

(* The second exists(): a name that is taken by now, whoever took it, is   *)
(* left as it is.                                                          *)
Check(p) ==
  /\ phase[p] = "check"
  /\ IF human[path[p]] # None
     THEN Return(p)
     ELSE Goto(p, "link") /\ UNCHANGED <<content, folder, handle, path, stored>>
  /\ UNCHANGED <<fileVars, manifest, counters, made, overlapped, contested>>

(* hardlink_to of a name that is still free. *)
Link(p) ==
  /\ phase[p] = "link"
  /\ human[path[p]] = None
  /\ human' = [human EXCEPT ![path[p]] = blob[content[p]]]
  /\ Return(p)
  /\ UNCHANGED <<data, blob, tmp, manifest, counters, made, overlapped, contested>>

(* hardlink_to raises: the file system refuses, or the name is taken by    *)
(* now (FileExistsError is an OSError).                                    *)
LinkRaises(p) ==
  /\ phase[p] = "link"
  /\ LinkMayFail \/ human[path[p]] # None
  /\ Goto(p, "reopen")
  /\ UNCHANGED <<fileVars, content, folder, handle, path, manifest, counters, history>>

(* Fault: the fallback writes to dest. *)
ReopenBlob(p) ==
  /\ phase[p] = "reopen"
  /\ LET i == blob[content[p]] IN
       /\ SetData(i, Torn)
       /\ handle' = [handle EXCEPT ![p] = i]
  /\ Goto(p, "rewrite")
  /\ UNCHANGED <<blob, tmp, human, content, folder, path, manifest, counters, history>>

(* human_path.write_bytes(content): truncates whatever the name links to. *)
Reopen(p) ==
  /\ phase[p] = "reopen"
  /\ \E i \in FileAt(human[path[p]]) :
       /\ SetData(i, Torn)
       /\ Make(i, content[p])
       /\ human' = [human EXCEPT ![path[p]] = i]
       /\ handle' = [handle EXCEPT ![p] = i]
  /\ Goto(p, "rewrite")
  /\ UNCHANGED <<blob, tmp, content, folder, path, manifest, counters>>
  /\ UNCHANGED <<stored, overlapped, contested>>

Rewrite(p) ==
  /\ phase[p] = "rewrite"
  /\ SetData(handle[p], content[p])
  /\ Return(p)
  /\ UNCHANGED <<blob, tmp, human, manifest, counters, made, overlapped, contested>>

(* The process is killed inside put(). *)
Crash(p) ==
  /\ phase[p] # "idle"
  /\ crashes < MaxCrashes
  /\ crashes' = crashes + 1
  /\ Leave(p)
  /\ UNCHANGED <<fileVars, manifest, puts, history>>

(* What rglob finds under the name of c, with the hash of its content. *)
EntriesOf(c) ==
  {[file |-> "blob", name |-> c, sha |-> data[i]] : i \in {blob[c]} \ {None}}
    \cup {[file |-> "tmp", name |-> c, sha |-> data[i]] : i \in {tmp[c]} \ {None}}

(* write_manifest, next to late writers.  It hashes one file after the     *)
(* other, but the names are independent of one another.                    *)
WriteManifest ==
  /\ manifest = None
  /\ manifest' = UNION {EntriesOf(c) : c \in Contents}
  /\ UNCHANGED <<fileVars, putVars, counters, history>>

PutStep(p) ==
  \/ \E c \in Contents, f \in Folders \cup {None} : StartPut(p, c, f)
  \/ Open(p) \/ Write(p) \/ Rename(p) \/ LookUp(p) \/ Check(p)
  \/ Link(p) \/ LinkRaises(p) \/ Reopen(p) \/ Rewrite(p)

Next ==
  \/ \E p \in Processes : PutStep(p) \/ Crash(p)
  \/ WriteManifest

Spec == Init /\ [][Next]_vars
-----------------------------------------------------------------------------
Whole(c) == blob[c] # None /\ data[blob[c]] = c
IsTorn(c) == blob[c] # None /\ data[blob[c]] # c

(* Somebody still writes the file, or was killed before he could. *)
InTheMaking(i) == crashes > 0 \/ \E p \in Processes : handle[p] = i

(***************************************************************************)
(* Blobs are immutable (artifact_store.py: "Filenames on disk are the      *)
(* content sha256 - immutable"): no put, rename, link or crash of any      *)
(* process changes the file of a blob that holds its content, which the    *)
(* evidence folders link to, unless that content is contested: one of its  *)
(* puts chose a name for the folder while another put was choosing it.     *)
(* The blob may pass to a new file of a put that had not seen it; that     *)
(* file is whole as well, unless two processes were writing it.            *)
(***************************************************************************)
BlobsStayWhole ==
  [][\A c \in Contents : Whole(c) /\ c \notin contested =>
       /\ data'[blob[c]] = c
       /\ Whole(c)' \/ (IsTorn(c)' /\ c \in overlapped')]_vars

(***************************************************************************)
(* artifact_store.py:3-4 without the exception: a blob never holds another *)
(* content than the one its name is the hash of (a half-written one is     *)
(* excused), whoever shares its evidence folder.                           *)
(***************************************************************************)
BlobsAreTheirNames ==
  \A c \in Contents : blob[c] # None => data[blob[c]] \in {c, Torn}

(***************************************************************************)
(* A blob that does not hold its content takes two: either its content is  *)
(* contested, or it was renamed while another process was writing the same *)
(* .tmp.  That writer completes it, so it stays torn only if a process was *)
(* killed.                                                                 *)
(***************************************************************************)
TornTakesTwo ==
  \A c \in Contents : IsTorn(c) /\ c \notin contested =>
    /\ c \in overlapped
    /\ InTheMaking(blob[c])

(* The file x holds c, or somebody is writing or was killed writing it. *)
HoldsEvidence(x, c) ==
  LET i == human[x] IN
  /\ i # None
  /\ data[i] # c => data[i] = Torn /\ InTheMaking(i)

(***************************************************************************)
(* The evidence folder is complete: what a put() that returned stored in a *)
(* folder is there, under the name it chose and with its own content, or   *)
(* is being written, though the planner gives one name to many files and   *)
(* all samples of a plan, in all processes, the same folder; except for a  *)
(* contested content.                                                      *)
(***************************************************************************)
EvidenceIsThere ==
  \A e \in stored : e[1] \notin contested => HoldsEvidence(e[2], e[1])

(***************************************************************************)
(* What artifact_store.py:82-85 says of every put: a name that holds other *)
(* content is given up for one of its own, "so we don't silently lose the  *)
(* second screenshot".                                                     *)
(***************************************************************************)
EvidenceIsNeverLost ==
  \A e \in stored : \E n \in {Plain, e[1]} : HoldsEvidence(<<e[2][1], n>>, e[1])

(* verify_manifest() finds the blob with the recorded hash. *)
StillThere(e) == blob[e.name] # None /\ data[blob[e.name]] = e.sha

(***************************************************************************)
(* verify_manifest() never misses a blob that was listed, and it complains *)
(* of the hash of none but the contested ones and those that two processes *)
(* were writing together: every other one was listed, and is still there,  *)
(* as its name says, next to late writers and crashes.                     *)
(***************************************************************************)
ManifestStaysTrue ==
  manifest # None =>
    \A e \in {x \in manifest : x.file = "blob"} :
      /\ blob[e.name] # None
      /\ e.name \notin overlapped \cup contested => e.sha = e.name /\ StillThere(e)
=============================================================================
