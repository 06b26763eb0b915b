--------------------------- MODULE Artifacts_proofs ---------------------------
(***************************************************************************)
(* Proofs about artifact files, for any work items and paths, whoever      *)
(* names the same ones, and any number of attempts, faults, power failures *)
(* and damaged files: manifests keep their bytes or nothing runs, work     *)
(* that is handed out again left nothing behind, and a stream read to its  *)
(* end gave what its manifest describes.                                   *)
(***************************************************************************)
EXTENDS Artifacts, TLAPS

\* The places of an attempt's thread at which the file is under its final name, and those at
\* which its bytes are on the disk.
Linked == {"unlink", "sync_directory", "register"}
Flushed == {"link"} \cup Linked
\* Those at which its directories have been made, and its name has not.
Filling == {"write", "chunks", "sync", "link"}

EntryFields == {"by", "ino", "mtime", "edited", "synced"}
WorkFields == {"state", "lease", "attempt", "outcome"}
StreamFields == {"at", "of", "ino", "mtime", "clean"}

(***************************************************************************)
(* The inductive invariant.                                                *)
(***************************************************************************)
Typed ==
    /\ DOMAIN work = Work /\ \A w \in Work : DOMAIN work[w] = WorkFields
    /\ DOMAIN at = Work /\ DOMAIN staging = Work /\ DOMAIN data = Work
    /\ DOMAIN entry = Paths /\ \A p \in Paths : DOMAIN entry[p] = EntryFields
    /\ \A p \in Paths : entry[p].ino \in Nat /\ entry[p].mtime \in Nat
    /\ DOMAIN made = Dirs
    /\ DOMAIN damage = Paths /\ \A p \in Paths : damage[p] \in Nat
    /\ manifest \subseteq Work
    /\ DOMAIN stream = StreamFields /\ stream.clean \in BOOLEAN

\* Only running work has a thread, and only while the process is up.
ThreadsOK ==
    /\ phase # "up" => \A w \in Work : at[w] = "idle" /\ staging[w] = "none"
    /\ \A w \in Work : work[w].state # "running" => at[w] = "idle"

\* What a thread has done so far holds of its file unless somebody damaged it: the bytes are on
\* the disk before the name is, and the name before the manifest.  The file of a manifest is not
\* written again, and can be lost only with a directory.
Intact(w) == entry[PathOf[w]].by = w /\ ~entry[PathOf[w]].edited
Kept(w) == w \in manifest /\ damage[PathOf[w]] = 0
FilesOK ==
    \A w \in Work :
        /\ at[w] \in Flushed \/ Kept(w) => data[w] = "synced"
        /\ at[w] \in Linked /\ damage[PathOf[w]] = 0 => Intact(w)
        /\ at[w] = "register" /\ damage[PathOf[w]] = 0 => entry[PathOf[w]].synced
        /\ Kept(w) => /\ (Intact(w) /\ entry[PathOf[w]].synced) \/ Lost(w)
                      /\ at[w] \notin {"chunks", "sync"}

\* A file has all its directories, and so has one that is about to get its name.
DirsOK ==
    /\ \A p \in Paths : entry[p].by # Nobody => \A d \in Way[p] : made[d] # "none"
    /\ \A w \in Work : at[w] \in Filling => \A d \in Way[PathOf[w]] : made[d] # "none"

\* Nothing is left of an attempt of w.
Gone(w) == w \notin manifest /\ entry[PathOf[w]].by # w /\ w \notin stray

\* Recovery hands out again only what left nothing behind.
RequeuedOK ==
    /\ phase = "recovering" => todo \subseteq Work /\ \A w \in todo : Gone(w)
    /\ \A w \in Work : work[w].state = "retry_wait" /\ work[w].outcome = "lease_expired" =>
          Gone(w) /\ staging[w] = "none"

\* A file e seen by stream s is another one, or shows by its instant that it was edited.
Tells(s, e) ==
    \/ e.ino > s.ino
    \/ /\ e.ino = s.ino /\ e.mtime >= s.mtime
       /\ e.edited \/ ~s.clean => e.mtime > s.mtime
StreamOK ==
    /\ stream.at \in {"verified", "open"} =>
          /\ stream.of \in Work /\ stream.ino \in Nat /\ stream.mtime \in Nat
          /\ Tells(stream, entry[PathOf[stream.of]])
    /\ stream.at = "complete" => stream.clean

ArtifactInv == Typed /\ ThreadsOK /\ FilesOK /\ DirsOK /\ RequeuedOK /\ StreamOK

\* At the start there is no file and no attempt.
LEMMA InitInv == Init => ArtifactInv
<1> SUFFICES ASSUME Init PROVE ArtifactInv
  OBVIOUS
<1>1. Typed
  BY DEF Init, Typed, Absent, NoStream, WorkFields, EntryFields, StreamFields
<1>2. ThreadsOK /\ FilesOK /\ StreamOK
  BY DEF Init, ThreadsOK, FilesOK, Kept, Flushed, Linked, StreamOK, NoStream
<1>4. DirsOK
  BY DEF Init, DirsOK, Filling, Absent
<1>3. RequeuedOK
  BY DEF Init, RequeuedOK
<1> QED
  BY <1>1, <1>2, <1>3, <1>4 DEF ArtifactInv

(***************************************************************************)
(* The attempt's thread.                                                   *)
(***************************************************************************)
\* Path p keeps its file, which may be synced, or is linked to that of w where there was none.
Same(e, f) == f = e \/ f = [e EXCEPT !.synced = TRUE]
Linking(w, p) == p = PathOf[w] /\ entry[p].by = Nobody /\ entry'[p] = Named(w)

\* Directories are only made.
More == DOMAIN made' = Dirs /\ \A d \in Dirs : made[d] # "none" => made'[d] # "none"

\* A step of one thread that registers nothing.
LEMMA ThreadStep ==
    ASSUME ArtifactInv, NEW w \in Work, at[w] \notin {"idle", "commit"},
           NEW q, q \notin {"idle", "commit"}, at' = [at EXCEPT ![w] = q],
           UNCHANGED <<work, manifest, phase, todo, stream, damage>>,
           DOMAIN data' = Work, \A v \in Work \ {w} : data'[v] = data[v],
           DOMAIN staging' = Work, \A v \in Work \ {w} : staging'[v] = staging[v] \/ staging'[v] = "none",
           stray' \subseteq stray \cup {w},
           DOMAIN entry' = Paths,
           \A p \in Paths : Same(entry[p], entry'[p]) \/ (at[w] = "link" /\ Linking(w, p)),
           More, q \in Filling => \A d \in Way[PathOf[w]] : made'[d] # "none",
           q \in Flushed \/ Kept(w) => data'[w] = "synced",
           Kept(w) => q \notin {"chunks", "sync"},
           q \in Linked /\ damage[PathOf[w]] = 0 => Intact(w)',
           q = "register" /\ damage[PathOf[w]] = 0 => entry'[PathOf[w]].synced
    PROVE  ArtifactInv'
<1>1. /\ DOMAIN at' = Work /\ at'[w] = q /\ \A v \in Work \ {w} : at'[v] = at[v]
      /\ phase = "up" /\ work[w].state = "running" /\ \A v \in Work : ~Lost(v)
  BY DEF ArtifactInv, Typed, ThreadsOK, Lost
<1>2. \A p \in Paths :
        /\ DOMAIN entry[p] = EntryFields /\ DOMAIN entry'[p] = EntryFields
        /\ entry'[p].ino \in Nat /\ entry'[p].mtime \in Nat
        /\ ~Linking(w, p) => /\ entry'[p].by = entry[p].by /\ entry'[p].edited = entry[p].edited
                             /\ entry'[p].ino = entry[p].ino /\ entry'[p].mtime = entry[p].mtime
                             /\ entry[p].synced => entry'[p].synced
        /\ Linking(w, p) => entry[p].by = Nobody /\ entry'[p].by = w /\ entry'[p].ino = entry[p].ino + 1
  BY DEF ArtifactInv, Typed, Same, Linking, Named, EntryFields
<1>3. /\ PathOf \in [Work -> Paths] /\ Nobody \notin Work
  BY ArtifactAssumption
<1>4. Typed'
  BY <1>1, <1>2 DEF ArtifactInv, Typed, More
<1>5. ThreadsOK'
  BY <1>1 DEF ArtifactInv, ThreadsOK
<1>6. FilesOK'
  <2> SUFFICES ASSUME NEW v \in Work
               PROVE  /\ at'[v] \in Flushed \/ Kept(v) => data'[v] = "synced"
                      /\ at'[v] \in Linked /\ damage[PathOf[v]] = 0 => Intact(v)'
                      /\ at'[v] = "register" /\ damage[PathOf[v]] = 0 => entry'[PathOf[v]].synced
                      /\ Kept(v) => /\ Intact(v)' /\ entry'[PathOf[v]].synced
                                    /\ at'[v] \notin {"chunks", "sync"}
    BY DEF FilesOK, Kept
  <2>1. PathOf[v] \in Paths /\ v # Nobody
    BY <1>3
  <2>2. Kept(v) => Intact(v) /\ entry[PathOf[v]].synced /\ at[v] \notin {"chunks", "sync"}
    BY <1>1 DEF ArtifactInv, FilesOK
  <2>3. Intact(v) => ~Linking(w, PathOf[v]) /\ Intact(v)'
    BY <1>2, <2>1 DEF Intact
  <2>4. Kept(v) => Intact(v)' /\ entry'[PathOf[v]].synced
    BY <1>2, <2>1, <2>2, <2>3
  <2>5. CASE v = w
    BY <1>1, <2>4, <2>5
  <2>6. CASE v # w
    <3>1. at'[v] = at[v] /\ data'[v] = data[v]
      BY <1>1, <2>6
    <3>2. at[v] = "register" => at[v] \in Linked
      BY DEF Linked
    <3>3. at[v] = "register" /\ damage[PathOf[v]] = 0 => entry'[PathOf[v]].synced
      BY <1>2, <2>1, <2>3, <3>2 DEF ArtifactInv, FilesOK
    <3> QED
      BY <2>2, <2>3, <2>4, <3>1, <3>3 DEF ArtifactInv, FilesOK
  <2> QED
    BY <2>5, <2>6
<1>9. DirsOK'
  <2>1. ASSUME NEW p \in Paths, entry'[p].by # Nobody, NEW d \in Way[p] PROVE made'[d] # "none"
    <3>1. d \in Dirs
      BY ArtifactAssumption
    <3>2. CASE Linking(w, p) /\ at[w] = "link"
      BY <2>1, <3>1, <3>2 DEF ArtifactInv, DirsOK, Linking, Filling, More
    <3>3. CASE ~Linking(w, p)
      BY <1>2, <2>1, <3>1, <3>3 DEF ArtifactInv, DirsOK, More
    <3>4. CASE Linking(w, p) /\ Same(entry[p], entry'[p])
      BY <1>2, <2>1, <3>4 DEF Same, Linking, EntryFields
    <3> QED
      BY <3>2, <3>3, <3>4
  <2>2. ASSUME NEW v \in Work, at'[v] \in Filling, NEW d \in Way[PathOf[v]] PROVE made'[d] # "none"
    <3>1. d \in Dirs
      BY <1>3, ArtifactAssumption
    <3>2. v # w => made[d] # "none"
      BY <1>1, <2>2 DEF ArtifactInv, DirsOK
    <3> QED
      BY <1>1, <2>2, <3>1, <3>2 DEF More
  <2> QED
    BY <2>1, <2>2 DEF DirsOK
<1>7. RequeuedOK'
  <2>1. \A v \in Work \ {w} : Gone(v) => Gone(v)'
    BY <1>2, <1>3 DEF Gone
  <2> QED
    BY <1>1, <2>1 DEF ArtifactInv, RequeuedOK
<1>8. StreamOK'
  <2>1. stream' = stream /\ (stream.at = "complete" => stream.clean)
    BY DEF ArtifactInv, StreamOK
  <2>2. ASSUME stream.at \in {"verified", "open"}
        PROVE  /\ stream.of \in Work /\ stream.ino \in Nat /\ stream.mtime \in Nat
               /\ Tells(stream, entry'[PathOf[stream.of]])
    <3>1. /\ stream.of \in Work /\ stream.ino \in Nat /\ stream.mtime \in Nat
          /\ Tells(stream, entry[PathOf[stream.of]])
      BY <2>2 DEF ArtifactInv, StreamOK
    <3> DEFINE p == PathOf[stream.of]
    <3>2. p \in Paths /\ entry[p].ino \in Nat
      BY <1>3, <3>1 DEF ArtifactInv, Typed
    <3>3. CASE Linking(w, p)
      BY <1>2, <3>1, <3>2, <3>3 DEF Tells
    <3>4. CASE ~Linking(w, p)
      BY <1>2, <3>1, <3>2, <3>4 DEF Tells
    <3> QED
      BY <3>1, <3>3, <3>4
  <2> QED
    BY <2>1, <2>2 DEF StreamOK
<1> QED
  BY <1>4, <1>5, <1>6, <1>7, <1>8, <1>9 DEF ArtifactInv

\* A step that leads to no name of the file.
LEMMA FailStep ==
    ASSUME ArtifactInv, NEW w \in Work, at[w] \notin {"idle", "commit"},
           at' = [at EXCEPT ![w] = "raised"],
           UNCHANGED <<work, manifest, phase, todo, stream, damage, data, entry>>,
           DOMAIN staging' = Work, \A v \in Work \ {w} : staging'[v] = staging[v],
           stray' \subseteq stray \cup {w}, More
    PROVE  ArtifactInv'
<1>1. /\ "raised" \notin {"idle", "commit", "chunks", "sync", "register"} /\ "raised" \notin Flushed
      /\ "raised" \notin Linked /\ "raised" \notin Filling
  BY DEF Flushed, Linked, Filling
<1>2. DOMAIN data' = Work /\ DOMAIN entry' = Paths /\ (Kept(w) => data'[w] = "synced")
  BY DEF ArtifactInv, Typed, FilesOK
<1> QED
  BY <1>1, <1>2, ThreadStep DEF Same

\* Directories that do not change are made no less.
LEMMA MadeKept == ASSUME ArtifactInv, made' = made PROVE More
  BY DEF More, ArtifactInv, Typed

\* An error at some step of the publication.
LEMMA RaiseStep ==
    ASSUME ArtifactInv, NEW w \in Work, at[w] \notin {"idle", "commit"}, Raise(w),
           UNCHANGED <<work, manifest, phase, todo, stream, damage>>
    PROVE  ArtifactInv'
<1>1. /\ DOMAIN staging' = Work /\ \A v \in Work \ {w} : staging'[v] = staging[v]
      /\ stray' \subseteq stray \cup {w}
  BY DEF ArtifactInv, Typed, Raise, Cleanup
<1>2. UNCHANGED <<data, entry, made>> /\ at' = [at EXCEPT ![w] = "raised"]
  BY DEF Raise
<1> QED
  BY <1>1, <1>2, MadeKept, FailStep

\* A step that changes only the bytes and the staging name of the thread's file.
LEMMA BytesStep ==
    ASSUME ArtifactInv, NEW w \in Work, at[w] \in Filling, ~Kept(w),
           NEW q \in {"chunks", "sync", "link"}, at' = [at EXCEPT ![w] = q],
           UNCHANGED <<work, manifest, phase, todo, stream, damage, entry, made, stray>>,
           NEW d, data' = [data EXCEPT ![w] = d], q = "link" => d = "synced",
           NEW s, staging' = staging \/ staging' = [staging EXCEPT ![w] = s]
    PROVE  ArtifactInv'
<1>1. q \in Flushed => q = "link"
  BY DEF Flushed, Linked
<1>2. /\ q \notin Linked /\ q \notin {"idle", "commit", "register"}
      /\ at[w] \notin {"idle", "commit"}
  BY DEF Linked, Filling
<1>3. /\ DOMAIN staging' = Work /\ \A v \in Work \ {w} : staging'[v] = staging[v]
      /\ DOMAIN data' = Work /\ DOMAIN entry' = Paths /\ stray' = stray
      /\ data'[w] = d /\ \A v \in Work \ {w} : data'[v] = data[v]
  BY DEF ArtifactInv, Typed
<1>4. \A x \in Way[PathOf[w]] : made'[x] # "none"
  BY DEF ArtifactInv, DirsOK
<1> QED
  BY <1>1, <1>2, <1>3, <1>4, MadeKept, ThreadStep DEF Same

\* The directories are made, or some of them.
LEMMA PrepareStep ==
    ASSUME ArtifactInv, NEW w \in Work, PrepareParent(w),
           UNCHANGED <<work, manifest, phase, todo, stream, damage>>
    PROVE  ArtifactInv'
<1>1. at[w] = "prepare" /\ UNCHANGED <<staging, data, stray, entry>>
  BY DEF PrepareParent
<1>2. /\ DOMAIN staging' = Work /\ DOMAIN data' = Work /\ DOMAIN entry' = Paths
      /\ Kept(w) => data'[w] = "synced"
  BY <1>1 DEF ArtifactInv, Typed, FilesOK
<1>3. ASSUME NEW dirs, made' = Making(dirs)
      PROVE  More /\ \A d \in Dirs : d \in dirs => made'[d] # "none"
  BY <1>3 DEF Making, More
<1>4. CASE at' = [at EXCEPT ![w] = "write"] /\ made' = Making(Way[PathOf[w]])
  <2>1. "write" \notin Flushed /\ "write" \notin Linked
    BY DEF Flushed, Linked
  <2>2. More /\ \A d \in Way[PathOf[w]] : made'[d] # "none"
    BY <1>3, <1>4, ArtifactAssumption
  <2> QED
    BY <1>1, <1>2, <1>4, <2>1, <2>2, ThreadStep DEF Same
<1>5. CASE /\ at' = [at EXCEPT ![w] = "raised"]
           /\ \E d \in Way[PathOf[w]] : made' = Making(Way[d] \ {d})
  BY <1>1, <1>2, <1>3, <1>5, FailStep
<1> QED
  BY <1>4, <1>5 DEF PrepareParent

\* The name appears, if there was none, with the bytes on the disk.
LEMMA LinkStep ==
    ASSUME ArtifactInv, NEW w \in Work, Link(w),
           UNCHANGED <<work, manifest, phase, todo, stream, damage>>
    PROVE  ArtifactInv'
<1>1. at[w] = "link" /\ PathOf[w] \in Paths /\ data[w] = "synced"
  BY ArtifactAssumption DEF Link, ArtifactInv, FilesOK, Flushed
<1>2. CASE ~Exists(PathOf[w]) /\ at' = [at EXCEPT ![w] = "unlink"] /\ ~Raise(w)
  <2>1. /\ entry' = [entry EXCEPT ![PathOf[w]] = Named(w)]
        /\ UNCHANGED <<staging, data, stray, made>>
    BY <1>2 DEF Link
  <2>2. /\ DOMAIN entry' = Paths /\ entry'[PathOf[w]] = Named(w)
        /\ \A p \in Paths : entry'[p] = entry[p] \/ Linking(w, p)
    BY <1>1, <1>2, <2>1 DEF ArtifactInv, Typed, Linking, Exists
  <2>3. Intact(w)'
    BY <2>2 DEF Named, Intact
  <2>4. DOMAIN data' = Work /\ DOMAIN staging' = Work /\ "unlink" \notin Filling
    BY <2>1 DEF ArtifactInv, Typed, Filling
  <2> QED
    BY <1>1, <1>2, <2>1, <2>2, <2>3, <2>4, MadeKept, ThreadStep DEF Same
<1>3. CASE Exists(PathOf[w]) /\ at' = [at EXCEPT ![w] = "raised"] /\ ~Raise(w)
  <2>1. Cleanup(w, faults) /\ UNCHANGED <<data, entry, made>>
    BY <1>3 DEF Link
  <2>2. DOMAIN staging' = Work /\ (\A v \in Work \ {w} : staging'[v] = staging[v])
        /\ stray' \subseteq stray \cup {w}
    BY <2>1 DEF ArtifactInv, Typed, Cleanup
  <2> QED
    BY <1>1, <1>3, <2>1, <2>2, MadeKept, FailStep
<1>4. CASE Raise(w)
  BY <1>1, <1>4, RaiseStep
<1> QED
  BY <1>2, <1>3, <1>4 DEF Link

\* The staging name goes, or the outcome of the publication is unknown.
LEMMA UnlinkStep ==
    ASSUME ArtifactInv, NEW w \in Work, Unlink(w),
           UNCHANGED <<work, manifest, phase, todo, stream, damage>>
    PROVE  ArtifactInv'
<1>1. at[w] = "unlink" /\ data[w] = "synced" /\ (damage[PathOf[w]] = 0 => Intact(w))
  BY DEF Unlink, ArtifactInv, FilesOK, Flushed, Linked
<1>2. CASE ~Raise(w)
  <2>1. /\ at' = [at EXCEPT ![w] = "sync_directory"] /\ UNCHANGED <<data, stray, entry, made>>
        /\ DOMAIN data' = Work /\ DOMAIN entry' = Paths
        /\ DOMAIN staging' = Work /\ \A v \in Work \ {w} : staging'[v] = staging[v]
    BY <1>2 DEF Unlink, ArtifactInv, Typed
  <2>2. (damage[PathOf[w]] = 0 => Intact(w)') /\ "sync_directory" \notin Filling
    BY <1>1, <2>1 DEF Intact, Filling
  <2> QED
    BY <1>1, <2>1, <2>2, MadeKept, ThreadStep DEF Same
<1>3. CASE Raise(w)
  BY <1>1, <1>3, RaiseStep
<1> QED
  BY <1>2, <1>3

\* After the directory is synced the name of the file is on the disk.
LEMMA SyncDirectoryStep ==
    ASSUME ArtifactInv, NEW w \in Work, SyncDirectory(w),
           UNCHANGED <<work, manifest, phase, todo, stream, damage>>
    PROVE  ArtifactInv'
<1>1. /\ at[w] = "sync_directory" /\ data[w] = "synced" /\ PathOf[w] \in Paths
      /\ damage[PathOf[w]] = 0 => Intact(w)
  BY ArtifactAssumption DEF SyncDirectory, ArtifactInv, FilesOK, Flushed, Linked
<1>2. CASE Raise(w)
  BY <1>1, <1>2, RaiseStep
<1>3. CASE ~Raise(w)
  <2> DEFINE Here(x) == DirOf[x] = DirOf[PathOf[w]]
  <2>1. /\ entry' = [p \in Paths |-> IF Here(p) THEN [entry[p] EXCEPT !.synced = TRUE]
                                      ELSE entry[p]]
        /\ made' = [d \in Dirs |-> IF Here(d) /\ made[d] = "new" THEN "kept" ELSE made[d]]
        /\ staging' = [v \in Work |-> IF Here(PathOf[v]) /\ staging[v] = "removing"
                                      THEN "none" ELSE staging[v]]
        /\ at' = [at EXCEPT ![w] = "register"] /\ UNCHANGED <<data, stray>>
    BY <1>3 DEF SyncDirectory
  <2>2. ASSUME NEW p \in Paths
        PROVE  Same(entry[p], entry'[p]) /\ (Here(p) => entry'[p].synced)
    <3>1. DOMAIN entry[p] = EntryFields
      BY DEF ArtifactInv, Typed
    <3> QED
      BY <2>1, <3>1 DEF Same, EntryFields
  <2>3. /\ DOMAIN data' = Work /\ DOMAIN entry' = Paths /\ DOMAIN staging' = Work
        /\ \A v \in Work \ {w} : staging'[v] = staging[v] \/ staging'[v] = "none"
    BY <2>1 DEF ArtifactInv, Typed
  <2>4. More
    BY <2>1 DEF More
  <2>5. /\ entry'[PathOf[w]].synced /\ "register" \notin Filling
        /\ damage[PathOf[w]] = 0 => Intact(w)'
    <3>1. DOMAIN entry[PathOf[w]] = EntryFields
      BY <1>1 DEF ArtifactInv, Typed
    <3>2. Same(entry[PathOf[w]], entry'[PathOf[w]]) /\ entry'[PathOf[w]].synced
      BY <1>1, <2>2
    <3> QED
      BY <1>1, <3>1, <3>2 DEF Same, EntryFields, Intact, Filling
  <2> HIDE DEF Here
  <2> QED
    BY <1>1, <2>1, <2>2, <2>3, <2>4, <2>5, ThreadStep
<1> QED
  BY <1>2, <1>3

\* All of a publication.
LEMMA WriteStep == ASSUME ArtifactInv, NEW w \in Work, Write(w) PROVE ArtifactInv'
<1>1. UNCHANGED <<work, manifest, phase, todo, stream, damage>>
  BY DEF Write
<1>2. CASE RefuseExisting(w)
  <2>1. UNCHANGED <<data, staging, stray, entry, made>> /\ at' = [at EXCEPT ![w] = "raised"]
        /\ at[w] = "write" /\ DOMAIN staging' = Work
    BY <1>2 DEF RefuseExisting, files, ArtifactInv, Typed
  <2> QED
    BY <1>1, <2>1, MadeKept, FailStep
<1>3. CASE Stage(w) \/ WriteChunks(w) \/ SyncFile(w)
  <2>1. at[w] \in Filling /\ at[w] \notin {"idle", "commit"}
    BY <1>3 DEF Stage, WriteChunks, SyncFile, Filling
  <2>2. CASE Raise(w)
    BY <1>1, <2>1, <2>2, RaiseStep
  <2>3. CASE ~Raise(w)
    <3>1. PICK q \in {"chunks", "sync", "link"}, d \in {"partial", "whole", "synced"} :
            /\ at' = [at EXCEPT ![w] = q] /\ data' = [data EXCEPT ![w] = d] /\ (q = "link" => d = "synced")
            /\ staging' = staging \/ staging' = [staging EXCEPT ![w] = "present"]
            /\ UNCHANGED <<entry, stray, made>>
      BY <1>3, <2>3 DEF Stage, WriteChunks, SyncFile
    <3>2. ~Kept(w)
      <4>1. phase = "up"
        BY <2>1 DEF ArtifactInv, ThreadsOK
      <4>2. CASE Stage(w)
        <5>1. entry[PathOf[w]].by # w
          BY <4>2, ArtifactAssumption DEF Stage, Exists
        <5> QED
          BY <4>1, <5>1 DEF ArtifactInv, FilesOK, Intact, Lost
      <4>3. CASE WriteChunks(w) \/ SyncFile(w)
        BY <4>3 DEF ArtifactInv, FilesOK, WriteChunks, SyncFile
      <4> QED
        BY <1>3, <4>2, <4>3
    <3> QED
      BY <1>1, <2>1, <3>1, <3>2, BytesStep
  <2> QED
    BY <2>2, <2>3
<1> QED
  BY <1>1, <1>2, <1>3, PrepareStep, LinkStep, UnlinkStep, SyncDirectoryStep DEF Write

(***************************************************************************)
(* The rows: claims, registrations and results.                            *)
(***************************************************************************)
\* A file is registered once it verifies, after its name was synced.
LEMMA RegisterStep == ASSUME ArtifactInv, NEW w \in Work, Register(w) PROVE ArtifactInv'
<1>1. /\ at[w] = "register" /\ UNCHANGED <<work, phase, todo, stream, damage>>
      /\ UNCHANGED <<data, staging, stray, entry, made>>
      /\ manifest' = manifest \/ manifest' = manifest \cup {w}
  BY DEF Register, files
<1>2. PICK q \in {"commit", "raised", "register"} : at' = [at EXCEPT ![w] = q]
  BY DEF Register
<1>3. /\ DOMAIN at' = Work /\ at'[w] = q /\ \A v \in Work \ {w} : at'[v] = at[v]
      /\ phase = "up" /\ work[w].state = "running"
  BY <1>1, <1>2 DEF ArtifactInv, Typed, ThreadsOK
<1>4. Typed'
  BY <1>1, <1>3 DEF ArtifactInv, Typed
<1>5. ThreadsOK'
  BY <1>1, <1>3 DEF ArtifactInv, ThreadsOK
<1>6. FilesOK'
  <2>1. /\ data[w] = "synced"
        /\ damage[PathOf[w]] = 0 => Intact(w) /\ entry[PathOf[w]].synced
    BY <1>1 DEF ArtifactInv, FilesOK, Flushed, Linked
  <2>2. \A v : /\ Intact(v)' <=> Intact(v)
               /\ Lost(v)' <=> Lost(v)
               /\ v # w => (Kept(v)' <=> Kept(v))
    BY <1>1 DEF Intact, Lost, Kept
  <2>3. /\ q \in Flushed \/ Kept(w)' => data'[w] = "synced"
        /\ q \in Linked /\ damage'[PathOf[w]] = 0 => Intact(w)'
        /\ q = "register" /\ damage'[PathOf[w]] = 0 => entry'[PathOf[w]].synced
        /\ Kept(w)' => Intact(w)' /\ entry'[PathOf[w]].synced /\ q \notin {"chunks", "sync"}
    BY <1>1, <2>1, <2>2 DEF Kept
  <2> QED
    BY <1>1, <1>3, <2>2, <2>3 DEF ArtifactInv, FilesOK
<1>7. DirsOK'
  <2>1. q \notin Filling
    BY DEF Filling
  <2> QED
    BY <1>1, <1>3, <2>1 DEF ArtifactInv, DirsOK
<1>8. RequeuedOK'
  BY <1>1, <1>3 DEF ArtifactInv, RequeuedOK, Gone
<1>9. StreamOK'
  BY <1>1 DEF ArtifactInv, StreamOK, Tells
<1> QED
  BY <1>4, <1>5, <1>6, <1>7, <1>8, <1>9 DEF ArtifactInv

\* A step that changes only the row and the place of one work item, and does not expire its claim.
LEMMA RowStep ==
    ASSUME ArtifactInv, NEW w \in Work,
           UNCHANGED <<files, manifest, phase, todo, stream, damage>>,
           DOMAIN work' = Work, DOMAIN work'[w] = WorkFields, \A v \in Work \ {w} : work'[v] = work[v],
           DOMAIN at' = Work, \A v \in Work \ {w} : at'[v] = at[v],
           at'[w] \in {"idle", "prepare", at[w]},
           phase # "up" \/ work'[w].state # "running" => at'[w] = "idle",
           work'[w].state = "retry_wait" /\ work'[w].outcome = "lease_expired" =>
              work[w].state = "retry_wait" /\ work[w].outcome = "lease_expired"
    PROVE  ArtifactInv'
<1>1. UNCHANGED <<data, staging, stray, entry, made, manifest, phase, todo, stream, damage>>
  BY DEF files
<1>2. Typed'
  BY <1>1 DEF ArtifactInv, Typed
<1>3. ThreadsOK'
  BY <1>1 DEF ArtifactInv, Typed, ThreadsOK
<1>4. FilesOK'
  BY <1>1 DEF ArtifactInv, FilesOK, Kept, Intact, Lost, Flushed, Linked
<1>7. DirsOK'
  BY <1>1 DEF ArtifactInv, DirsOK, Filling
<1>5. RequeuedOK'
  BY <1>1 DEF ArtifactInv, RequeuedOK, Gone
<1>6. StreamOK'
  BY <1>1 DEF ArtifactInv, StreamOK, Tells
<1> QED
  BY <1>2, <1>3, <1>4, <1>5, <1>6, <1>7 DEF ArtifactInv

\* Claims, results, late results and expiries.
LEMMA RowsStep ==
    ASSUME ArtifactInv, NEW w \in Work,
           Claim(w) \/ CommitWithCheckpoint(w) \/ CommitFailure(w) \/ RefuseLate(w) \/ Expire(w)
    PROVE  ArtifactInv'
<1> DEFINE r == work[w]
<1>1. /\ DOMAIN work = Work /\ DOMAIN r = WorkFields /\ DOMAIN at = Work
      /\ phase # "up" => at[w] = "idle"
      /\ r.state # "running" => at[w] = "idle"
  BY DEF ArtifactInv, Typed, ThreadsOK
<1>2. CASE Claim(w)
  <2>1. /\ DOMAIN work' = Work /\ DOMAIN work'[w] = WorkFields /\ work'[w].state = "running"
        /\ \A v \in Work \ {w} : work'[v] = work[v]
        /\ DOMAIN at' = Work /\ at'[w] = "prepare" /\ \A v \in Work \ {w} : at'[v] = at[v]
        /\ phase = "up"
        /\ UNCHANGED <<files, manifest, phase, todo, stream, damage>>
    BY <1>1, <1>2 DEF Claim, WorkFields, budget
  <2> QED
    BY <2>1, RowStep
<1>3. CASE CommitWithCheckpoint(w)
  <2>1. /\ DOMAIN work' = Work /\ DOMAIN work'[w] = WorkFields /\ work'[w].state = "succeeded"
        /\ \A v \in Work \ {w} : work'[v] = work[v]
        /\ DOMAIN at' = Work /\ at'[w] = "idle" /\ \A v \in Work \ {w} : at'[v] = at[v]
        /\ UNCHANGED <<files, manifest, phase, todo, stream, damage>>
    BY <1>1, <1>3 DEF CommitWithCheckpoint, WorkFields, budget
  <2> QED
    BY <2>1, RowStep
<1>4. CASE CommitFailure(w)
  <2>1. /\ DOMAIN work' = Work /\ DOMAIN work'[w] = WorkFields /\ work'[w].outcome = "failed"
        /\ \A v \in Work \ {w} : work'[v] = work[v]
        /\ DOMAIN at' = Work /\ at'[w] = "idle" /\ \A v \in Work \ {w} : at'[v] = at[v]
        /\ UNCHANGED <<files, manifest, phase, todo, stream, damage>>
    BY <1>1, <1>4 DEF CommitFailure, WorkFields, budget
  <2> QED
    BY <2>1, RowStep
<1>5. CASE RefuseLate(w)
  <2>1. /\ work' = work /\ DOMAIN at' = Work /\ at'[w] = "idle" /\ \A v \in Work \ {w} : at'[v] = at[v]
        /\ UNCHANGED <<files, manifest, phase, todo, stream, damage>>
    BY <1>1, <1>5 DEF RefuseLate, budget
  <2> QED
    BY <1>1, <2>1, RowStep
<1>6. CASE Expire(w)
  <2>1. /\ DOMAIN work' = Work /\ DOMAIN work'[w] = WorkFields
        /\ work'[w].state = r.state /\ work'[w].outcome = r.outcome
        /\ \A v \in Work \ {w} : work'[v] = work[v]
        /\ at' = at
        /\ UNCHANGED <<files, manifest, phase, todo, stream, damage>>
    BY <1>1, <1>6 DEF Expire, WorkFields, budget
  <2> QED
    BY <1>1, <2>1, RowStep
<1> QED
  BY <1>2, <1>3, <1>4, <1>5, <1>6

(***************************************************************************)
(* Readers, and those who damage files.                                    *)
(***************************************************************************)
\* Only the stream changes.
LEMMA ReaderStep ==
    ASSUME ArtifactInv, (\E w \in Work : Open(w)) \/ OpenChecked \/ Read \/ CloseStream \/ Release
    PROVE  ArtifactInv'
<1>1. UNCHANGED <<work, at, data, staging, stray, entry, made, manifest, phase, todo, damage>>
  BY DEF Open, OpenChecked, Read, CloseStream, Release, files, budget
<1>2. /\ DOMAIN stream = StreamFields /\ stream.clean \in BOOLEAN
      /\ \A w \in Work : PathOf[w] \in Paths
      /\ \A p \in Paths : entry[p].ino \in Nat /\ entry[p].mtime \in Nat
  BY ArtifactAssumption DEF ArtifactInv, Typed
<1>3. ASSUME stream.at \in {"verified", "open"}
      PROVE  /\ stream.of \in Work /\ stream.ino \in Nat /\ stream.mtime \in Nat
             /\ Tells(stream, entry[PathOf[stream.of]])
  BY <1>3 DEF ArtifactInv, StreamOK
<1>4. (DOMAIN stream' = StreamFields /\ stream'.clean \in BOOLEAN) /\ StreamOK'
  <2>1. CASE \E w \in Work : Open(w)
    <3>1. PICK w \in Work : Open(w)
      BY <2>1
    <3> DEFINE e == entry[PathOf[w]]
    <3>2. /\ stream' = [at |-> IF Verifies(w) THEN "verified" ELSE "refused", of |-> w,
                        ino |-> e.ino, mtime |-> e.mtime, clean |-> TRUE]
          /\ e.ino \in Nat /\ e.mtime \in Nat
      BY <1>2, <3>1 DEF Open
    <3>3. Verifies(w) => ~e.edited
      BY DEF Verifies
    <3> QED
      BY <1>1, <3>2, <3>3 DEF StreamFields, StreamOK, Tells
  <2>2. CASE OpenChecked
    <3>1. /\ DOMAIN stream' = StreamFields /\ stream'.of = stream.of /\ stream'.ino = stream.ino
          /\ stream'.mtime = stream.mtime /\ stream'.clean = stream.clean
          /\ stream'.at \in {"open", "refused"} /\ stream.at = "verified"
      BY <1>2, <2>2 DEF OpenChecked, StreamFields
    <3> QED
      BY <1>1, <1>2, <1>3, <3>1 DEF StreamOK, Tells
  <2>3. CASE Read
    <3> DEFINE e == entry[PathOf[stream.of]]
    <3>1. /\ DOMAIN stream' = StreamFields /\ stream'.of = stream.of /\ stream'.ino = stream.ino
          /\ stream'.mtime = stream.mtime /\ stream'.at = "open" /\ stream.at = "open"
          /\ stream'.clean = (stream.clean /\ ~(e.ino = stream.ino /\ e.edited))
      BY <1>2, <2>3 DEF Read, StreamFields
    <3>2. Tells(stream, e) /\ e.ino \in Nat /\ e.mtime \in Nat /\ stream.ino \in Nat
      BY <1>2, <1>3, <3>1
    <3>3. Tells(stream', e)
      BY <1>2, <3>1, <3>2 DEF Tells
    <3> QED
      BY <1>1, <1>2, <1>3, <3>1, <3>3 DEF StreamOK
  <2>4. CASE CloseStream
    <3> DEFINE e == entry[PathOf[stream.of]]
    <3>1. /\ DOMAIN stream' = StreamFields /\ stream'.clean = stream.clean
          /\ stream'.at = (IF SameFile THEN "complete" ELSE "refused") /\ stream.at = "open"
      BY <1>2, <2>4 DEF CloseStream, StreamFields
    <3>2. Tells(stream, e) /\ e.ino \in Nat /\ e.mtime \in Nat /\ stream.ino \in Nat /\ stream.mtime \in Nat
      BY <1>2, <1>3, <3>1
    <3>3. SameFile => stream.clean
      BY <1>2, <3>2 DEF SameFile, Tells
    <3> QED
      BY <1>2, <3>1, <3>3 DEF StreamOK
  <2>5. CASE Release
    BY <2>5 DEF Release, NoStream, StreamFields, StreamOK
  <2> QED
    BY <2>1, <2>2, <2>3, <2>4, <2>5
<1>5. Typed'
  BY <1>1, <1>4 DEF ArtifactInv, Typed
<1>6. ThreadsOK'
  BY <1>1 DEF ArtifactInv, ThreadsOK
<1>7. FilesOK' /\ DirsOK'
  BY <1>1 DEF ArtifactInv, FilesOK, DirsOK, Kept, Intact, Lost
<1>8. RequeuedOK'
  BY <1>1 DEF ArtifactInv, RequeuedOK, Gone
<1> QED
  BY <1>4, <1>5, <1>6, <1>7, <1>8 DEF ArtifactInv

\* An edit shows in the instant, a replacement in the inode, a removal in the name.
LEMMA DamageStep == ASSUME ArtifactInv, NEW p \in Paths, Damage(p) PROVE ArtifactInv'
<1>1. UNCHANGED <<work, at, data, staging, stray, made, manifest, phase, todo, stream>>
      /\ entry[p].by # Nobody
  BY DEF Damage, Exists
<1>2. /\ DOMAIN damage' = Paths /\ damage'[p] \in Nat /\ damage'[p] # 0
      /\ \A q \in Paths \ {p} : damage'[q] = damage[q]
  BY DEF Damage, ArtifactInv, Typed
<1>3. /\ DOMAIN entry' = Paths /\ \A q \in Paths \ {p} : entry'[q] = entry[q]
      /\ DOMAIN entry'[p] = EntryFields
      /\ \/ /\ entry'[p].by = entry[p].by /\ entry'[p].ino = entry[p].ino
            /\ entry'[p].mtime = entry[p].mtime + 1
         \/ /\ entry'[p].by = Stranger /\ entry'[p].ino = entry[p].ino + 1
            /\ entry'[p].mtime = entry[p].mtime
         \/ /\ entry'[p].by = Nobody /\ entry'[p].ino = entry[p].ino
            /\ entry'[p].mtime = entry[p].mtime /\ entry'[p].edited = entry[p].edited
  BY DEF Damage, ArtifactInv, Typed, EntryFields
<1>4. /\ entry[p].ino \in Nat /\ entry[p].mtime \in Nat
      /\ PathOf \in [Work -> Paths] /\ Nobody \notin Work /\ Stranger \notin Work
  BY ArtifactAssumption DEF ArtifactInv, Typed
<1>5. Typed'
  BY <1>1, <1>2, <1>3, <1>4 DEF ArtifactInv, Typed
<1>6. ThreadsOK'
  BY <1>1 DEF ArtifactInv, ThreadsOK
<1>7. FilesOK' /\ DirsOK'
  <2>1. DirsOK'
    BY <1>1, <1>3 DEF ArtifactInv, DirsOK
  <2>2. ASSUME NEW w \in Work
        PROVE  /\ Lost(w)' <=> Lost(w)
               /\ damage'[PathOf[w]] = 0 => /\ damage[PathOf[w]] = 0
                                            /\ entry'[PathOf[w]] = entry[PathOf[w]]
               /\ Kept(w)' => Kept(w)
    <3>1. PathOf[w] \in Paths
      BY <1>4
    <3>2. PathOf[w] = p \/ PathOf[w] \in Paths \ {p}
      BY <3>1
    <3> QED
      BY <1>1, <1>2, <1>3, <3>2 DEF Lost, Kept
  <2>3. ASSUME NEW w \in Work
        PROVE  /\ at'[w] \in Flushed \/ Kept(w)' => data'[w] = "synced"
               /\ at'[w] \in Linked /\ damage'[PathOf[w]] = 0 => Intact(w)'
               /\ at'[w] = "register" /\ damage'[PathOf[w]] = 0 => entry'[PathOf[w]].synced
               /\ Kept(w)' => /\ (Intact(w)' /\ entry'[PathOf[w]].synced) \/ Lost(w)'
                              /\ at'[w] \notin {"chunks", "sync"}
    <3>1. damage'[PathOf[w]] = 0 => (Intact(w)' <=> Intact(w))
      BY <2>2 DEF Intact
    <3>2. Kept(w)' => damage'[PathOf[w]] = 0
      BY DEF Kept
    <3> QED
      BY <1>1, <2>2, <3>1, <3>2 DEF ArtifactInv, FilesOK
  <2> QED
    BY <2>1, <2>3 DEF FilesOK
<1>8. RequeuedOK'
  BY <1>1, <1>3, <1>4 DEF ArtifactInv, RequeuedOK, Gone
<1>9. StreamOK'
  <2>1. ASSUME stream.at \in {"verified", "open"}
        PROVE  /\ stream.of \in Work /\ stream.ino \in Nat /\ stream.mtime \in Nat
               /\ Tells(stream, entry'[PathOf[stream.of]])
    <3>1. /\ stream.of \in Work /\ stream.ino \in Nat /\ stream.mtime \in Nat
          /\ Tells(stream, entry[PathOf[stream.of]])
      BY <2>1 DEF ArtifactInv, StreamOK
    <3>2. CASE PathOf[stream.of] = p
      <4>1. Tells(stream, entry[p])
        BY <3>1, <3>2
      <4>2. Tells(stream, entry'[p])
        BY <1>3, <1>4, <3>1, <4>1 DEF Tells
      <4> QED
        BY <3>1, <3>2, <4>2
    <3>3. CASE PathOf[stream.of] # p
      BY <1>3, <1>4, <3>1, <3>3
    <3> QED
      BY <3>2, <3>3
  <2> QED
    BY <1>1, <2>1 DEF ArtifactInv, StreamOK
<1> QED
  BY <1>5, <1>6, <1>7, <1>8, <1>9 DEF ArtifactInv

(***************************************************************************)
(* Power failure and startup recovery.                                     *)
(***************************************************************************)
\* A power failure takes what was not synced, and no thread survives it.
LEMMA CrashStep == ASSUME ArtifactInv, Crash PROVE ArtifactInv'
<1>1. PICK dirs \in SUBSET {d \in Dirs : made[d] = "new"},
           lost \in SUBSET {p \in Paths : ~entry[p].synced},
           torn \in SUBSET {w \in Work : data[w] = "whole"},
           left \in SUBSET (stray \cup {w \in Work : staging[w] # "none"}) :
        /\ made' = [d \in Dirs |-> IF made[d] = "none" \/ Way[d] \cap dirs # {} THEN "none" ELSE "kept"]
        /\ entry' = [p \in Paths |-> IF p \in lost \/ Way[p] \cap dirs # {} THEN Absent
                                     ELSE [entry[p] EXCEPT !.synced = TRUE]]
        /\ data' = [w \in Work |-> IF w \in torn THEN "torn" ELSE
                                   IF data[w] = "whole" THEN "synced" ELSE data[w]]
        /\ stray' = {w \in left : ~(Way[PathOf[w]] \cap dirs # {})}
  BY DEF Crash
<1>2. /\ staging' = [w \in Work |-> "none"] /\ at' = [w \in Work |-> "idle"]
      /\ phase' = "down" /\ todo' = {} /\ stream' = NoStream
      /\ UNCHANGED <<work, manifest, damage>>
  BY DEF Crash
<1>3. \A p \in Paths :
        /\ DOMAIN entry'[p] = EntryFields /\ entry'[p].ino \in Nat /\ entry'[p].mtime \in Nat
        /\ entry'[p].by = Nobody \/ (entry'[p].by = entry[p].by /\ Way[p] \cap dirs = {})
        /\ entry[p].synced /\ Way[p] \cap dirs = {} =>
              entry'[p].by = entry[p].by /\ entry'[p].edited = entry[p].edited /\ entry'[p].synced
  BY <1>1 DEF ArtifactInv, Typed, Absent, EntryFields
<1>4. /\ PathOf \in [Work -> Paths] /\ Nobody \notin Work
      /\ Way \in [Paths \cup Dirs -> SUBSET Dirs]
      /\ \A x \in Paths \cup Dirs : \A d \in Way[x] : Way[d] \subseteq Way[x]
      /\ \A d \in Dirs : d \in Way[d]
  BY ArtifactAssumption
<1>5. Typed'
  BY <1>1, <1>2, <1>3 DEF ArtifactInv, Typed, NoStream, StreamFields
<1>6. ThreadsOK'
  BY <1>2 DEF ArtifactInv, Typed, ThreadsOK
<1>7. FilesOK'
  <2> SUFFICES ASSUME NEW w \in Work, Kept(w)
               PROVE  /\ data'[w] = "synced"
                      /\ (Intact(w)' /\ entry'[PathOf[w]].synced) \/ Lost(w)'
    BY <1>2 DEF FilesOK, Kept, Flushed, Linked
  <2>1. PathOf[w] \in Paths /\ Way[PathOf[w]] \subseteq Dirs
    BY <1>4
  <2>2. data[w] = "synced" /\ ((Intact(w) /\ entry[PathOf[w]].synced) \/ Lost(w))
    BY DEF ArtifactInv, FilesOK
  <2>3. data'[w] = "synced"
    BY <1>1, <2>2
  <2>4. CASE Way[PathOf[w]] \cap dirs # {}
    <3>1. PICK d \in Way[PathOf[w]] : d \in dirs
      BY <2>4
    <3>2. made'[d] = "none"
      BY <1>1, <1>4, <2>1, <3>1
    <3> QED
      BY <1>2, <2>3, <3>1, <3>2 DEF Lost
  <2>5. CASE Lost(w)
    <3>1. PICK d \in Way[PathOf[w]] : made[d] = "none"
      BY <2>5 DEF Lost
    <3>2. made'[d] = "none"
      BY <1>1, <2>1, <3>1
    <3> QED
      BY <1>2, <2>3, <3>1, <3>2 DEF Lost
  <2>6. CASE Intact(w) /\ entry[PathOf[w]].synced /\ Way[PathOf[w]] \cap dirs = {}
    BY <1>3, <2>1, <2>3, <2>6 DEF Intact
  <2> QED
    BY <2>2, <2>4, <2>5, <2>6
<1>10. DirsOK'
  <2>1. \A w \in Work : at'[w] \notin Filling
    BY <1>2 DEF Filling
  <2>2. ASSUME NEW p \in Paths, entry'[p].by # Nobody, NEW d \in Way[p] PROVE made'[d] # "none"
    <3>1. entry'[p].by = entry[p].by /\ Way[p] \cap dirs = {}
      BY <1>3, <2>2
    <3>2. d \in Dirs /\ made[d] # "none" /\ Way[d] \cap dirs = {}
      BY <1>4, <2>2, <3>1 DEF ArtifactInv, DirsOK
    <3> QED
      BY <1>1, <3>2
  <2> QED
    BY <2>1, <2>2 DEF DirsOK
<1>8. RequeuedOK'
  BY <1>1, <1>2, <1>3, <1>4 DEF ArtifactInv, RequeuedOK, Gone
<1>9. StreamOK'
  BY <1>2 DEF StreamOK, NoStream
<1> QED
  BY <1>5, <1>6, <1>7, <1>8, <1>9, <1>10 DEF ArtifactInv

\* Without an issue every file is that of a manifest, so work without one left nothing.
LEMMA CleanStore ==
    ASSUME ~Ambiguous, NEW w \in ExpiredWork
    PROVE  w \in Work /\ Gone(w)
<1>1. w \in Work /\ w \notin manifest /\ stray = {}
  BY DEF Ambiguous, IntegrityIssues, ExpiredWork
<1>2. PathOf \in [Work -> Paths] /\ Nobody \notin Work
  BY ArtifactAssumption
<1>3. ASSUME entry[PathOf[w]].by = w PROVE FALSE
  <2>1. PICK v \in manifest : PathOf[v] = PathOf[w]
    BY <1>1, <1>2, <1>3 DEF Ambiguous, IntegrityIssues, Exists
  <2>2. entry[PathOf[v]].by = v
    BY DEF Ambiguous, IntegrityIssues, Verifies
  <2> QED
    BY <1>1, <1>3, <2>1, <2>2
<1> QED
  BY <1>1, <1>3 DEF Gone

\* Recovery changes rows only of work that left nothing behind.
LEMMA RecoverStep ==
    ASSUME ArtifactInv, Recover \/ Recovered \/ \E w \in Work : RecoverExpired(w)
    PROVE  ArtifactInv'
<1>1. UNCHANGED <<at, data, staging, stray, entry, made, manifest, stream, damage>>
  BY DEF Recover, Recovered, RecoverExpired, files, budget
<1>2. phase # "up"
  BY DEF Recover, Recovered, RecoverExpired
<1>3. \A v \in Work : at[v] = "idle" /\ staging[v] = "none"
  BY <1>2 DEF ArtifactInv, ThreadsOK
<1>4. FilesOK' /\ DirsOK' /\ StreamOK'
  <2>1. ASSUME NEW w \in Work, Kept(w), Lost(w) PROVE phase' = "ambiguous"
    <3>1. phase \in {"down", "ambiguous"}
      BY <2>1 DEF Lost
    <3>2. entry[PathOf[w]].by # w
      BY <2>1, ArtifactAssumption DEF ArtifactInv, DirsOK, Lost
    <3>3. Ambiguous
      BY <2>1, <3>2 DEF Ambiguous, IntegrityIssues, Verifies, Kept
    <3> QED
      BY <3>1, <3>3 DEF Recover, Recovered, RecoverExpired
  <2>2. ASSUME NEW w \in Work
        PROVE  (Kept(w)' <=> Kept(w)) /\ (Intact(w)' <=> Intact(w)) /\ (Kept(w) /\ Lost(w) => Lost(w)')
    BY <1>1, <2>1 DEF Kept, Intact, Lost
  <2>3. FilesOK'
    BY <1>1, <2>2 DEF ArtifactInv, FilesOK
  <2> QED
    BY <1>1, <2>3 DEF ArtifactInv, DirsOK, StreamOK, Tells
<1>5. \A v : Gone(v)' <=> Gone(v)
  BY <1>1 DEF Gone
<1>6. CASE Recover \/ Recovered
  <2>1. work' = work
    BY <1>6 DEF Recover, Recovered
  <2>2. phase' = "recovering" => ~Ambiguous /\ todo' = ExpiredWork
    BY <1>6 DEF Recover, Recovered
  <2>3. Typed' /\ ThreadsOK'
    BY <1>1, <1>3, <2>1 DEF ArtifactInv, Typed, ThreadsOK
  <2>4. phase' = "recovering" => todo' \subseteq Work /\ \A v \in todo' : Gone(v)
    BY <2>2, CleanStore
  <2>5. RequeuedOK'
    BY <1>1, <1>5, <2>1, <2>4 DEF ArtifactInv, RequeuedOK
  <2> QED
    BY <1>4, <2>3, <2>5 DEF ArtifactInv
<1>7. CASE \E w \in Work : RecoverExpired(w)
  <2>1. PICK w \in Work : RecoverExpired(w)
    BY <1>7
  <2>2. /\ w \in todo /\ phase = "recovering" /\ work' \in {work, Requeued(w)}
        /\ todo' \subseteq todo /\ phase' \in {"recovering", "down"}
    BY <2>1 DEF RecoverExpired
  <2>3. Gone(w) /\ \A v \in todo : Gone(v) /\ v \in Work
    BY <2>2 DEF ArtifactInv, RequeuedOK
  <2>4. /\ DOMAIN work' = Work /\ DOMAIN work'[w] = WorkFields
        /\ \A v \in Work \ {w} : work'[v] = work[v]
    BY <2>2 DEF ArtifactInv, Typed, Requeued, WorkFields
  <2>5. Typed'
    BY <1>1, <2>4 DEF ArtifactInv, Typed
  <2>6. w \notin manifest
    BY <2>3 DEF Gone
  <2>7. ThreadsOK'
    BY <1>1, <1>3, <2>4, <2>6 DEF ArtifactInv, Typed, ThreadsOK
  <2>8. RequeuedOK'
    <3>1. phase' = "recovering" => todo' \subseteq Work /\ \A v \in todo' : Gone(v)
      BY <2>2, <2>3
    <3>2. ASSUME NEW v \in Work, work'[v].state = "retry_wait", work'[v].outcome = "lease_expired"
          PROVE  Gone(v) /\ staging[v] = "none"
      BY <1>3, <2>3, <2>4, <3>2 DEF ArtifactInv, RequeuedOK
    <3> QED
      BY <1>1, <1>5, <3>1, <3>2 DEF RequeuedOK
  <2> QED
    BY <1>4, <2>5, <2>7, <2>8 DEF ArtifactInv
<1> QED
  BY <1>6, <1>7

\* Every step keeps the invariant.
LEMMA StepInv == ArtifactInv /\ [Next]_vars => ArtifactInv'
<1> SUFFICES ASSUME ArtifactInv, [Next]_vars PROVE ArtifactInv'
  OBVIOUS
<1>1. ASSUME NEW w \in Work,
             \/ Claim(w) \/ CommitWithCheckpoint(w) \/ CommitFailure(w) \/ RefuseLate(w) \/ Expire(w)
             \/ Write(w) \/ Register(w)
      PROVE  ArtifactInv'
  BY <1>1, RowsStep, WriteStep, RegisterStep
<1>2. CASE (\E w \in Work : Open(w)) \/ OpenChecked \/ Read \/ CloseStream \/ Release
  BY <1>2, ReaderStep
<1>3. CASE Crash \/ \E p \in Paths : Damage(p)
  BY <1>3, CrashStep, DamageStep
<1>4. CASE Recover \/ Recovered \/ \E w \in Work : RecoverExpired(w)
  BY <1>4, RecoverStep
<1>5. CASE UNCHANGED vars
  <2>1. UNCHANGED <<work, at, data, staging, stray, entry, made, manifest, phase, todo, stream, damage>>
    BY <1>5 DEF vars, files, budget
  <2>2. Typed' /\ ThreadsOK'
    BY <2>1 DEF ArtifactInv, Typed, ThreadsOK
  <2>3. FilesOK' /\ RequeuedOK' /\ StreamOK'
    BY <2>1 DEF ArtifactInv, FilesOK, Kept, Intact, Lost, RequeuedOK, Gone, StreamOK, Tells
  <2>4. DirsOK'
    BY <2>1 DEF ArtifactInv, DirsOK
  <2> QED
    BY <2>2, <2>3, <2>4 DEF ArtifactInv
<1> QED
  BY <1>1, <1>2, <1>3, <1>4, <1>5 DEF Next

\* The invariant holds throughout.
THEOREM ArtifactInvariant == Spec => []ArtifactInv
<1>1. Init => ArtifactInv
  BY InitInv
<1> QED
  BY <1>1, StepInv, PTL DEF Spec

\* The program never leaves a committed manifest without its whole and synced bytes, whatever step
\* a power failure follows and whoever publishes under the same name, but for the loss of a
\* directory whose name it did not sync (writer.py, _prepare_parent); and then nothing runs.
THEOREM ManifestsAreHonoured == Spec => []ManifestsHonoured
<1>1. ArtifactInv => ManifestsHonoured
  BY DEF ArtifactInv, Typed, FilesOK, Kept, Intact, ManifestsHonoured, Verifies
<1> QED
  BY <1>1, ArtifactInvariant, PTL

\* Startup recovery hands out again only work that left no manifest, no file and no staging file.
THEOREM RequeuedLeavesNothing == Spec => []RequeuedLeftNothing
<1>1. ArtifactInv => RequeuedLeftNothing
  BY DEF ArtifactInv, RequeuedOK, Gone, RequeuedLeftNothing
<1> QED
  BY <1>1, ArtifactInvariant, PTL

\* A stream read to its end without an error gave the bytes of its manifest.
THEOREM CompleteStreamsStayClean == Spec => []CompleteStreamsAreClean
<1>1. ArtifactInv => CompleteStreamsAreClean
  BY DEF ArtifactInv, StreamOK, CompleteStreamsAreClean
<1> QED
  BY <1>1, ArtifactInvariant, PTL
=============================================================================
