------------------------------ MODULE Artifacts ------------------------------
(***************************************************************************)
(* Artifact files, their manifests and startup recovery.  An attempt of a  *)
(* work item stages its output in a hidden file, flushes it, links it to   *)
(* its final name and flushes the directory (adapters/artifacts/writer.py),*)
(* registers a manifest row once the file verifies (manifests.py), and     *)
(* only then commits its result with a checkpoint that names the manifest. *)
(* A power failure may come between any two of these steps and takes with  *)
(* it whatever was not flushed.  Recovery then compares every manifest     *)
(* with every file (integrity.py) and hands expired work out again only if *)
(* nothing of the attempt is left (application/execution/recovery.py).     *)
(* Readers stream committed files while somebody may damage them           *)
(* (streaming.py).                                                         *)
(*                                                                         *)
(* The file system is external: data reach the disk when a file is synced, *)
(* names when their directory is.  A directory is made for the first file  *)
(* in it, and its own name is not synced with that of the file.            *)
(***************************************************************************)
EXTENDS Naturals, FiniteSets

CONSTANTS
    Work,              \* work items, each with one artifact
    Paths, PathOf,     \* the relative path under which an attempt of w publishes
    Nobody, Stranger,  \* no file; a file that no attempt wrote
    Dirs, Root,        \* the directories below the artifact root, and that root
    DirOf, Way,        \* the parent of a path or directory; all directories down to it
    MaxAttempts, MaxFaults, MaxCrashes, MaxDamage  \* bounds

ASSUME ArtifactAssumption ==
    /\ PathOf \in [Work -> Paths]
    /\ Nobody \notin Work /\ Stranger \notin Work /\ Nobody # Stranger
    /\ Root \notin Dirs /\ Paths \cap Dirs = {}
    /\ DirOf \in [Paths \cup Dirs -> Dirs \cup {Root}]
    /\ Way \in [Paths \cup Dirs -> SUBSET Dirs]
    /\ \A x \in Paths \cup Dirs :
          /\ Way[x] = ({x} \cap Dirs) \cup (IF DirOf[x] = Root THEN {} ELSE Way[DirOf[x]])
          /\ \A d \in Way[x] : Way[d] \subseteq Way[x]
    /\ MaxAttempts \in Nat /\ MaxFaults \in Nat /\ MaxCrashes \in Nat /\ MaxDamage \in Nat

VARIABLES
    work,      \* per work item: its row's state, lease, attempt number and last outcome
    at,        \* where the attempt's thread is in write, register and commit
    made,      \* per directory: "none", "new" (its name is not synced) or "kept"
    staging,   \* the hidden staging name: "none", "present", "removing" (unlinked, not synced)
    data,      \* the bytes behind it: "none", "partial", "whole", "synced" or "torn"
    stray,     \* works with an abandoned staging file
    entry,     \* per path: whose file it names, its inode, mtime, whether edited, whether synced
    manifest,  \* works whose manifest row is committed
    phase,     \* "up", "down", "recovering" or "ambiguous"
    todo,      \* expired work recovery still has to hand out again
    stream,    \* the open artifact stream
    faults, crashes, damage

files == <<staging, data, stray, entry, made>>
budget == <<faults, crashes, damage>>
vars == <<work, at, files, manifest, phase, todo, stream, budget>>

Absent == [by |-> Nobody, ino |-> 0, mtime |-> 0, edited |-> FALSE, synced |-> TRUE]
NoStream == [at |-> "closed", of |-> Nobody, ino |-> 0, mtime |-> 0, clean |-> TRUE]

Init ==
    /\ work = [w \in Work |-> [state |-> "pending", lease |-> "none", attempt |-> 0,
                               outcome |-> "none"]]
    /\ at = [w \in Work |-> "idle"]
    /\ staging = [w \in Work |-> "none"]
    /\ data = [w \in Work |-> "none"]
    /\ stray = {}
    /\ entry = [p \in Paths |-> Absent]
    /\ made = [d \in Dirs |-> "none"]
    /\ manifest = {}
    /\ phase = "up"
    /\ todo = {}
    /\ stream = NoStream
    /\ faults = 0 /\ crashes = 0 /\ damage = [p \in Paths |-> 0]

Exists(p) == entry[p].by # Nobody
\* What _verify_file and the scan establish: the name holds the bytes of the receipt.
Verifies(w) ==
    LET e == entry[PathOf[w]] IN e.by = w /\ ~e.edited /\ data[w] \in {"whole", "synced"}

----------------------------------------------------------------------------
(* The attempt's thread *)

Claim(w) ==
    /\ phase = "up"
    /\ work[w].state \in {"pending", "retry_wait"} /\ work[w].attempt < MaxAttempts
    /\ work' = [work EXCEPT ![w] = [@ EXCEPT !.state = "running", !.lease = "live",
                                             !.attempt = @ + 1]]
    /\ at' = [at EXCEPT ![w] = "prepare"]
    /\ UNCHANGED <<files, manifest, phase, todo, stream, budget>>

\* The finally clause of write, after some faults: the staging file is unlinked, or it
\* stays when that fails too.
Cleanup(w, spent) ==
    \/ /\ staging' = [staging EXCEPT ![w] = IF @ = "present" THEN "removing" ELSE @]
       /\ faults' = spent
       /\ UNCHANGED stray
    \/ /\ staging[w] = "present" /\ spent < MaxFaults
       /\ staging' = [staging EXCEPT ![w] = "none"]
       /\ stray' = stray \cup {w}
       /\ faults' = spent + 1

\* An OSError at some step: cleanup, and an error for the executor.
Raise(w) ==
    /\ faults < MaxFaults
    /\ at' = [at EXCEPT ![w] = "raised"]
    /\ Cleanup(w, faults + 1)
    /\ UNCHANGED <<data, entry, made>>

\* The missing directories are made from the root down, until one cannot be.
Making(dirs) == [d \in Dirs |-> IF d \in dirs /\ made[d] = "none" THEN "new" ELSE made[d]]
PrepareParent(w) ==
    /\ at[w] = "prepare"
    /\ \/ /\ made' = Making(Way[PathOf[w]])
          /\ at' = [at EXCEPT ![w] = "write"]
          /\ UNCHANGED faults
       \/ /\ faults < MaxFaults
          /\ \E d \in Way[PathOf[w]] : made[d] = "none" /\ made' = Making(Way[d] \ {d})
          /\ at' = [at EXCEPT ![w] = "raised"]
          /\ faults' = faults + 1
    /\ UNCHANGED <<staging, data, stray, entry>>

\* The destination exists already: nothing is staged.
RefuseExisting(w) ==
    /\ at[w] = "write" /\ Exists(PathOf[w])
    /\ at' = [at EXCEPT ![w] = "raised"]
    /\ UNCHANGED <<files, faults>>

Stage(w) ==
    /\ at[w] = "write" /\ ~Exists(PathOf[w])
    /\ \/ /\ at' = [at EXCEPT ![w] = "chunks"]
          /\ staging' = [staging EXCEPT ![w] = "present"]
          /\ data' = [data EXCEPT ![w] = "partial"]
          /\ UNCHANGED <<stray, entry, made, faults>>
       \/ Raise(w)

WriteChunks(w) ==
    /\ at[w] = "chunks"
    /\ \/ /\ at' = [at EXCEPT ![w] = "sync"]
          /\ data' = [data EXCEPT ![w] = "whole"]
          /\ UNCHANGED <<staging, stray, entry, made, faults>>
       \/ Raise(w)

SyncFile(w) ==
    /\ at[w] = "sync"
    /\ \/ /\ at' = [at EXCEPT ![w] = "link"]
          /\ data' = [data EXCEPT ![w] = "synced"]
          /\ UNCHANGED <<staging, stray, entry, made, faults>>
       \/ Raise(w)

Named(w) == [by |-> w, ino |-> entry[PathOf[w]].ino + 1, mtime |-> 0, edited |-> FALSE,
             synced |-> FALSE]
\* os.link names the file only where there is none.
Link(w) ==
    /\ at[w] = "link"
    /\ \/ /\ ~Exists(PathOf[w])
          /\ entry' = [entry EXCEPT ![PathOf[w]] = Named(w)]
          /\ at' = [at EXCEPT ![w] = "unlink"]
          /\ UNCHANGED <<staging, data, stray, made, faults>>
       \/ /\ Exists(PathOf[w])
          /\ at' = [at EXCEPT ![w] = "raised"]
          /\ Cleanup(w, faults)
          /\ UNCHANGED <<data, entry, made>>
       \/ Raise(w)

\* The staging name goes.  If that fails the finally clause tries again, and the outcome
\* of the publication is unknown.
Unlink(w) ==
    /\ at[w] = "unlink"
    /\ \/ /\ staging' = [staging EXCEPT ![w] = "removing"]
          /\ at' = [at EXCEPT ![w] = "sync_directory"]
          /\ UNCHANGED <<data, stray, entry, made, faults>>
       \/ Raise(w)

MutSyncDirectory(w) ==
    /\ at[w] = "sync_directory"
    /\ at' = [at EXCEPT ![w] = "register"]
    /\ UNCHANGED <<files, faults>>
\* All names in the parent are synced: of files, of directories and of staging files.
SyncDirectory(w) ==
    /\ at[w] = "sync_directory"
    /\ \/ /\ LET Here(x) == DirOf[x] = DirOf[PathOf[w]] IN
             /\ entry' = [p \in Paths |-> IF Here(p) THEN [entry[p] EXCEPT !.synced = TRUE]
                                          ELSE entry[p]]
             /\ made' = [d \in Dirs |-> IF Here(d) /\ made[d] = "new" THEN "kept" ELSE made[d]]
             /\ staging' = [v \in Work |-> IF Here(PathOf[v]) /\ staging[v] = "removing"
                                           THEN "none" ELSE staging[v]]
          /\ at' = [at EXCEPT ![w] = "register"]
          /\ UNCHANGED <<data, stray, faults>>
       \/ Raise(w)

Write(w) ==
    /\ PrepareParent(w) \/ RefuseExisting(w) \/ Stage(w) \/ WriteChunks(w) \/ SyncFile(w) \/ Link(w) \/ Unlink(w)
         \/ SyncDirectory(w)
    /\ UNCHANGED <<work, manifest, phase, todo, stream, crashes, damage>>

\* register: the file must verify, and the path must be free, unless this very manifest is
\* there already.  The transaction may fail, also after it was committed, and the caller
\* fails with it or registers again.
Registrable(w) == Verifies(w) /\ \A v \in manifest : PathOf[v] = PathOf[w] => v = w
Register(w) ==
    /\ at[w] = "register"
    /\ \/ /\ Registrable(w)
          /\ manifest' = manifest \cup {w}
          /\ at' = [at EXCEPT ![w] = "commit"]
          /\ UNCHANGED faults
       \/ /\ ~Registrable(w)
          /\ at' = [at EXCEPT ![w] = "raised"]
          /\ UNCHANGED <<manifest, faults>>
       \/ /\ faults < MaxFaults
          /\ manifest' = manifest \/ (Registrable(w) /\ manifest' = manifest \cup {w})
          /\ \E next \in {"register", "raised"} : at' = [at EXCEPT ![w] = next]
          /\ faults' = faults + 1
    /\ UNCHANGED <<work, files, phase, todo, stream, crashes, damage>>

\* The result commits with its checkpoint, which must find the manifest, before the lease ends.
CommitWithCheckpoint(w) ==
    /\ at[w] = "commit" /\ work[w].lease = "live" /\ w \in manifest
    /\ work' = [work EXCEPT ![w] = [@ EXCEPT !.state = "succeeded", !.lease = "none",
                                             !.outcome = "succeeded"]]
    /\ at' = [at EXCEPT ![w] = "idle"]
    /\ UNCHANGED <<files, manifest, phase, todo, stream, budget>>

\* The executor raised: the attempt commits as failed, and the policy retries or stops.
CommitFailure(w) ==
    /\ at[w] = "raised" /\ work[w].lease = "live"
    /\ \E target \in {"retry_wait", "failed"} :
         work' = [work EXCEPT ![w] = [@ EXCEPT !.state = target, !.lease = "none",
                                               !.outcome = "failed"]]
    /\ at' = [at EXCEPT ![w] = "idle"]
    /\ UNCHANGED <<files, manifest, phase, todo, stream, budget>>

\* A result that comes after the lease expired changes nothing.
RefuseLate(w) ==
    /\ at[w] \in {"commit", "raised"} /\ work[w].lease = "expired"
    /\ at' = [at EXCEPT ![w] = "idle"]
    /\ UNCHANGED <<work, files, manifest, phase, todo, stream, budget>>

Expire(w) ==
    /\ work[w].lease = "live"
    /\ work' = [work EXCEPT ![w].lease = "expired"]
    /\ UNCHANGED <<at, files, manifest, phase, todo, stream, budget>>

----------------------------------------------------------------------------
(* Readers *)

\* _open_verified_stream: the bytes are hashed through the descriptor ...
Open(w) ==
    /\ phase = "up" /\ stream.at = "closed" /\ w \in manifest
    /\ LET e == entry[PathOf[w]]
       IN stream' = [at |-> IF Verifies(w) THEN "verified" ELSE "refused", of |-> w,
                     ino |-> e.ino, mtime |-> e.mtime, clean |-> TRUE]
    /\ UNCHANGED <<work, at, files, manifest, phase, todo, budget>>

SameFile ==
    LET e == entry[PathOf[stream.of]]
    IN e.by # Nobody /\ e.ino = stream.ino /\ e.mtime = stream.mtime

\* ... and the file must be the same one afterwards.
OpenChecked ==
    /\ stream.at = "verified"
    /\ stream' = [stream EXCEPT !.at = IF SameFile THEN "open" ELSE "refused"]
    /\ UNCHANGED <<work, at, files, manifest, phase, todo, budget>>

\* The descriptor shows an edit made in place; a replaced or removed file it does not.
Read ==
    /\ stream.at = "open"
    /\ LET e == entry[PathOf[stream.of]]
       IN stream' = [stream EXCEPT !.clean = @ /\ ~(e.ino = stream.ino /\ e.edited)]
    /\ UNCHANGED <<work, at, files, manifest, phase, todo, budget>>

MutCloseStream ==
    /\ stream.at = "open"
    /\ stream' = [stream EXCEPT !.at = "complete"]
    /\ UNCHANGED <<work, at, files, manifest, phase, todo, budget>>
\* _close_locked: identity is checked again before the last chunk is handed out.
CloseStream ==
    /\ stream.at = "open"
    /\ stream' = [stream EXCEPT !.at = IF SameFile THEN "complete" ELSE "refused"]
    /\ UNCHANGED <<work, at, files, manifest, phase, todo, budget>>

Release ==
    /\ stream.at \in {"complete", "refused"}
    /\ stream' = NoStream
    /\ UNCHANGED <<work, at, files, manifest, phase, todo, budget>>

\* Somebody edits, replaces or removes a published file (external).
Damage(p) ==
    /\ phase = "up" /\ Exists(p) /\ damage[p] < MaxDamage
    /\ damage' = [damage EXCEPT ![p] = @ + 1]
    /\ \/ entry' = [entry EXCEPT ![p].edited = TRUE, ![p].mtime = @ + 1]
       \/ entry' = [entry EXCEPT ![p].by = Stranger, ![p].ino = @ + 1]
       \/ entry' = [entry EXCEPT ![p].by = Nobody]
    /\ UNCHANGED <<work, at, staging, data, stray, made, manifest, phase, todo, stream, faults,
                   crashes>>

----------------------------------------------------------------------------
(* Power failure and startup recovery *)

\* What was not synced may be lost: names come and go, a directory goes with all in it, and
\* bytes are torn.
Crash ==
    /\ crashes < MaxCrashes
    /\ crashes' = crashes + 1
    /\ \E dirs \in SUBSET {d \in Dirs : made[d] = "new"},
          lost \in SUBSET {p \in Paths : ~entry[p].synced},
          torn \in SUBSET {w \in Work : data[w] = "whole"},
          left \in SUBSET (stray \cup {w \in Work : staging[w] # "none"}) :
         LET Swept(x) == Way[x] \cap dirs # {} IN
         /\ made' = [d \in Dirs |-> IF made[d] = "none" \/ Swept(d) THEN "none" ELSE "kept"]
         /\ entry' = [p \in Paths |-> IF p \in lost \/ Swept(p) THEN Absent
                                      ELSE [entry[p] EXCEPT !.synced = TRUE]]
         /\ data' = [w \in Work |-> IF w \in torn THEN "torn" ELSE
                                    IF data[w] = "whole" THEN "synced" ELSE data[w]]
         /\ stray' = {w \in left : ~Swept(PathOf[w])}
    /\ staging' = [w \in Work |-> "none"]
    /\ at' = [w \in Work |-> "idle"]
    /\ phase' = "down"
    /\ todo' = {}
    /\ stream' = NoStream
    /\ UNCHANGED <<work, manifest, faults, damage>>

\* scan: manifests without their bytes, files without a manifest, hidden names.
MutIntegrityIssues == \E w \in manifest : ~Verifies(w)
IntegrityIssues ==
    \/ \E w \in manifest : ~Verifies(w)
    \/ \E p \in Paths : Exists(p) /\ ~ \E w \in manifest : PathOf[w] = p
    \/ stray # {}

ExpiredWork == {w \in Work : work[w].state = "running" /\ work[w].lease = "expired"}
\* _classify: any damage anywhere, or an expired attempt that left a manifest.
Ambiguous == IntegrityIssues \/ ExpiredWork \cap manifest # {}

Recover ==
    /\ phase \in {"down", "ambiguous"}
    /\ IF Ambiguous
       THEN phase' = "ambiguous" /\ UNCHANGED todo
       ELSE phase' = "recovering" /\ todo' = ExpiredWork
    /\ UNCHANGED <<work, at, files, manifest, stream, budget>>

Requeued(w) == [work EXCEPT ![w] = [@ EXCEPT !.state = "retry_wait", !.lease = "none",
                                             !.outcome = "lease_expired"]]
\* One RecoverExpiredWork command per finding; an unknown outcome ends the recovery.
RecoverExpired(w) ==
    /\ phase = "recovering" /\ w \in todo
    /\ \/ /\ work' = Requeued(w)
          /\ todo' = todo \ {w}
          /\ UNCHANGED <<phase, faults>>
       \/ /\ faults < MaxFaults
          /\ faults' = faults + 1
          /\ work' \in {work, Requeued(w)}
          /\ phase' = "down"
          /\ todo' = {}
    /\ UNCHANGED <<at, files, manifest, stream, crashes, damage>>

Recovered ==
    /\ phase = "recovering" /\ todo = {}
    /\ phase' = "up"
    /\ UNCHANGED <<work, at, files, manifest, todo, stream, budget>>

Next ==
    \/ \E w \in Work : Claim(w) \/ Write(w) \/ Register(w) \/ CommitWithCheckpoint(w)
                         \/ CommitFailure(w) \/ RefuseLate(w) \/ Expire(w) \/ Open(w)
                         \/ RecoverExpired(w)
    \/ OpenChecked \/ Read \/ CloseStream \/ Release
    \/ \E p \in Paths : Damage(p)
    \/ Crash \/ Recover \/ Recovered

Spec == Init /\ [][Next]_vars

----------------------------------------------------------------------------
(* Properties *)

\* A directory on the way to the file of w is gone, and the process does not start.
Lost(w) == phase \in {"down", "ambiguous"} /\ \E d \in Way[PathOf[w]] : made[d] = "none"

\* Whatever step a power failure follows, and whoever else publishes under the same name, the
\* file of a committed manifest is there, whole and on the disk, unless somebody damaged it.
\* One loss is the program's own: a directory made for the file, whose name nobody synced
\* (_prepare_parent, _sync_directory).  Then nothing runs: recovery refuses the store, and
\* no work is claimed and no stream is opened over a manifest without its bytes.
ManifestsHonoured ==
    \A w \in manifest : damage[PathOf[w]] = 0 =>
       \/ Verifies(w) /\ data[w] = "synced" /\ entry[PathOf[w]].synced
       \/ Lost(w)

\* Work that startup recovery hands out again left nothing behind: no manifest, no file under its
\* final name and no staging file, so that the next attempt neither repeats a committed effect
\* nor finds its destination taken by its predecessor.
RequeuedLeftNothing ==
    \A w \in Work :
       work[w].state = "retry_wait" /\ work[w].outcome = "lease_expired" =>
          w \notin manifest /\ entry[PathOf[w]].by # w /\ w \notin stray

\* A stream that ended without an error delivered the bytes its manifest describes, although the
\* file may be edited, replaced or removed between opening, reading and closing it.
CompleteStreamsAreClean == stream.at = "complete" => stream.clean

=============================================================================
