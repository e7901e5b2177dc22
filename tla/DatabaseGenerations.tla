------------------------- MODULE DatabaseGenerations -------------------------
(***************************************************************************)
(* Crash-safe, generation-based storage of the local attendance database   *)
(* (server/database/generation_store.py, server/database/migrate.py and    *)
(* the part of server/core/lifespan.py that commits a start).              *)
(*                                                                         *)
(* A generation is a published directory holding one SQLite file and an    *)
(* authenticated manifest.  CURRENT.json (here: pointer) selects one.      *)
(* Every start of the backend selects, repairs, rolls back or builds a     *)
(* generation under an OS file lock, opens it, and only then marks it      *)
(* healthy.  Each durable write (a rename, a marker, a pointer) is a step  *)
(* of its own, so a crash may fall between any two of them.                *)
(***************************************************************************)
EXTENDS Integers, FiniteSets

CONSTANTS
    Procs,                \* backend processes that share the data directory
    NoProc,               \* the lock's value when no process holds it
    Writes,               \* facts the backend may be asked to store
    LegacyWrites,         \* facts an adopted pre-generation database holds
    Builds,               \* application builds; build b is at schema head b
    GenerationRetention,  \* GENERATION_RETENTION
    MaxGens,              \* bound: generations ever published
    MaxCrashes,           \* bound: stops and crashes of a process
    MaxFaults,            \* bound: injected faults, each kind once
    Faults                \* which faults may happen

FaultKinds == {"pointer", "generation", "archive", "build", "downgrade"}

ASSUME ConstantsAssumption ==
    /\ NoProc \notin Procs
    /\ LegacyWrites \subseteq Writes
    /\ Builds \subseteq Nat \ {0}
    /\ GenerationRetention \in Nat
    /\ MaxGens \in Nat
    /\ MaxCrashes \in Nat
    /\ MaxFaults \in Nat
    /\ Faults \subseteq FaultKinds

Gens   == 1 .. MaxGens
NoGen  == 0
Faces  == {"none", "legacy", "enrolled"}
Kinds  == {"none", "legacy-adoption", "new-database", "schema-migration"}

VARIABLES
    gens,        \* the published generation directories
    nextGen,     \* identity of the next published generation
    pointer,     \* CURRENT.json
    pendingDir,  \* some .pending-* directory is on disk
    legacy,      \* revision of the pre-generation attendance.db, 0 when none
    faceFile,    \* the legacy face_database.db is still in place
    lock,        \* holder of the migration lock
    pc, build,   \* of each process: where it is, and which build it runs
    active,      \* the generation it opened
    ptr,         \* its copy of the pointer
    cand,        \* the generation it is publishing
    snap,        \* the contents of its candidate
    doomed,      \* generations it has yet to prune
    lastBuild,   \* the build of the latest start
    crashes, faults,
    acked,       \* observability: facts whose storage was acknowledged
    userFace,    \* observability: what the user last did to the enrolled face
    hadFaceFile  \* observability: a legacy face database existed at first

disk      == <<gens, nextGen, pointer, pendingDir, faceFile>>
local     == <<build, active, ptr, cand, snap, doomed>>
observed  == <<acked, userFace>>
budget    == <<lastBuild, crashes, faults>>
fixed     == <<legacy, hadFaceFile>>
vars == <<disk, lock, pc, local, observed, budget, fixed>>

Absent ==
    [status |-> "absent", seq |-> 0, rev |-> 0, src |-> NoGen, kind |-> "none",
     healthy |-> FALSE, pristine |-> FALSE, data |-> {}, face |-> "none"]

Pointer(st, gen, prev, seq, act) ==
    [st |-> st, gen |-> gen, prev |-> prev, seq |-> seq, act |-> act]

NoPointer == Pointer("none", NoGen, NoGen, 0, "healthy")

EmptySnap == [data |-> {}, face |-> "none"]

Contents(g) == [data |-> gens[g].data, face |-> gens[g].face]

GenRecord ==
    [status : {"absent", "intact", "damaged"}, seq : Int, rev : Nat,
     src : Gens \cup {NoGen}, kind : Kinds, healthy : BOOLEAN,
     pristine : BOOLEAN, data : SUBSET Writes, face : Faces]

PointerRecord ==
    [st : {"none", "ok", "bad"}, gen : Gens \cup {NoGen},
     prev : Gens \cup {NoGen}, seq : Int, act : {"pending", "healthy"}]

PublishSteps == {"adoptPublish", "publish"}
LockedSteps ==
    {"select", "activate", "adopt", "adoptMarker", "adoptPointer", "check",
     "create", "migrate", "point", "verify", "mark", "markPointer", "prune"}
        \cup PublishSteps
FreeSteps ==
    {"off", "failed", "refused", "prepare", "open", "loaded", "finalize", "listen",
     "serving"}

TypeOK ==
    /\ gens \in [Gens -> GenRecord]
    /\ nextGen \in 1 .. MaxGens + 1
    /\ pointer \in PointerRecord
    /\ pendingDir \in BOOLEAN
    /\ legacy \in Builds \cup {0}
    /\ faceFile \in BOOLEAN /\ hadFaceFile \in BOOLEAN
    /\ lock \in Procs \cup {NoProc}
    /\ pc \in [Procs -> LockedSteps \cup FreeSteps]
    /\ build \in [Procs -> Builds \cup {0}]
    /\ active \in [Procs -> Gens \cup {NoGen}]
    /\ ptr \in [Procs -> PointerRecord]
    /\ cand \in [Procs -> Gens \cup {NoGen}]
    /\ snap \in [Procs -> [data : SUBSET Writes, face : Faces]]
    /\ doomed \in [Procs -> SUBSET Gens]
    /\ lastBuild \in Builds \cup {0}
    /\ crashes \in Nat /\ faults \subseteq Faults
    /\ acked \in SUBSET Writes
    /\ userFace \in {"untouched", "enrolled", "removed"}

Init ==
    /\ gens = [g \in Gens |-> Absent]
    /\ nextGen = 1
    /\ pointer = NoPointer
    /\ pendingDir = FALSE
    /\ legacy \in Builds \cup {0}
    /\ faceFile \in BOOLEAN /\ hadFaceFile = faceFile
    /\ lock = NoProc
    /\ pc = [p \in Procs |-> "off"]
    /\ build = [p \in Procs |-> 0]
    /\ active = [p \in Procs |-> NoGen]
    /\ ptr = [p \in Procs |-> NoPointer]
    /\ cand = [p \in Procs |-> NoGen]
    /\ snap = [p \in Procs |-> EmptySnap]
    /\ doomed = [p \in Procs |-> {}]
    /\ lastBuild = 0 /\ crashes = 0 /\ faults = {}
    /\ acked = IF legacy = 0 THEN {} ELSE LegacyWrites
    /\ userFace = "untouched"

-----------------------------------------------------------------------------
(* What a start reads from the disk. *)

Present(g) == g \in Gens /\ gens[g].status # "absent"

Published == {g \in Gens : gens[g].status # "absent"}

\* _validate_generation: manifest authentic, database readable, revision known.
Valid(g, b) ==
    /\ g \in Gens
    /\ gens[g].status = "intact"
    /\ gens[g].rev <= b

\* sorted(candidates, reverse=True): by sequence, then by (dated) name.
Newer(g, h) ==
    \/ gens[g].seq > gens[h].seq
    \/ gens[g].seq = gens[h].seq /\ g > h

Newest(g, S) == g \in S /\ \A h \in S \ {g} : Newer(g, h)

HealthyCandidates(b) == {g \in Gens : Valid(g, b) /\ gens[g].healthy}

\* Seeded bug: only an adopted database can be recovered without a marker.
FirstCandidatesAdopted(b) ==
    {g \in Gens : Valid(g, b) /\ gens[g].pristine /\ gens[g].kind = "legacy-adoption"}

FirstCandidates(b) ==
    {g \in Gens : /\ Valid(g, b)
                  /\ gens[g].pristine
                  /\ gens[g].src = NoGen
                  /\ gens[g].kind \in {"legacy-adoption", "new-database"}}

PointerValid(b) == pointer.st = "ok" /\ Valid(pointer.gen, b)

Goto(p, step) == pc' = [pc EXCEPT ![p] = step]

\* Steps in LockedSteps run while p holds the lock (LockHeld, below).
At(p, step) == pc[p] = step

Leave(p, step) == Goto(p, step) /\ lock' = NoProc

WritePointer(p, new) == pointer' = new /\ ptr' = [ptr EXCEPT ![p] = new]

-----------------------------------------------------------------------------
(* Starting: run_migrations, under the migration lock. *)

\* A fault that the run allows.
Happens(kind) ==
    /\ kind \in Faults \ faults /\ Cardinality(faults) < MaxFaults
    /\ faults' = faults \cup {kind}

\* The Electron main process ends the backend that listens on the port before it
\* spawns another; one that is still starting is not found that way.
Start(p, b) ==
    /\ pc[p] \in {"off", "failed", "refused"}
    /\ \A q \in Procs : pc[q] # "serving"
    /\ \/ b >= lastBuild /\ UNCHANGED faults
       \/ b < lastBuild /\ Happens("downgrade")
    /\ build' = [build EXCEPT ![p] = b]
    /\ lastBuild' = b
    /\ Goto(p, "prepare")
    /\ UNCHANGED <<disk, lock, active, ptr, cand, snap, doomed, observed,
                   crashes, fixed>>

Acquire(p) ==
    /\ pc[p] \in {"prepare", "loaded"}
    /\ lock = NoProc
    /\ lock' = p
    /\ Goto(p, IF pc[p] = "prepare" THEN "select" ELSE "mark")
    /\ UNCHANGED <<disk, local, observed, budget, fixed>>

\* The 30 s deadline of migration_lock expires while another process holds it.
AcquireTimeout(p) ==
    /\ pc[p] \in {"prepare", "loaded"}
    /\ lock # NoProc
    /\ Goto(p, "failed")
    /\ UNCHANGED <<disk, lock, local, observed, budget, fixed>>

\* _recover_or_read_pointer, first half: the pointer and what it selects hold.
SelectPointer(p) ==
    /\ At(p, "select")
    /\ PointerValid(build[p])
    /\ pendingDir' = FALSE
    /\ ptr' = [ptr EXCEPT ![p] = pointer]
    /\ Goto(p, "activate")
    /\ UNCHANGED <<gens, nextGen, pointer, faceFile, lock, build, active, cand,
                   snap, doomed, observed, budget, fixed>>

\* ... second half: fall back to the newest generation with a health marker.
SelectHealthy(p) ==
    /\ At(p, "select")
    /\ ~PointerValid(build[p])
    /\ \E g \in Gens :
          /\ Newest(g, HealthyCandidates(build[p]))
          /\ WritePointer(p, Pointer("ok", g, gens[g].src, gens[g].seq, "healthy"))
    /\ pendingDir' = FALSE
    /\ Goto(p, "activate")
    /\ UNCHANGED <<gens, nextGen, faceFile, lock, build, active, cand, snap,
                   doomed, observed, budget, fixed>>

NothingHealthy(b) == ~PointerValid(b) /\ HealthyCandidates(b) = {}

\* _recover_unactivated_first_generation: a first generation that was published
\* before the crash that kept the pointer from being written.
SelectFirst(p) ==
    /\ At(p, "select")
    /\ NothingHealthy(build[p])
    /\ \E g \in Gens :
          /\ Newest(g, FirstCandidates(build[p]))
          /\ IF gens[g].kind = "legacy-adoption"
             THEN /\ cand' = [cand EXCEPT ![p] = g]
                  /\ Goto(p, "adoptMarker")
                  /\ UNCHANGED <<pointer, ptr>>
             ELSE /\ WritePointer(p, Pointer("ok", g, NoGen, gens[g].seq, "pending"))
                  /\ Goto(p, "activate")
                  /\ UNCHANGED cand
    /\ pendingDir' = FALSE
    /\ UNCHANGED <<gens, nextGen, faceFile, lock, build, active, snap, doomed,
                   observed, budget, fixed>>

\* "Published database generations exist, but none has a valid authenticated
\* health record": the start is refused.
SelectRefuse(p) ==
    /\ At(p, "select")
    /\ NothingHealthy(build[p])
    /\ FirstCandidates(build[p]) = {}
    /\ Published # {}
    /\ pendingDir' = FALSE
    /\ Leave(p, "refused")
    /\ UNCHANGED <<gens, nextGen, pointer, faceFile, local, observed, budget, fixed>>

\* No generation yet: adopt the legacy database, or create an empty one.
SelectNone(p) ==
    /\ At(p, "select")
    /\ NothingHealthy(build[p])
    /\ Published = {}
    /\ pendingDir' = FALSE
    /\ ptr' = [ptr EXCEPT ![p] = NoPointer]
    /\ Goto(p, IF legacy # 0 THEN "adopt" ELSE "create")
    /\ UNCHANGED <<gens, nextGen, pointer, faceFile, lock, build, active, cand,
                   snap, doomed, observed, budget, fixed>>

\* _rollback_unhealthy_pointer
Activate(p) ==
    /\ At(p, "activate")
    /\ LET mine == ptr[p]
           prev == mine.prev
       IN  \/ /\ mine.act # "pending"
              /\ Goto(p, "check")
              /\ UNCHANGED <<pointer, ptr, lock>>
           \/ /\ mine.act = "pending"
              /\ gens[mine.gen].healthy
              /\ WritePointer(p, [mine EXCEPT !.act = "healthy"])
              /\ Goto(p, "check")
              /\ UNCHANGED lock
           \/ /\ mine.act = "pending"
              /\ ~gens[mine.gen].healthy
              /\ prev = NoGen
              /\ Goto(p, "check")
              /\ UNCHANGED <<pointer, ptr, lock>>
           \/ /\ mine.act = "pending"
              /\ ~gens[mine.gen].healthy
              /\ prev # NoGen
              /\ Valid(prev, build[p])
              /\ WritePointer(p, Pointer("ok", prev, gens[prev].src, mine.seq - 1,
                                         "healthy"))
              /\ Goto(p, "check")
              /\ UNCHANGED lock
           \/ /\ mine.act = "pending"
              /\ ~gens[mine.gen].healthy
              /\ prev # NoGen
              /\ ~Valid(prev, build[p])
              /\ Leave(p, "failed")
              /\ UNCHANGED <<pointer, ptr>>
    /\ UNCHANGED <<gens, nextGen, pendingDir, faceFile, build, active, cand, snap,
                   doomed, observed, budget, fixed>>

\* The selected generation is used as it is when it is at this build's head.
Check(p) ==
    /\ At(p, "check")
    /\ LET g == ptr[p].gen IN
       \/ /\ gens[g].rev = build[p]
          /\ active' = [active EXCEPT ![p] = g]
          /\ Leave(p, "open")
       \/ /\ gens[g].rev # build[p]
          /\ Valid(g, build[p])
          /\ Goto(p, "migrate")
          /\ UNCHANGED <<active, lock>>
       \/ /\ gens[g].rev # build[p]
          /\ ~Valid(g, build[p])
          /\ Leave(p, "failed")
          /\ UNCHANGED active
    /\ UNCHANGED <<disk, build, ptr, cand, snap, doomed, observed, budget, fixed>>

-----------------------------------------------------------------------------
(* _publish_database_generation: a candidate is prepared in a .pending        *)
(* directory, validated there, and published by one rename.                   *)

Prepare(p, from, to, contents) ==
    /\ At(p, from)
    /\ pendingDir' = TRUE
    /\ snap' = [snap EXCEPT ![p] = contents]
    /\ Goto(p, to)
    /\ UNCHANGED <<gens, nextGen, pointer, faceFile, lock, build, active, ptr, cand,
                   doomed, observed, budget, fixed>>

\* The legacy database is copied as it is, after the preflight accepted it.
Adopt(p) ==
    /\ legacy <= build[p]
    /\ Prepare(p, "adopt", "adoptPublish", [data |-> LegacyWrites, face |-> "none"])

AdoptRejected(p) ==
    /\ At(p, "adopt")
    /\ legacy > build[p]
    /\ Leave(p, "failed")
    /\ UNCHANGED <<disk, local, observed, budget, fixed>>

Create(p) == Prepare(p, "create", "publish", EmptySnap)

Migrate(p) == Prepare(p, "migrate", "publish", Contents(ptr[p].gen))

PublishAs(p, record) ==
    /\ nextGen \in Gens
    /\ gens' = [gens EXCEPT ![nextGen] = record]
    /\ nextGen' = nextGen + 1
    /\ cand' = [cand EXCEPT ![p] = nextGen]
    /\ pendingDir' = FALSE

Candidate(p, kind, seq, rev, src) ==
    [status |-> "intact", seq |-> seq, rev |-> rev, src |-> src, kind |-> kind,
     healthy |-> FALSE, pristine |-> TRUE, data |-> snap[p].data, face |-> snap[p].face]

PublishAdoption(p) ==
    /\ At(p, "adoptPublish")
    /\ PublishAs(p, Candidate(p, "legacy-adoption", 1, legacy, NoGen))
    /\ Goto(p, "adoptMarker")
    /\ UNCHANGED <<pointer, faceFile, lock, build, active, ptr, snap, doomed,
                   observed, budget, fixed>>

\* _assert_preserved_content compares the candidate with its source once more.
SourceUnchanged(p) == ptr[p].gen # NoGen => snap[p] = Contents(ptr[p].gen)

Publish(p) ==
    /\ At(p, "publish")
    /\ SourceUnchanged(p)
    /\ PublishAs(p, IF ptr[p].gen = NoGen
                    THEN Candidate(p, "new-database", 1, build[p], NoGen)
                    ELSE Candidate(p, "schema-migration", ptr[p].seq + 1, build[p],
                                   ptr[p].gen))
    /\ Goto(p, "point")
    /\ UNCHANGED <<pointer, faceFile, lock, build, active, ptr, snap, doomed,
                   observed, budget, fixed>>

RejectCandidate(p) ==
    /\ pendingDir' = FALSE
    /\ Leave(p, "failed")
    /\ UNCHANGED <<gens, nextGen, pointer, faceFile, local, observed, lastBuild,
                   crashes, fixed>>

PublishRejected(p) ==
    /\ At(p, "publish")
    /\ ~SourceUnchanged(p)
    /\ UNCHANGED faults
    /\ RejectCandidate(p)

\* Injected: no disk space, or a migration script or a validation fails.
BuildFails(p) ==
    /\ \E step \in PublishSteps : At(p, step)
    /\ Happens("build")
    /\ RejectCandidate(p)

\* The adopted generation is healthy at once; then the pointer selects it.
AdoptMarker(p) ==
    /\ At(p, "adoptMarker")
    /\ gens' = [gens EXCEPT ![cand[p]].healthy = TRUE]
    /\ Goto(p, "adoptPointer")
    /\ UNCHANGED <<nextGen, pointer, pendingDir, faceFile, lock, local, observed,
                   budget, fixed>>

AdoptPointer(p) ==
    /\ At(p, "adoptPointer")
    /\ WritePointer(p, Pointer("ok", cand[p], NoGen, gens[cand[p]].seq, "healthy"))
    /\ Goto(p, "check")
    /\ UNCHANGED <<gens, nextGen, pendingDir, faceFile, lock, build, active, cand,
                   snap, doomed, observed, budget, fixed>>

\* A new or migrated generation is selected as pending, with its way back.
Point(p) ==
    /\ At(p, "point")
    /\ pointer' = Pointer("ok", cand[p], ptr[p].gen, gens[cand[p]].seq, "pending")
    /\ Goto(p, "verify")
    /\ UNCHANGED <<gens, nextGen, pendingDir, faceFile, lock, local, observed,
                   budget, fixed>>

Verify(p) ==
    /\ At(p, "verify")
    /\ IF Valid(cand[p], build[p]) /\ gens[cand[p]].pristine
       THEN active' = [active EXCEPT ![p] = cand[p]] /\ Leave(p, "open")
       ELSE UNCHANGED active /\ Leave(p, "failed")
    /\ UNCHANGED <<disk, build, ptr, cand, snap, doomed, observed, budget, fixed>>

-----------------------------------------------------------------------------
(* lifespan: open the database, commit the start, serve. *)

\* FaceRecognizer.initialize: opening switches the file to WAL, so it no longer
\* has its creation hash; the faces of a legacy face database are upserted.
Opened(gen) ==
    [gen EXCEPT !.pristine = FALSE, !.face = IF faceFile THEN "legacy" ELSE gen.face]

Open(p) ==
    /\ pc[p] = "open"
    /\ gens' = [gens EXCEPT ![active[p]] = Opened(gens[active[p]])]
    /\ Goto(p, "loaded")
    /\ UNCHANGED <<nextGen, pointer, pendingDir, faceFile, lock, local, observed,
                   budget, fixed>>

\* Seeded bug: a pending pointer counts as committed.
MarkNothingAtAll(p) ==
    /\ At(p, "mark")
    /\ pointer.st = "ok"
    /\ Leave(p, "finalize")
    /\ UNCHANGED <<disk, local, observed, budget, fixed>>

\* mark_active_generation_healthy reads CURRENT.json anew.
MarkNothing(p) ==
    /\ At(p, "mark")
    /\ \/ pointer.st = "none"
       \/ pointer.st = "ok" /\ pointer.act = "healthy"
    /\ Leave(p, "finalize")
    /\ UNCHANGED <<disk, local, observed, budget, fixed>>

Markable(b) == PointerValid(b) /\ gens[pointer.gen].rev = b

PointerPending == pointer.st = "ok" /\ pointer.act = "pending"

Mark(p) ==
    /\ At(p, "mark")
    /\ PointerPending
    /\ Markable(build[p])
    /\ gens' = [gens EXCEPT ![pointer.gen].healthy = TRUE]
    /\ ptr' = [ptr EXCEPT ![p] = pointer]
    /\ Goto(p, "markPointer")
    /\ UNCHANGED <<nextGen, pointer, pendingDir, faceFile, lock, build, active, cand,
                   snap, doomed, observed, budget, fixed>>

MarkFails(p) ==
    /\ At(p, "mark")
    /\ pointer.st = "bad" \/ (PointerPending /\ ~Markable(build[p]))
    /\ Leave(p, "failed")
    /\ UNCHANGED <<disk, local, observed, budget, fixed>>

\* Seeded bug: prune_generations protects nothing.
MarkPointerUnprotected(p) ==
    /\ At(p, "markPointer")
    /\ WritePointer(p, [ptr[p] EXCEPT !.act = "healthy"])
    /\ doomed' = [doomed EXCEPT ![p] = Published]
    /\ Goto(p, "prune")
    /\ UNCHANGED <<gens, nextGen, pendingDir, faceFile, lock, build, active, cand,
                   snap, observed, budget, fixed>>

\* The healthy pointer, and the generations prune_generations will not retain:
\* all but the protected ones and the GENERATION_RETENTION latest modified.
MarkPointer(p) ==
    /\ At(p, "markPointer")
    /\ WritePointer(p, [ptr[p] EXCEPT !.act = "healthy"])
    /\ \E recent \in SUBSET Published :
          /\ Cardinality(recent) =
                IF Cardinality(Published) < GenerationRetention
                THEN Cardinality(Published) ELSE GenerationRetention
          /\ doomed' = [doomed EXCEPT ![p] =
                          Published \ (recent \cup {ptr[p].gen, ptr[p].prev})]
    /\ Goto(p, "prune")
    /\ UNCHANGED <<gens, nextGen, pendingDir, faceFile, lock, build, active, cand,
                   snap, observed, budget, fixed>>

\* rmtree is not atomic: a tree is unusable from its first removed file on.
Prune(p, g) ==
    /\ At(p, "prune")
    /\ g \in doomed[p]
    /\ IF gens[g].status = "intact"
       THEN /\ gens' = [gens EXCEPT ![g].status = "damaged"]
            /\ UNCHANGED doomed
       ELSE /\ gens' = [gens EXCEPT ![g] = Absent]
            /\ doomed' = [doomed EXCEPT ![p] = @ \ {g}]
    /\ UNCHANGED <<nextGen, pointer, pendingDir, faceFile, lock, pc, build, active,
                   ptr, cand, snap, observed, budget, fixed>>

PruneDone(p) ==
    /\ At(p, "prune")
    /\ doomed[p] = {}
    /\ Leave(p, "finalize")
    /\ UNCHANGED <<disk, local, observed, budget, fixed>>

\* Seeded bug: the imported face database is left where it is.
FinalizeKeepsFile(p) ==
    /\ pc[p] = "finalize"
    /\ Goto(p, "listen")
    /\ UNCHANGED <<disk, lock, local, observed, budget, fixed>>

\* finalize_legacy_migration: archive the imported face database.  An OSError
\* is logged and the file stays.
Finalize(p) ==
    /\ pc[p] = "finalize"
    /\ faceFile' = FALSE
    /\ Goto(p, "listen")
    /\ UNCHANGED <<gens, nextGen, pointer, pendingDir, lock, local, observed,
                   budget, fixed>>

ArchiveFails(p) ==
    /\ pc[p] = "finalize"
    /\ faceFile
    /\ Happens("archive")
    /\ Goto(p, "listen")
    /\ UNCHANGED <<disk, lock, local, observed, lastBuild, crashes, fixed>>

\* uvicorn binds the port after the lifespan's startup, and exits when it is taken.
Listen(p) ==
    /\ pc[p] = "listen"
    /\ Goto(p, IF \E q \in Procs : pc[q] = "serving" THEN "failed" ELSE "serving")
    /\ UNCHANGED <<disk, lock, local, observed, budget, fixed>>

Write(p, w) ==
    /\ pc[p] = "serving"
    /\ w \notin gens[active[p]].data
    /\ gens' = [gens EXCEPT ![active[p]].data = @ \cup {w}]
    /\ acked' = acked \cup {w}
    /\ UNCHANGED <<nextGen, pointer, pendingDir, faceFile, lock, pc, local, userFace,
                   budget, fixed>>

\* The user enrolls the face anew, or removes its biometric data.
EditFace(p, face) ==
    /\ pc[p] = "serving"
    /\ gens[active[p]].face # face
    /\ gens' = [gens EXCEPT ![active[p]].face = face]
    /\ userFace' = IF face = "none" THEN "removed" ELSE "enrolled"
    /\ UNCHANGED <<nextGen, pointer, pendingDir, faceFile, lock, pc, local, acked,
                   budget, fixed>>

-----------------------------------------------------------------------------
(* The environment. *)

\* A stop, a kill or a crash: only the disk survives; the OS frees the lock.
Crash(p) ==
    /\ pc[p] \notin {"off", "failed", "refused"}
    /\ crashes < MaxCrashes
    /\ crashes' = crashes + 1
    /\ lock' = IF lock = p THEN NoProc ELSE lock
    /\ Goto(p, "off")
    /\ active' = [active EXCEPT ![p] = NoGen]
    /\ ptr' = [ptr EXCEPT ![p] = NoPointer]
    /\ cand' = [cand EXCEPT ![p] = NoGen]
    /\ snap' = [snap EXCEPT ![p] = EmptySnap]
    /\ doomed' = [doomed EXCEPT ![p] = {}]
    /\ UNCHANGED <<disk, build, observed, lastBuild, faults, fixed>>

LosePointer ==
    /\ Happens("pointer")
    /\ pointer.st = "ok"
    /\ pointer' = [pointer EXCEPT !.st = "bad"]
    /\ UNCHANGED <<gens, nextGen, pendingDir, faceFile, lock, pc, local, observed,
                   lastBuild, crashes, fixed>>

DamageGeneration(g) ==
    /\ Happens("generation")
    /\ gens[g].status = "intact"
    /\ gens' = [gens EXCEPT ![g].status = "damaged"]
    /\ UNCHANGED <<nextGen, pointer, pendingDir, faceFile, lock, pc, local, observed,
                   lastBuild, crashes, fixed>>

Select(p) ==
    SelectPointer(p) \/ SelectHealthy(p) \/ SelectFirst(p) \/ SelectRefuse(p)
        \/ SelectNone(p)

Adoption(p) ==
    Adopt(p) \/ AdoptRejected(p) \/ PublishAdoption(p) \/ AdoptMarker(p)
        \/ AdoptPointer(p)

Building(p) ==
    Create(p) \/ Migrate(p) \/ Publish(p) \/ PublishRejected(p) \/ Point(p)
        \/ Verify(p)

Committing(p) ==
    \/ Open(p) \/ MarkNothing(p) \/ Mark(p) \/ MarkFails(p) \/ MarkPointer(p)
    \/ \E g \in Gens : Prune(p, g)
    \/ PruneDone(p) \/ Finalize(p) \/ Listen(p)

\* The steps a running start takes by itself.
Proceed(p) ==
    \/ Acquire(p) \/ AcquireTimeout(p) \/ Select(p) \/ Activate(p) \/ Check(p)
    \/ Adoption(p) \/ Building(p) \/ Committing(p)

Serve(p) ==
    \/ \E w \in Writes : Write(p, w)
    \/ \E face \in {"none", "enrolled"} : EditFace(p, face)

Next ==
    \/ \E p \in Procs :
          \/ \E b \in Builds : Start(p, b)
          \/ Proceed(p)
          \/ BuildFails(p)
          \/ ArchiveFails(p)
          \/ Serve(p)
          \/ Crash(p)
    \/ LosePointer
    \/ \E g \in Gens : DamageGeneration(g)

\* The Electron main process starts the backend again whenever it is down, and
\* a start runs on by itself; users, crashes and faults owe nothing.
Fairness ==
    \A p \in Procs :
        /\ WF_vars(\E b \in Builds : Start(p, b))
        /\ WF_vars(Proceed(p))

Spec == Init /\ [][Next]_vars

FairSpec == Spec /\ Fairness

-----------------------------------------------------------------------------
(* Safety *)

\* A valid pointer never dangles: the generation CURRENT.json selects is on disk,
\* and so is the one a pending generation rolls back to, whatever was pruned,
\* rolled back or interrupted.
PointerResolves ==
    pointer.st = "ok" =>
        /\ Present(pointer.gen)
        /\ pointer.act = "pending" /\ pointer.prev # NoGen => Present(pointer.prev)

\* The steps of selecting, building, committing and pruning exclude each other.
LockHeld == \A p \in Procs : pc[p] \in LockedSteps => lock = p

\* What makes PointerResolves inductive: the generations a process under the lock
\* is about to select are on disk, and it prunes none that the pointer needs.
StepResolves(p) ==
    /\ pc[p] \in {"activate", "check", "migrate", "markPointer"}
          => Present(ptr[p].gen)
    /\ pc[p] \in {"create", "publish", "point"} /\ ptr[p].gen # NoGen
          => Present(ptr[p].gen)
    /\ pc[p] \in {"adoptMarker", "adoptPointer", "point", "verify"}
          => Present(cand[p])
    /\ pc[p] = "prune" =>
          /\ pointer.gen \notin doomed[p]
          /\ pointer.act = "healthy"

StepsResolve == \A p \in Procs : StepResolves(p)

PointerInv == LockHeld /\ StepsResolve /\ PointerResolves

\* CURRENT.json and the generations are as the backends left them, and no older
\* build was started.
Undamaged == faults \cap {"pointer", "generation", "downgrade"} = {}

\* A health marker other than an adopted legacy database's says that some
\* backend opened that generation ("Commit a pending pointer after the backend
\* successfully opens the DB").
MarkerMeansOpened ==
    \A g \in Gens : gens[g].healthy /\ gens[g].kind # "legacy-adoption" =>
                        ~gens[g].pristine

\* The legacy face import never undoes what the user did to the enrolled face
\* since, and is never lost before that, unless the imported file cannot be
\* archived or the generation that has it is damaged.
FaceAsUserLeftIt ==
    \A p \in Procs : pc[p] = "serving" /\ faults \cap {"archive", "generation", "downgrade"} = {} =>
        gens[active[p]].face =
            CASE userFace = "enrolled" -> "enrolled"
              [] userFace = "removed" -> "none"
              [] userFace = "untouched" -> IF hadFaceFile THEN "legacy" ELSE "none"

\* The generation a start of the latest build would end up serving, and what it
\* would read there: the abstract store of DurableStore.
Committed ==
    IF PointerValid(lastBuild)
    THEN IF /\ pointer.act = "pending" /\ pointer.prev # NoGen
            /\ ~gens[pointer.gen].healthy
         THEN pointer.prev ELSE pointer.gen
    ELSE IF \E g \in Gens : Newest(g, HealthyCandidates(lastBuild))
         THEN CHOOSE g \in Gens : Newest(g, HealthyCandidates(lastBuild))
         ELSE NoGen

StoredFacts ==
    IF Committed # NoGen THEN gens[Committed].data
    ELSE IF legacy # 0 THEN LegacyWrites ELSE {}

Durable == 
    INSTANCE DurableStore WITH stored <- StoredFacts, damaged <- "generation" \in faults

\* Refinement: whatever crash, migration, rollback or pruning falls between two
\* uses of the database, what a start reads changes only when a fact is stored.
StoreNeverForgets == Durable!Spec

\* Once stops and crashes are over, a store that nothing damaged is served for
\* good, unless the legacy database is of a newer build than the one started.
EventuallyServing ==
    \A p \in Procs :
        <>[](legacy <= build[p] /\ Undamaged) => <>[](pc[p] = "serving")
=============================================================================
