---------------------- MODULE DatabaseGenerationsProofs ----------------------
(***************************************************************************)
(* Proofs about DatabaseGenerations for any number of processes, builds,   *)
(* facts, generations, crashes and faults.  With one backend at a time and *)
(* no older build after a newer one, its generations implement the one set *)
(* of facts of DurableStore and keep the face as its user left it.         *)
(***************************************************************************)
EXTENDS DatabaseGenerations, TLAPS

Snapshots == [data : SUBSET Writes, face : Faces]

\* The records every step starts from are of their types.
LEMMA Types ==
    /\ Absent \in GenRecord
    /\ NoPointer \in PointerRecord
    /\ EmptySnap \in Snapshots
BY DEF Absent, GenRecord, Kinds, Faces, NoGen, Gens, NoPointer, PointerRecord,
       Pointer, EmptySnap, Snapshots

\* The initial state is well typed.
LEMMA InitType == ASSUME Init PROVE TypeOK
<1>1. gens \in [Gens -> GenRecord] /\ pointer \in PointerRecord
  BY Types DEF Init
<1>2. nextGen \in 1 .. MaxGens + 1
  BY ConstantsAssumption DEF Init
<1>3. pc \in [Procs -> LockedSteps \cup FreeSteps]
  BY DEF Init, FreeSteps
<1>4. /\ build \in [Procs -> Builds \cup {0}]
      /\ active \in [Procs -> Gens \cup {NoGen}]
      /\ cand \in [Procs -> Gens \cup {NoGen}]
      /\ doomed \in [Procs -> SUBSET Gens]
  BY DEF Init
<1>5. ptr \in [Procs -> PointerRecord] /\ snap \in [Procs -> Snapshots]
  BY Types DEF Init
<1>6. acked \in SUBSET Writes
  BY ConstantsAssumption DEF Init
<1>7. /\ pendingDir \in BOOLEAN /\ legacy \in Builds \cup {0}
      /\ faceFile \in BOOLEAN /\ hadFaceFile \in BOOLEAN
      /\ lock \in Procs \cup {NoProc}
      /\ lastBuild \in Builds \cup {0} /\ crashes \in Nat /\ faults \subseteq Faults
      /\ userFace \in {"untouched", "enrolled", "removed"}
  BY DEF Init
<1> QED
  BY <1>1, <1>2, <1>3, <1>4, <1>5, <1>6, <1>7 DEF TypeOK, Snapshots

\* Each record update of the actions keeps the type of the updated variable.
LEMMA PointerType ==
    ASSUME NEW st \in {"none", "ok", "bad"}, NEW gen \in Gens \cup {NoGen},
           NEW prev \in Gens \cup {NoGen}, NEW seq \in Int,
           NEW act \in {"pending", "healthy"}
    PROVE  Pointer(st, gen, prev, seq, act) \in PointerRecord
BY DEF Pointer, PointerRecord

\* The published generations' records: what a step may read from gens[g].
LEMMA GenType ==
    ASSUME TypeOK, NEW g \in Gens
    PROVE  /\ gens[g] \in GenRecord
           /\ gens[g].seq \in Int
           /\ gens[g].src \in Gens \cup {NoGen}
           /\ Contents(g) \in Snapshots
BY DEF TypeOK, GenRecord, Contents, Snapshots

\* ... and from a process's copy of the pointer.
LEMMA CopyType ==
    ASSUME TypeOK, NEW p \in Procs
    PROVE  /\ ptr[p] \in PointerRecord
           /\ ptr[p].gen \in Gens \cup {NoGen} /\ ptr[p].prev \in Gens \cup {NoGen}
           /\ ptr[p].seq \in Int
           /\ [ptr[p] EXCEPT !.act = "healthy"] \in PointerRecord
BY DEF TypeOK, PointerRecord

\* Setting one field of a published generation, wherever g comes from.
LEMMA GenUpdate ==
    ASSUME TypeOK, NEW g, NEW data \in SUBSET Writes, NEW face \in Faces,
           NEW status \in {"absent", "intact", "damaged"}
    PROVE  /\ [gens EXCEPT ![g].healthy = TRUE] \in [Gens -> GenRecord]
           /\ [gens EXCEPT ![g].pristine = FALSE] \in [Gens -> GenRecord]
           /\ [gens EXCEPT ![g].status = status] \in [Gens -> GenRecord]
           /\ [gens EXCEPT ![g].data = data] \in [Gens -> GenRecord]
           /\ [gens EXCEPT ![g].face = face] \in [Gens -> GenRecord]
<1>1. ASSUME NEW r \in GenRecord
      PROVE  /\ [r EXCEPT !.healthy = TRUE] \in GenRecord
             /\ [r EXCEPT !.pristine = FALSE] \in GenRecord
             /\ [r EXCEPT !.status = status] \in GenRecord
             /\ [r EXCEPT !.data = data] \in GenRecord
             /\ [r EXCEPT !.face = face] \in GenRecord
  BY DEF GenRecord
<1>2. gens \in [Gens -> GenRecord]
  BY DEF TypeOK
<1> QED
  BY <1>1, <1>2

\* Writing a pointer of the right type.
LEMMA WriteType ==
    ASSUME TypeOK, NEW p \in Procs, NEW new \in PointerRecord, WritePointer(p, new)
    PROVE  pointer' \in PointerRecord /\ ptr' \in [Procs -> PointerRecord]
BY DEF TypeOK, WritePointer

\* Starting and selecting.
LEMMA SelectType ==
    ASSUME TypeOK, NEW p \in Procs,
           \/ \E b \in Builds : Start(p, b)
           \/ Acquire(p) \/ AcquireTimeout(p)
           \/ Select(p) \/ Activate(p) \/ Check(p)
    PROVE  TypeOK'
<1> USE DEF disk, local, observed, budget, fixed, Happens
<1>1. ASSUME NEW b \in Builds, Start(p, b) PROVE TypeOK'
  BY <1>1 DEF TypeOK, Start, Goto, FreeSteps
<1>2. CASE Acquire(p)
  BY <1>2 DEF TypeOK, Acquire, Goto, LockedSteps
<1>3. CASE AcquireTimeout(p)
  BY <1>3 DEF TypeOK, AcquireTimeout, Goto, FreeSteps
<1>4. CASE SelectPointer(p)
  BY <1>4 DEF TypeOK, SelectPointer, Goto, LockedSteps
<1>5. CASE SelectHealthy(p)
  <2>1. PICK g \in Gens :
          WritePointer(p, Pointer("ok", g, gens[g].src, gens[g].seq, "healthy"))
    BY <1>5 DEF SelectHealthy
  <2>2. pointer' \in PointerRecord /\ ptr' \in [Procs -> PointerRecord]
    BY <2>1, GenType, PointerType, WriteType
  <2> QED
    BY <1>5, <2>2 DEF TypeOK, SelectHealthy, Goto, LockedSteps
<1>6. CASE SelectFirst(p)
  <2>1. PICK g \in Gens :
          \/ /\ cand' = [cand EXCEPT ![p] = g]
             /\ Goto(p, "adoptMarker")
             /\ UNCHANGED <<pointer, ptr>>
          \/ /\ WritePointer(p, Pointer("ok", g, NoGen, gens[g].seq, "pending"))
             /\ Goto(p, "activate")
             /\ UNCHANGED cand
    BY <1>6 DEF SelectFirst
  <2> DEFINE first == Pointer("ok", g, NoGen, gens[g].seq, "pending")
  <2>4. first \in PointerRecord
    BY GenType, PointerType
  <2>5. WritePointer(p, first) =>
           pointer' \in PointerRecord /\ ptr' \in [Procs -> PointerRecord]
    BY <2>4, WriteType
  <2>2. /\ pointer' \in PointerRecord /\ ptr' \in [Procs -> PointerRecord]
        /\ cand' \in [Procs -> Gens \cup {NoGen}]
    BY <2>1, <2>5 DEF TypeOK
  <2>3. pc' \in [Procs -> LockedSteps \cup FreeSteps]
    BY <2>1 DEF TypeOK, Goto, LockedSteps
  <2> QED
    BY <1>6, <2>2, <2>3 DEF TypeOK, SelectFirst
<1>7. CASE SelectRefuse(p)
  BY <1>7 DEF TypeOK, SelectRefuse, Leave, Goto, FreeSteps
<1>8. CASE SelectNone(p)
  BY <1>8, Types DEF TypeOK, SelectNone, Goto, LockedSteps
<1>9. CASE Activate(p)
  <2>1. \/ UNCHANGED <<pointer, ptr>>
        \/ WritePointer(p, [ptr[p] EXCEPT !.act = "healthy"])
        \/ /\ ptr[p].prev \in Gens
           /\ WritePointer(p, Pointer("ok", ptr[p].prev, gens[ptr[p].prev].src,
                                      ptr[p].seq - 1, "healthy"))
    BY <1>9 DEF Activate, Valid
  <2>2. pointer' \in PointerRecord /\ ptr' \in [Procs -> PointerRecord]
    <3>1. CASE UNCHANGED <<pointer, ptr>>
      BY <3>1 DEF TypeOK
    <3>2. CASE WritePointer(p, [ptr[p] EXCEPT !.act = "healthy"])
      BY <3>2, CopyType, WriteType
    <3>3. CASE /\ ptr[p].prev \in Gens
               /\ WritePointer(p, Pointer("ok", ptr[p].prev, gens[ptr[p].prev].src,
                                          ptr[p].seq - 1, "healthy"))
      <4>1. Pointer("ok", ptr[p].prev, gens[ptr[p].prev].src, ptr[p].seq - 1,
                    "healthy") \in PointerRecord
        <5>1. ptr[p].prev \in Gens /\ gens[ptr[p].prev].src \in Gens \cup {NoGen}
          BY <3>3, GenType
        <5>2. ptr[p].seq - 1 \in Int
          <6>1. ptr[p].seq \in Int
            BY CopyType
          <6> QED
            BY <6>1
        <5> QED
          BY <5>1, <5>2, PointerType
      <4> QED
        BY <4>1, <3>3, WriteType
    <3> QED
      BY <2>1, <3>1, <3>2, <3>3
  <2>3. /\ pc' \in [Procs -> LockedSteps \cup FreeSteps]
        /\ lock' \in Procs \cup {NoProc}
    BY <1>9 DEF TypeOK, Activate, Leave, Goto, LockedSteps, FreeSteps
  <2> QED
    BY <1>9, <2>2, <2>3 DEF TypeOK, Activate
<1>10. CASE Check(p)
  <2>1. active' \in [Procs -> Gens \cup {NoGen}]
    BY <1>10, CopyType DEF TypeOK, Check
  <2>2. /\ pc' \in [Procs -> LockedSteps \cup FreeSteps]
        /\ lock' \in Procs \cup {NoProc}
    BY <1>10 DEF TypeOK, Check, Leave, Goto, LockedSteps, FreeSteps
  <2> QED
    BY <1>10, <2>1, <2>2 DEF TypeOK, Check
<1> QED
  BY <1>1, <1>2, <1>3, <1>4, <1>5, <1>6, <1>7, <1>8, <1>9, <1>10 DEF Select

\* Adopting, building and publishing.
LEMMA BuildType ==
    ASSUME TypeOK, StepsResolve, NEW p \in Procs,
           Adoption(p) \/ Building(p) \/ BuildFails(p)
    PROVE  TypeOK'
<1> USE DEF disk, local, observed, budget, fixed, Happens
<1>1. ASSUME NEW from, NEW to \in LockedSteps, NEW contents \in Snapshots,
             Prepare(p, from, to, contents)
      PROVE  TypeOK'
  BY <1>1 DEF TypeOK, Prepare, Goto, Snapshots
<1>2. CASE Adopt(p)
  <2>1. [data |-> LegacyWrites, face |-> "none"] \in Snapshots
    BY ConstantsAssumption DEF Snapshots, Faces
  <2> QED
    BY <1>1, <1>2, <2>1 DEF Adopt, LockedSteps, PublishSteps
<1>3. CASE Create(p)
  BY <1>1, <1>3, Types DEF Create, LockedSteps, PublishSteps
<1>4. CASE Migrate(p)
  <2>1. ptr[p].gen \in Gens
    BY <1>4 DEF StepsResolve, StepResolves, Migrate, Prepare, At, Present
  <2>2. Contents(ptr[p].gen) \in Snapshots
    BY <2>1, GenType
  <2> QED
    BY <1>1, <1>4, <2>2 DEF Migrate, LockedSteps, PublishSteps
<1>5. CASE AdoptRejected(p)
  BY <1>5 DEF TypeOK, AdoptRejected, Leave, Goto, FreeSteps
<1>6. ASSUME NEW record \in GenRecord, PublishAs(p, record)
      PROVE  /\ gens' \in [Gens -> GenRecord] /\ nextGen' \in 1 .. MaxGens + 1
             /\ cand' \in [Procs -> Gens \cup {NoGen}] /\ pendingDir' \in BOOLEAN
  <2>1. nextGen \in Gens /\ nextGen + 1 \in 1 .. MaxGens + 1
    BY <1>6, ConstantsAssumption DEF TypeOK, PublishAs, Gens
  <2> QED
    BY <1>6, <2>1 DEF TypeOK, PublishAs
<1>7. ASSUME NEW kind \in Kinds, NEW seq \in Int, NEW rev \in Builds \cup {0},
             NEW src \in Gens \cup {NoGen}
      PROVE  Candidate(p, kind, seq, rev, src) \in GenRecord
  BY <1>7, ConstantsAssumption DEF TypeOK, Candidate, GenRecord
<1>8. CASE PublishAdoption(p)
  <2>1. Candidate(p, "legacy-adoption", 1, legacy, NoGen) \in GenRecord
    BY <1>7 DEF TypeOK, Kinds
  <2> QED
    BY <1>6, <1>8, <2>1 DEF TypeOK, PublishAdoption, Goto, LockedSteps
<1>9. CASE Publish(p)
  <2>1. /\ Candidate(p, "new-database", 1, build[p], NoGen) \in GenRecord
        /\ Candidate(p, "schema-migration", ptr[p].seq + 1, build[p], ptr[p].gen)
              \in GenRecord
    <3>1. ptr[p].seq \in Int /\ ptr[p].gen \in Gens \cup {NoGen}
      BY CopyType
    <3>2. ptr[p].seq + 1 \in Int
      BY <3>1
    <3>3. build[p] \in Builds \cup {0}
      BY DEF TypeOK
    <3>4. /\ "new-database" \in Kinds /\ "schema-migration" \in Kinds
          /\ NoGen \in Gens \cup {NoGen} /\ 1 \in Int
      BY DEF Kinds
    <3>5. Candidate(p, "new-database", 1, build[p], NoGen) \in GenRecord
      BY <1>7, <3>3, <3>4
    <3>6. Candidate(p, "schema-migration", ptr[p].seq + 1, build[p], ptr[p].gen)
             \in GenRecord
      BY <1>7, <3>1, <3>2, <3>3, <3>4
    <3> QED
      BY <3>5, <3>6
  <2> QED
    BY <1>6, <1>9, <2>1 DEF TypeOK, Publish, Goto, LockedSteps
<1>10. ASSUME RejectCandidate(p), faults' \subseteq Faults PROVE TypeOK'
  BY <1>10 DEF TypeOK, RejectCandidate, Leave, Goto, FreeSteps
<1>11. CASE PublishRejected(p)
  BY <1>10, <1>11 DEF TypeOK, PublishRejected
<1>12. CASE BuildFails(p)
  BY <1>10, <1>12 DEF TypeOK, BuildFails
<1>13. CASE AdoptMarker(p)
  <2>1. gens' \in [Gens -> GenRecord]
    BY <1>13, GenUpdate DEF AdoptMarker, Faces
  <2> QED
    BY <1>13, <2>1 DEF TypeOK, AdoptMarker, Goto, LockedSteps
<1>14. CASE AdoptPointer(p)
  <2>1. cand[p] \in Gens
    BY <1>14 DEF StepsResolve, StepResolves, AdoptPointer, At, Present
  <2>2. Pointer("ok", cand[p], NoGen, gens[cand[p]].seq, "healthy") \in PointerRecord
    BY <2>1, GenType, PointerType
  <2>3. pointer' \in PointerRecord /\ ptr' \in [Procs -> PointerRecord]
    BY <1>14, <2>2, WriteType DEF AdoptPointer
  <2> QED
    BY <1>14, <2>3 DEF TypeOK, AdoptPointer, Goto, LockedSteps
<1>15. CASE Point(p)
  <2>1. cand[p] \in Gens
    BY <1>15 DEF StepsResolve, StepResolves, Point, At, Present
  <2>2. ptr[p].gen \in Gens \cup {NoGen} /\ gens[cand[p]].seq \in Int
    BY <2>1, CopyType, GenType
  <2>3. pointer' = Pointer("ok", cand[p], ptr[p].gen, gens[cand[p]].seq, "pending")
    BY <1>15 DEF Point
  <2>4. pointer' \in PointerRecord
    BY <2>1, <2>2, <2>3, PointerType
  <2> QED
    BY <1>15, <2>4 DEF TypeOK, Point, Goto, LockedSteps
<1>16. CASE Verify(p)
  BY <1>16 DEF TypeOK, Verify, Leave, Goto, FreeSteps
<1> QED
  BY <1>2, <1>3, <1>4, <1>5, <1>8, <1>9, <1>11, <1>12, <1>13, <1>14, <1>15, <1>16
     DEF Adoption, Building

\* Opening, committing, pruning, serving.
LEMMA CommitType ==
    ASSUME TypeOK, StepsResolve, NEW p \in Procs,
           Committing(p) \/ Serve(p) \/ ArchiveFails(p)
    PROVE  TypeOK'
<1> USE DEF disk, local, observed, budget, fixed, Happens
<1>1. CASE Open(p)
  <2>2. ASSUME NEW r \in GenRecord
        PROVE  Opened(r) \in GenRecord
    BY DEF GenRecord, Faces, Opened
  <2>3. gens \in [Gens -> GenRecord]
    BY DEF TypeOK
  <2>1. gens' \in [Gens -> GenRecord]
    BY <1>1, <2>2, <2>3 DEF Open
  <2> QED
    BY <1>1, <2>1 DEF TypeOK, Open, Goto, FreeSteps
<1>2. CASE MarkNothing(p)
  BY <1>2 DEF TypeOK, MarkNothing, Leave, Goto, FreeSteps
<1>3. CASE Mark(p)
  <2>1. gens' \in [Gens -> GenRecord]
    BY <1>3, GenUpdate DEF Mark, Faces
  <2> QED
    BY <1>3, <2>1 DEF TypeOK, Mark, Goto, LockedSteps
<1>4. CASE MarkFails(p)
  BY <1>4 DEF TypeOK, MarkFails, Leave, Goto, FreeSteps
<1>5. CASE MarkPointer(p)
  <2>1. pointer' \in PointerRecord /\ ptr' \in [Procs -> PointerRecord]
    BY <1>5, CopyType, WriteType DEF MarkPointer
  <2>2. doomed' \in [Procs -> SUBSET Gens]
    BY <1>5 DEF TypeOK, MarkPointer, Published
  <2> QED
    BY <1>5, <2>1, <2>2 DEF TypeOK, MarkPointer, Goto, LockedSteps
<1>6. ASSUME NEW g \in Gens, Prune(p, g) PROVE TypeOK'
  <2>1. [gens EXCEPT ![g].status = "damaged"] \in [Gens -> GenRecord]
    BY GenUpdate DEF Faces
  <2>2. [gens EXCEPT ![g] = Absent] \in [Gens -> GenRecord]
    BY Types DEF TypeOK
  <2>4. gens' \in [Gens -> GenRecord]
    BY <1>6, <2>1, <2>2 DEF Prune
  <2>5. doomed' \in [Procs -> SUBSET Gens]
    BY <1>6 DEF TypeOK, Prune
  <2>3. gens' \in [Gens -> GenRecord] /\ doomed' \in [Procs -> SUBSET Gens]
    BY <2>4, <2>5
  <2> QED
    BY <1>6, <2>3 DEF TypeOK, Prune
<1>7. CASE PruneDone(p)
  BY <1>7 DEF TypeOK, PruneDone, Leave, Goto, FreeSteps
<1>8. CASE Finalize(p)
  BY <1>8 DEF TypeOK, Finalize, Goto, FreeSteps
<1>9. CASE Listen(p)
  BY <1>9 DEF TypeOK, Listen, Goto, FreeSteps
<1>10. CASE ArchiveFails(p)
  BY <1>10 DEF TypeOK, ArchiveFails, Goto, FreeSteps
<1>11. ASSUME NEW w \in Writes, Write(p, w) PROVE TypeOK'
  <2>2. gens[active[p]].data \cup {w} \in SUBSET Writes
           \/ active[p] \notin Gens
    BY <1>11 DEF TypeOK, GenRecord
  <2>3. gens' = [gens EXCEPT ![active[p]].data = gens[active[p]].data \cup {w}]
    BY <1>11 DEF Write, TypeOK
  <2>4. gens \in [Gens -> GenRecord]
    BY DEF TypeOK
  <2>1. gens' \in [Gens -> GenRecord]
    <3>1. CASE active[p] \notin Gens
      BY <2>3, <2>4, <3>1
    <3>2. CASE gens[active[p]].data \cup {w} \in SUBSET Writes
      BY <2>3, <3>2, GenUpdate DEF Faces
    <3> QED
      BY <2>2, <3>1, <3>2
  <2> QED
    BY <1>11, <2>1 DEF TypeOK, Write
<1>12. ASSUME NEW face \in {"none", "enrolled"}, EditFace(p, face) PROVE TypeOK'
  <2>1. gens' \in [Gens -> GenRecord]
    BY <1>12, GenUpdate DEF EditFace, Faces
  <2> QED
    BY <1>12, <2>1 DEF TypeOK, EditFace
<1> QED
  BY <1>1, <1>2, <1>3, <1>4, <1>5, <1>6, <1>7, <1>8, <1>9, <1>10, <1>11, <1>12
     DEF Committing, Serve

\* Crashes and faults.
LEMMA FaultType ==
    ASSUME TypeOK,
           \/ \E p \in Procs : Crash(p)
           \/ LosePointer
           \/ \E g \in Gens : DamageGeneration(g)
    PROVE  TypeOK'
<1> USE DEF disk, local, observed, budget, fixed, Happens
<1>1. ASSUME NEW p \in Procs, Crash(p) PROVE TypeOK'
  BY <1>1, Types DEF TypeOK, Crash, Goto, FreeSteps, Snapshots
<1>2. CASE LosePointer
  <2>1. [pointer EXCEPT !.st = "bad"] \in PointerRecord
    BY DEF TypeOK, PointerRecord
  <2> QED
    BY <1>2, <2>1 DEF TypeOK, LosePointer
<1>3. ASSUME NEW g \in Gens, DamageGeneration(g) PROVE TypeOK'
  <2>1. gens' \in [Gens -> GenRecord]
    BY <1>3, GenUpdate DEF DamageGeneration, Faces
  <2> QED
    BY <1>3, <2>1 DEF TypeOK, DamageGeneration
<1> QED
  BY <1>1, <1>2, <1>3

\* The only pruned generations are lost.
Kept == \A g : Present(g) => Present(g)'

\* The step touches no other process's control and copies.
Alone(p) ==
    \A q \in Procs \ {p} :
        pc'[q] = pc[q] /\ ptr'[q] = ptr[q] /\ cand'[q] = cand[q] /\ doomed'[q] = doomed[q]

\* Two processes are never both inside the lock.
LEMMA LockExcludes ==
    ASSUME LockHeld, NEW p \in Procs, NEW q \in Procs, p # q,
           pc[p] \in LockedSteps
    PROVE  pc[q] \notin LockedSteps
BY ConstantsAssumption DEF LockHeld

\* A step of one process, which writes the pointer only under the lock, keeps what
\* the others rely on.
LEMMA Frame ==
    ASSUME TypeOK, PointerInv, NEW p \in Procs, Kept, Alone(p),
           pointer' = pointer \/ pc[p] \in LockedSteps,
           StepResolves(p)'
    PROVE  StepsResolve'
<1> SUFFICES ASSUME NEW q \in Procs, q # p PROVE StepResolves(q)'
  BY DEF StepsResolve
<1>1. pc'[q] = pc[q] /\ ptr'[q] = ptr[q] /\ cand'[q] = cand[q] /\ doomed'[q] = doomed[q]
  BY DEF Alone
<1>2. StepResolves(q)
  BY DEF PointerInv, StepsResolve
<1>3. pc[q] = "prune" => pointer' = pointer
  BY LockExcludes DEF PointerInv, LockedSteps
<1>4. \A g : Present(g) => Present(g)'
  BY DEF Kept
<1>5. /\ pc[q] \in {"activate", "check", "migrate", "markPointer"}
            => Present(ptr[q].gen)'
      /\ pc[q] \in {"create", "publish", "point"} /\ ptr[q].gen # NoGen
            => Present(ptr[q].gen)'
      /\ pc[q] \in {"adoptMarker", "adoptPointer", "point", "verify"}
            => Present(cand[q])'
  BY <1>1, <1>2, <1>4 DEF StepResolves
<1> QED
  BY <1>1, <1>2, <1>3, <1>5 DEF StepResolves

\* A process enters LockedSteps by taking the free lock, moves inside them while
\* it holds the lock, and gives the lock back as it leaves.
LEMMA LockMoves ==
    ASSUME TypeOK, LockHeld, NEW p \in Procs, NEW step, Goto(p, step),
           \/ lock = NoProc /\ lock' = p
           \/ pc[p] \in LockedSteps /\ lock' = lock
           \/ pc[p] \in LockedSteps /\ step \notin LockedSteps /\ lock' = NoProc
           \/ step \notin LockedSteps /\ lock' = lock
           \/ step \notin LockedSteps /\ lock' = IF lock = p THEN NoProc ELSE lock
    PROVE  LockHeld'
<1> SUFFICES ASSUME NEW q \in Procs, pc'[q] \in LockedSteps PROVE lock' = q
  BY DEF LockHeld
<1>1. pc'[q] = IF q = p THEN step ELSE pc[q]
  BY DEF TypeOK, Goto
<1>2. pc[q] \in LockedSteps => lock = q
  BY DEF LockHeld
<1>3. pc[p] \in LockedSteps => lock = p
  BY DEF LockHeld
<1>4. lock = NoProc => pc[q] \notin LockedSteps
  BY <1>2, ConstantsAssumption
<1> QED
  BY <1>1, <1>2, <1>3, <1>4

LEMMA LockStep == ASSUME TypeOK, LockHeld, Next PROVE LockHeld'
<1> USE DEF disk, local, observed, budget, fixed, Happens, At, Leave, Prepare
<1>1. ASSUME NEW p \in Procs, NEW b \in Builds, Start(p, b) PROVE LockHeld'
  BY <1>1, LockMoves DEF Start, LockedSteps, PublishSteps
<1>2. ASSUME NEW p \in Procs, Acquire(p) \/ AcquireTimeout(p) PROVE LockHeld'
  BY <1>2, LockMoves DEF Acquire, AcquireTimeout, LockedSteps, PublishSteps
<1>3. ASSUME NEW p \in Procs, Select(p) PROVE LockHeld'
  <2>1. CASE SelectFirst(p)
    <3>1. PICK step : Goto(p, step)
      BY <2>1 DEF SelectFirst
    <3> QED
      BY <2>1, <3>1, LockMoves DEF SelectFirst, LockedSteps
  <2> QED
    BY <1>3, <2>1, LockMoves
       DEF Select, SelectPointer, SelectHealthy, SelectRefuse, SelectNone,
           LockedSteps, PublishSteps
<1>4. ASSUME NEW p \in Procs, Activate(p) \/ Check(p) PROVE LockHeld'
  BY <1>4, LockMoves DEF Activate, Check, LockedSteps, PublishSteps
<1>5. ASSUME NEW p \in Procs, Adoption(p) PROVE LockHeld'
  BY <1>5, LockMoves
     DEF Adoption, Adopt, AdoptRejected, PublishAdoption, AdoptMarker, AdoptPointer,
         LockedSteps, PublishSteps
<1>6. ASSUME NEW p \in Procs, Building(p) \/ BuildFails(p) PROVE LockHeld'
  BY <1>6, LockMoves
     DEF Building, Create, Migrate, Publish, PublishRejected, RejectCandidate,
         BuildFails, Point, Verify, LockedSteps, PublishSteps
<1>7. ASSUME NEW p \in Procs, NEW g \in Gens, Prune(p, g) PROVE LockHeld'
  BY <1>7 DEF Prune, LockHeld
<1>8. ASSUME NEW p \in Procs,
             \/ Open(p) \/ MarkNothing(p) \/ Mark(p) \/ MarkFails(p) \/ MarkPointer(p)
             \/ PruneDone(p) \/ Finalize(p) \/ ArchiveFails(p)
      PROVE  LockHeld'
  BY <1>8, LockMoves
     DEF Open, MarkNothing, Mark, MarkFails, MarkPointer, PruneDone, Finalize,
         ArchiveFails, LockedSteps, PublishSteps
<1>9. ASSUME NEW p \in Procs, Listen(p) PROVE LockHeld'
  <2>1. PICK step \in {"failed", "serving"} : Goto(p, step)
    BY <1>9 DEF Listen
  <2> QED
    BY <1>9, <2>1, LockMoves DEF Listen, LockedSteps, PublishSteps
<1>10. ASSUME NEW p \in Procs, Serve(p) PROVE LockHeld'
  BY <1>10 DEF Serve, Write, EditFace, LockHeld
<1>11. ASSUME NEW p \in Procs, Crash(p) PROVE LockHeld'
  BY <1>11, LockMoves DEF Crash, LockedSteps, PublishSteps
<1>12. CASE LosePointer \/ \E g \in Gens : DamageGeneration(g)
  BY <1>12 DEF LosePointer, DamageGeneration, LockHeld
<1> QED
  BY <1>1, <1>2, <1>3, <1>4, <1>5, <1>6, <1>7, <1>8, <1>9, <1>10, <1>11, <1>12
     DEF Next, Proceed, Committing

\* The pointer stays resolvable over a step that neither writes it nor removes.
LEMMA PointerKept ==
    ASSUME PointerResolves, Kept, pointer' = pointer
    PROVE  PointerResolves'
BY DEF PointerResolves, Kept

\* A step that changes no generation's status keeps what is present.
LEMMA StatusKept ==
    ASSUME \A g \in Gens : gens'[g].status = gens[g].status
    PROVE  Kept
BY DEF Kept, Present

\* Writing fields of a generation other than its status.
LEMMA SameStatus ==
    ASSUME TypeOK, NEW g, NEW data, NEW face,
           \/ gens' = gens
           \/ gens' = [gens EXCEPT ![g].healthy = TRUE]
           \/ gens' = [gens EXCEPT ![g].data = data]
           \/ gens' = [gens EXCEPT ![g].face = face]
           \/ gens' = [gens EXCEPT ![g] = Opened(gens[g])]
    PROVE  Kept
<1>1. ASSUME NEW h \in Gens PROVE gens'[h].status = gens[h].status
  <2>1. gens \in [Gens -> GenRecord] /\ gens[h] \in GenRecord
    BY DEF TypeOK
  <2>2. Opened(gens[h]).status = gens[h].status
    BY <2>1 DEF GenRecord, Opened
  <2> QED
    BY <2>1, <2>2 DEF GenRecord
<1> QED
  BY <1>1, StatusKept

\* The steps that only read the disk, or write one that no pointer depends on.
LEMMA QuietStep ==
    ASSUME TypeOK, PointerInv, NEW p \in Procs, Kept, Alone(p), pointer' = pointer,
           StepResolves(p)'
    PROVE  StepsResolve' /\ PointerResolves'
BY Frame, PointerKept DEF PointerInv

\* Starting and selecting.
LEMMA SelectResolves ==
    ASSUME TypeOK, PointerInv, NEW p \in Procs,
           \/ \E b \in Builds : Start(p, b)
           \/ Acquire(p) \/ AcquireTimeout(p)
           \/ Select(p) \/ Activate(p) \/ Check(p)
    PROVE  StepsResolve' /\ PointerResolves'
<1> USE DEF disk, local, At, Leave, Goto
<1>0. StepResolves(p) /\ PointerResolves
  BY DEF PointerInv, StepsResolve
<1>k. gens' = gens => Kept
  BY SameStatus
<1>1. ASSUME NEW b \in Builds, Start(p, b) PROVE StepsResolve' /\ PointerResolves'
  <2>1. Alone(p) /\ StepResolves(p)'
    BY <1>1 DEF Start, Alone, StepResolves, TypeOK
  <2> QED
    BY <1>1, <1>k, <2>1, QuietStep DEF Start
<1>2. CASE Acquire(p) \/ AcquireTimeout(p)
  <2>1. Alone(p) /\ StepResolves(p)'
    BY <1>2 DEF Acquire, AcquireTimeout, Alone, StepResolves, TypeOK
  <2> QED
    BY <1>2, <1>k, <2>1, QuietStep DEF Acquire, AcquireTimeout
<1>3. CASE SelectPointer(p)
  <2>1. Present(pointer.gen)
    BY <1>3 DEF SelectPointer, PointerValid, Valid, Present
  <2>2. Alone(p)
    BY <1>3 DEF SelectPointer, Alone, TypeOK
  <2>3. StepResolves(p)'
    BY <1>3, <2>1 DEF SelectPointer, StepResolves, TypeOK, Present
  <2> QED
    BY <1>3, <1>k, <2>2, <2>3, QuietStep DEF SelectPointer
<1>4. CASE SelectHealthy(p)
  <2>1. PICK g \in Gens :
          /\ Newest(g, HealthyCandidates(build[p]))
          /\ WritePointer(p, Pointer("ok", g, gens[g].src, gens[g].seq, "healthy"))
    BY <1>4 DEF SelectHealthy
  <2>2. Present(g)
    BY <2>1 DEF Newest, HealthyCandidates, Valid, Present
  <2>3. Alone(p)
    BY <1>4, <2>1 DEF SelectHealthy, WritePointer, Alone, TypeOK
  <2>4. ptr'[p].gen = g /\ pointer'.gen = g /\ pointer'.act = "healthy"
    BY <2>1 DEF WritePointer, Pointer, TypeOK
  <2>5. gens' = gens /\ pc'[p] = "activate"
    BY <1>4 DEF SelectHealthy, TypeOK
  <2>6. StepResolves(p)' /\ PointerResolves'
    BY <2>2, <2>4, <2>5 DEF StepResolves, PointerResolves, Present
  <2> QED
    BY <1>4, <1>k, <2>3, <2>5, <2>6, Frame DEF SelectHealthy, LockedSteps
<1>5. CASE SelectFirst(p)
  <2>1. PICK g \in Gens :
          /\ Newest(g, FirstCandidates(build[p]))
          /\ \/ /\ cand' = [cand EXCEPT ![p] = g]
                /\ pc' = [pc EXCEPT ![p] = "adoptMarker"]
                /\ UNCHANGED <<pointer, ptr>>
             \/ /\ WritePointer(p, Pointer("ok", g, NoGen, gens[g].seq, "pending"))
                /\ pc' = [pc EXCEPT ![p] = "activate"]
                /\ UNCHANGED cand
    BY <1>5 DEF SelectFirst
  <2>2. Present(g)
    BY <2>1 DEF Newest, FirstCandidates, Valid, Present
  <2>3. Alone(p)
    BY <1>5, <2>1 DEF SelectFirst, WritePointer, Alone, TypeOK
  <2>4. gens' = gens /\ Kept
    BY <1>5, <1>k DEF SelectFirst
  <2>5. StepResolves(p)'
    BY <2>1, <2>2, <2>4 DEF WritePointer, Pointer, StepResolves, Present, TypeOK
  <2>6. PointerResolves'
    <3>1. CASE pointer' = pointer
      BY <3>1, <2>4, <1>0, PointerKept
    <3>2. CASE WritePointer(p, Pointer("ok", g, NoGen, gens[g].seq, "pending"))
      BY <3>2, <2>2, <2>4 DEF WritePointer, Pointer, PointerResolves, Present
    <3> QED
      BY <2>1, <3>1, <3>2
  <2> QED
    BY <1>5, <2>3, <2>4, <2>5, <2>6, Frame DEF SelectFirst, LockedSteps
<1>6. CASE SelectRefuse(p) \/ SelectNone(p)
  <2>1. Alone(p)
    BY <1>6 DEF SelectRefuse, SelectNone, Alone, TypeOK
  <2>2. StepResolves(p)'
    BY <1>6 DEF SelectRefuse, SelectNone, StepResolves, TypeOK, NoPointer, Pointer
  <2> QED
    BY <1>6, <1>k, <2>1, <2>2, QuietStep DEF SelectRefuse, SelectNone
<1>7. CASE Activate(p)
  <2>1. Present(ptr[p].gen) /\ pc[p] = "activate"
    BY <1>0, <1>7 DEF Activate, StepResolves
  <2>2. /\ gens' = gens /\ Alone(p) /\ Kept
        /\ pc'[p] \in {"check", "failed"}
    BY <1>7, <1>k DEF Activate, Alone, WritePointer, TypeOK
  <2>3. \/ UNCHANGED <<pointer, ptr>>
        \/ WritePointer(p, [ptr[p] EXCEPT !.act = "healthy"])
        \/ /\ Present(ptr[p].prev)
           /\ WritePointer(p, Pointer("ok", ptr[p].prev, gens[ptr[p].prev].src,
                                      ptr[p].seq - 1, "healthy"))
    BY <1>7 DEF Activate, Valid, Present
  <2>4. StepResolves(p)' /\ PointerResolves'
    <3>1. CASE UNCHANGED <<pointer, ptr>>
      BY <3>1, <2>1, <2>2, <1>0 DEF StepResolves, PointerResolves, Present
    <3>2. CASE WritePointer(p, [ptr[p] EXCEPT !.act = "healthy"])
      <4>1. pointer'.gen = ptr[p].gen /\ pointer'.act = "healthy"
        BY <3>2, CopyType DEF WritePointer, PointerRecord
      <4>2. ptr'[p] = pointer'
        BY <3>2 DEF WritePointer, TypeOK
      <4> QED
        BY <4>1, <4>2, <2>1, <2>2 DEF StepResolves, PointerResolves, Present
    <3>3. CASE /\ Present(ptr[p].prev)
               /\ WritePointer(p, Pointer("ok", ptr[p].prev, gens[ptr[p].prev].src,
                                          ptr[p].seq - 1, "healthy"))
      <4>1. pointer'.gen = ptr[p].prev /\ pointer'.act = "healthy"
        BY <3>3 DEF WritePointer, Pointer
      <4>2. ptr'[p] = pointer'
        BY <3>3 DEF WritePointer, TypeOK
      <4> QED
        BY <4>1, <4>2, <3>3, <2>2 DEF StepResolves, PointerResolves, Present
    <3> QED
      BY <2>3, <3>1, <3>2, <3>3
  <2> QED
    BY <2>1, <2>2, <2>4, Frame DEF LockedSteps
<1>8. CASE Check(p)
  <2>1. Alone(p) /\ StepResolves(p)'
    BY <1>0, <1>8 DEF Check, Alone, StepResolves, TypeOK, Present
  <2> QED
    BY <1>8, <1>k, <2>1, QuietStep DEF Check
<1> QED
  BY <1>1, <1>2, <1>3, <1>4, <1>5, <1>6, <1>7, <1>8 DEF Select

\* Adopting, building and publishing: what they select is what they published.
LEMMA BuildResolves ==
    ASSUME TypeOK, PointerInv, NEW p \in Procs,
           Adoption(p) \/ Building(p) \/ BuildFails(p)
    PROVE  StepsResolve' /\ PointerResolves'
<1> USE DEF disk, local, At, Leave, Goto
<1>0. StepResolves(p) /\ PointerResolves
  BY DEF PointerInv, StepsResolve
<1>k. gens' = gens => Kept
  BY SameStatus
<1>1. ASSUME NEW from, NEW to \in {"adoptPublish", "publish"}, NEW contents,
             Prepare(p, from, to, contents),
             to = "publish" /\ ptr[p].gen # NoGen => Present(ptr[p].gen)
      PROVE  StepsResolve' /\ PointerResolves'
  <2>1. Alone(p) /\ StepResolves(p)'
    BY <1>1 DEF Prepare, Alone, StepResolves, Present, TypeOK
  <2> QED
    BY <1>1, <1>k, <2>1, QuietStep DEF Prepare
<1>2. CASE Adopt(p)
  BY <1>1, <1>2 DEF Adopt
<1>3. CASE Create(p)
  BY <1>0, <1>1, <1>3 DEF Create, Prepare, StepResolves
<1>4. CASE Migrate(p)
  BY <1>0, <1>1, <1>4 DEF Migrate, Prepare, StepResolves
<1>5. CASE AdoptRejected(p) \/ PublishRejected(p) \/ BuildFails(p)
  <2>1. Alone(p) /\ StepResolves(p)'
    BY <1>5 DEF AdoptRejected, PublishRejected, BuildFails, RejectCandidate, Alone,
                StepResolves, TypeOK
  <2> QED
    BY <1>5, <1>k, <2>1, QuietStep
       DEF AdoptRejected, PublishRejected, BuildFails, RejectCandidate
<1>6. ASSUME NEW record, record.status = "intact", PublishAs(p, record)
      PROVE  Kept /\ Present(cand[p])'
  BY <1>6 DEF PublishAs, Kept, Present, TypeOK
<1>7. CASE PublishAdoption(p)
  <2>1. Kept /\ Present(cand[p])'
    BY <1>6, <1>7 DEF PublishAdoption, Candidate
  <2>2. Alone(p) /\ StepResolves(p)'
    BY <1>7, <2>1 DEF PublishAdoption, PublishAs, Alone, StepResolves, TypeOK
  <2> QED
    BY <1>7, <2>1, <2>2, QuietStep DEF PublishAdoption
<1>8. CASE Publish(p)
  <2>1. Kept /\ Present(cand[p])'
    BY <1>6, <1>8 DEF Publish, Candidate
  <2>2. ptr'[p] = ptr[p] /\ (ptr[p].gen # NoGen => Present(ptr[p].gen)')
    BY <1>0, <1>8, <2>1 DEF Publish, StepResolves, Kept
  <2>3. Alone(p) /\ StepResolves(p)'
    BY <1>8, <2>1, <2>2 DEF Publish, PublishAs, Alone, StepResolves, TypeOK
  <2> QED
    BY <1>8, <2>1, <2>3, QuietStep DEF Publish
<1>9. CASE AdoptMarker(p)
  <2>1. Kept
    BY <1>9, SameStatus DEF AdoptMarker
  <2>2. Present(cand[p])' /\ cand' = cand
    BY <1>0, <1>9, <2>1 DEF AdoptMarker, StepResolves, Kept
  <2>3. Alone(p) /\ StepResolves(p)'
    BY <1>9, <2>2 DEF AdoptMarker, Alone, StepResolves, TypeOK
  <2> QED
    BY <1>9, <2>1, <2>3, QuietStep DEF AdoptMarker
<1>10. CASE AdoptPointer(p)
  <2>1. Present(cand[p])
    BY <1>0, <1>10 DEF AdoptPointer, StepResolves
  <2>2. gens' = gens /\ Kept /\ Alone(p) /\ pc'[p] = "check"
    BY <1>10, <1>k DEF AdoptPointer, WritePointer, Alone, TypeOK
  <2>3. pointer'.gen = cand[p] /\ pointer'.act = "healthy" /\ ptr'[p] = pointer'
    BY <1>10 DEF AdoptPointer, WritePointer, Pointer, TypeOK
  <2>4. StepResolves(p)' /\ PointerResolves'
    BY <2>1, <2>2, <2>3 DEF StepResolves, PointerResolves, Present
  <2> QED
    BY <1>10, <2>2, <2>4, Frame DEF AdoptPointer, LockedSteps
<1>11. CASE Point(p)
  <2>1. Present(cand[p]) /\ (ptr[p].gen # NoGen => Present(ptr[p].gen))
    BY <1>0, <1>11 DEF Point, StepResolves
  <2>2. gens' = gens /\ cand' = cand /\ Kept /\ Alone(p) /\ pc'[p] = "verify"
    BY <1>11, <1>k DEF Point, Alone, TypeOK
  <2>3. pointer'.gen = cand[p] /\ pointer'.prev = ptr[p].gen
    BY <1>11 DEF Point, Pointer
  <2>4. StepResolves(p)' /\ PointerResolves'
    BY <2>1, <2>2, <2>3 DEF StepResolves, PointerResolves, Present
  <2> QED
    BY <1>11, <2>2, <2>4, Frame DEF Point, LockedSteps
<1>12. CASE Verify(p)
  <2>1. Alone(p) /\ StepResolves(p)'
    BY <1>12 DEF Verify, Alone, StepResolves, TypeOK
  <2> QED
    BY <1>12, <1>k, <2>1, QuietStep DEF Verify
<1> QED
  BY <1>2, <1>3, <1>4, <1>5, <1>7, <1>8, <1>9, <1>10, <1>11, <1>12
     DEF Adoption, Building

\* Opening, committing, pruning and serving.
LEMMA CommitResolves ==
    ASSUME TypeOK, PointerInv, NEW p \in Procs,
           Committing(p) \/ Serve(p) \/ ArchiveFails(p)
    PROVE  StepsResolve' /\ PointerResolves'
<1> USE DEF disk, local, At, Leave, Goto
<1>0. StepResolves(p) /\ PointerResolves
  BY DEF PointerInv, StepsResolve
<1>k. gens' = gens => Kept
  BY SameStatus
<1>1. CASE Open(p)
  <2>1. Kept
    BY <1>1, SameStatus DEF Open
  <2>2. Alone(p) /\ StepResolves(p)'
    BY <1>1 DEF Open, Alone, StepResolves, TypeOK
  <2> QED
    BY <1>1, <2>1, <2>2, QuietStep DEF Open
<1>2. CASE MarkNothing(p) \/ MarkFails(p) \/ PruneDone(p)
  <2>1. Alone(p) /\ StepResolves(p)'
    BY <1>2 DEF MarkNothing, MarkFails, PruneDone, Alone, StepResolves, TypeOK
  <2> QED
    BY <1>2, <1>k, <2>1, QuietStep DEF MarkNothing, MarkFails, PruneDone
<1>3. CASE Finalize(p) \/ ArchiveFails(p) \/ Listen(p)
  <2>1. Alone(p) /\ StepResolves(p)'
    BY <1>3 DEF Finalize, ArchiveFails, Listen, Alone, StepResolves, TypeOK
  <2> QED
    BY <1>3, <1>k, <2>1, QuietStep DEF Finalize, ArchiveFails, Listen
<1>4. CASE Mark(p)
  <2>1. Kept
    BY <1>4, SameStatus DEF Mark
  <2>2. Present(pointer.gen)
    BY <1>4 DEF Mark, Markable, PointerValid, Valid, Present
  <2>3. ptr'[p] = pointer /\ pc'[p] = "markPointer" /\ Alone(p)
    BY <1>4 DEF Mark, Alone, TypeOK
  <2>4. StepResolves(p)'
    BY <2>1, <2>2, <2>3 DEF StepResolves, Kept
  <2> QED
    BY <1>4, <2>1, <2>3, <2>4, QuietStep DEF Mark
<1>5. CASE MarkPointer(p)
  <2>1. Present(ptr[p].gen)
    BY <1>0, <1>5 DEF MarkPointer, StepResolves
  <2>2. gens' = gens /\ Kept /\ Alone(p) /\ pc'[p] = "prune"
    BY <1>5, <1>k DEF MarkPointer, WritePointer, Alone, TypeOK
  <2>3. ptr[p].gen \notin doomed'[p]
    BY <1>5 DEF MarkPointer, TypeOK
  <2>4. pointer'.gen = ptr[p].gen /\ pointer'.act = "healthy"
    BY <1>5, CopyType DEF MarkPointer, WritePointer, PointerRecord
  <2>5. StepResolves(p)' /\ PointerResolves'
    BY <2>1, <2>2, <2>3, <2>4 DEF StepResolves, PointerResolves, Present
  <2> QED
    BY <1>5, <2>2, <2>5, Frame DEF MarkPointer, LockedSteps
<1>6. ASSUME NEW g \in Gens, Prune(p, g) PROVE StepsResolve' /\ PointerResolves'
  <2>1. pointer.gen \notin doomed[p] /\ pointer.act = "healthy" /\ g \in doomed[p]
    BY <1>0, <1>6 DEF Prune, StepResolves
  <2>2. /\ pointer' = pointer /\ pc' = pc
        /\ pointer.gen \in Gens => gens'[pointer.gen] = gens[pointer.gen]
    BY <1>6, <2>1 DEF Prune, TypeOK
  <2>3. PointerResolves'
    BY <1>0, <2>1, <2>2 DEF PointerResolves, Present
  <2>4. pointer.gen \notin doomed'[p]
    BY <1>6, <2>1 DEF Prune, TypeOK
  <2>5. ASSUME NEW q \in Procs, q # p PROVE StepResolves(q)'
    <3>1. pc'[q] \notin LockedSteps
      BY <1>6, <2>2, <2>5, LockExcludes DEF Prune, PointerInv, LockedSteps
    <3> QED
      BY <3>1 DEF StepResolves, LockedSteps, PublishSteps
  <2>6. StepResolves(p)'
    BY <1>6, <2>1, <2>2, <2>4 DEF Prune, StepResolves
  <2> QED
    BY <2>3, <2>5, <2>6 DEF StepsResolve
<1>7. ASSUME NEW w \in Writes, Write(p, w) PROVE StepsResolve' /\ PointerResolves'
  <2>1. Kept
    BY <1>7, SameStatus DEF Write
  <2>2. Alone(p) /\ StepResolves(p)'
    BY <1>7 DEF Write, Alone, StepResolves, TypeOK
  <2> QED
    BY <1>7, <2>1, <2>2, QuietStep DEF Write
<1>8. ASSUME NEW face, EditFace(p, face) PROVE StepsResolve' /\ PointerResolves'
  <2>1. Kept
    BY <1>8, SameStatus DEF EditFace
  <2>2. Alone(p) /\ StepResolves(p)'
    BY <1>8 DEF EditFace, Alone, StepResolves, TypeOK
  <2> QED
    BY <1>8, <2>1, <2>2, QuietStep DEF EditFace
<1> QED
  BY <1>1, <1>2, <1>3, <1>4, <1>5, <1>6, <1>7, <1>8 DEF Committing, Serve

\* Crashes and faults: a lost pointer resolves to nothing, damage removes nothing.
LEMMA FaultResolves ==
    ASSUME TypeOK, PointerInv,
           \/ \E p \in Procs : Crash(p)
           \/ LosePointer
           \/ \E g \in Gens : DamageGeneration(g)
    PROVE  StepsResolve' /\ PointerResolves'
<1> USE DEF disk, local
<1>0. StepsResolve /\ PointerResolves
  BY DEF PointerInv
<1>1. ASSUME NEW p \in Procs, Crash(p) PROVE StepsResolve' /\ PointerResolves'
  <2>1. Kept
    BY <1>1, SameStatus DEF Crash
  <2>2. Alone(p) /\ StepResolves(p)'
    BY <1>1 DEF Crash, Goto, Alone, StepResolves, TypeOK
  <2> QED
    BY <1>1, <2>1, <2>2, QuietStep DEF Crash
<1>2. CASE LosePointer
  <2>1. pointer'.st = "bad" /\ pointer'.gen = pointer.gen /\ pointer'.act = pointer.act
    BY <1>2 DEF LosePointer, TypeOK, PointerRecord
  <2> QED
    BY <1>0, <1>2, <2>1
       DEF LosePointer, StepsResolve, StepResolves, PointerResolves, Present
<1>3. ASSUME NEW g \in Gens, DamageGeneration(g)
      PROVE  StepsResolve' /\ PointerResolves'
  <2>1. \A h : Present(h) => Present(h)'
    BY <1>3 DEF DamageGeneration, TypeOK, GenRecord, Present
  <2> QED
    BY <1>0, <1>3, <2>1
       DEF DamageGeneration, StepsResolve, StepResolves, PointerResolves
<1> QED
  BY <1>1, <1>2, <1>3

Inv == TypeOK /\ PointerInv

LEMMA InvInit == ASSUME Init PROVE Inv
<1>1. PointerInv
  BY DEF Init, PointerInv, LockHeld, LockedSteps, PublishSteps, StepsResolve,
         StepResolves, PointerResolves, NoPointer, Pointer
<1> QED
  BY <1>1, InitType DEF Inv

LEMMA InvStep == ASSUME Inv, [Next]_vars PROVE Inv'
<1> USE DEF Inv
<1>1. CASE Next
  <2>1. LockHeld'
    BY <1>1, LockStep DEF PointerInv
  <2>2. TypeOK'
    BY <1>1, SelectType, BuildType, CommitType, FaultType
       DEF Next, Proceed, PointerInv
  <2>3. StepsResolve' /\ PointerResolves'
    BY <1>1, SelectResolves, BuildResolves, CommitResolves, FaultResolves
       DEF Next, Proceed
  <2> QED
    BY <2>1, <2>2, <2>3 DEF PointerInv
<1>2. CASE UNCHANGED vars
  <2>1. TypeOK'
    BY <1>2 DEF vars, disk, local, observed, budget, fixed, TypeOK
  <2>2. PointerInv'
    BY <1>2 DEF vars, disk, local, PointerInv, LockHeld, StepsResolve, StepResolves,
                PointerResolves, Present
  <2> QED
    BY <2>1, <2>2
<1> QED
  BY <1>1, <1>2

\* Every variable keeps its type, whatever the processes, crashes and faults.
THEOREM TypeCorrect == Spec => []TypeOK
<1>1. Inv => TypeOK
  BY DEF Inv
<1> QED
  BY <1>1, InvInit, InvStep, PTL DEF Spec

\* CURRENT.json never selects, and never can roll back to, a generation that is not
\* on disk, for any number of processes sharing the data directory.
THEOREM PointerNeverDangles == Spec => []PointerResolves
<1>1. Inv => PointerResolves
  BY DEF Inv, PointerInv
<1> QED
  BY <1>1, InvInit, InvStep, PTL DEF Spec

\* No two processes select, build, commit or prune at the same time.
THEOREM LockExclusive ==
    Spec => [](\A p, q \in Procs :
                  pc[p] \in LockedSteps /\ pc[q] \in LockedSteps => p = q)
<1>1. Inv => \A p, q \in Procs :
                pc[p] \in LockedSteps /\ pc[q] \in LockedSteps => p = q
  BY LockExcludes DEF Inv, PointerInv
<1> QED
  BY <1>1, InvInit, InvStep, PTL DEF Spec

(***************************************************************************)
(* The one set of facts.                                                   *)
(***************************************************************************)
\* What a start can serve with a marker, and the one it would take.
Marked == {g \in Gens : gens[g].status = "intact" /\ gens[g].healthy}

Top(g) == Newest(g, Marked)

\* The facts before any generation was marked.
Base == IF legacy # 0 THEN LegacyWrites ELSE {}

\* A generation that has the stored facts.
Current(g) == g \in Gens /\ gens[g].status = "intact" /\ (Marked # {} => Top(g))

\* A copy of g that has not been served yet.
CopyOf(c, g) ==
    /\ gens[c].data = gens[g].data
    /\ gens[c].seq = gens[g].seq + 1
    /\ gens[g].rev < gens[c].rev
    /\ ~faceFile => gens[c].face = gens[g].face

\* A pointer that leads to the stored facts.
Leads(q) ==
    /\ q.gen \in Gens /\ gens[q.gen].status = "intact" /\ q.seq = gens[q.gen].seq
    /\ gens[q.gen].healthy => Top(q.gen)
    /\ ~gens[q.gen].healthy =>
          \/ q.act = "healthy" /\ Marked = {} /\ gens[q.gen].rev < lastBuild
          \/ q.act = "pending" /\ q.prev = NoGen /\ Marked = {}
          \/ q.act = "pending" /\ Current(q.prev) /\ CopyOf(q.gen, q.prev)

\* ... by itself, without a rollback.
Settled(q) ==
    Leads(q) /\ (q.act = "pending" /\ ~gens[q.gen].healthy => q.prev = NoGen)

DiskKeeps ==
    /\ \A g \in Published : gens[g].rev <= lastBuild /\ g < nextGen
    /\ Marked # {} => \E g \in Gens : Top(g)
    /\ Marked = {} => \A g \in Published : gens[g].data = Base
    /\ pointer.st = "ok" => Leads(pointer)

\* What the steps of a start know of the disk.
BeginKeeps(p) ==
    /\ pc[p] \in {"activate", "check"} => pointer.st # "none" /\ ptr[p].gen = pointer.gen
    /\ pc[p] = "activate" => ptr[p].st = "ok" /\ Leads(ptr[p])
    /\ pc[p] \in {"check", "migrate"} => Settled(ptr[p])
    /\ pc[p] = "migrate" => gens[ptr[p].gen].rev < build[p]
    /\ pc[p] \in {"adopt", "adoptPublish"} => Published = {} /\ legacy # 0
    /\ pc[p] = "adoptPublish" => snap[p] = [data |-> LegacyWrites, face |-> "none"] /\ legacy <= build[p]
    /\ pc[p] \in {"adopt", "adoptPublish", "adoptMarker", "adoptPointer"} => pointer.st # "ok"
    /\ pc[p] = "adoptMarker" => cand[p] \in Gens /\ gens[cand[p]].status = "intact" /\ Marked = {}
    /\ pc[p] = "adoptPointer" => Top(cand[p])

BuildKeeps(p) ==
    /\ pc[p] = "create" => Published = {} /\ legacy = 0 /\ ptr[p].gen = NoGen
    /\ pc[p] = "publish" =>
          IF ptr[p].gen = NoGen THEN Published = {} /\ legacy = 0 /\ snap[p] = EmptySnap
          ELSE Settled(ptr[p]) /\ gens[ptr[p].gen].rev < build[p]
    /\ pc[p] = "point" =>
          /\ cand[p] \in Gens /\ gens[cand[p]].status = "intact" /\ ~gens[cand[p]].healthy
          /\ gens[cand[p]].rev = build[p]
          /\ IF ptr[p].gen = NoGen THEN Marked = {}
             ELSE Current(ptr[p].gen) /\ CopyOf(cand[p], ptr[p].gen)
    /\ pc[p] = "verify" =>
          /\ pointer.st # "none" /\ pointer.gen = cand[p]
          /\ cand[p] \in Gens /\ gens[cand[p]].rev = build[p]

CommitKeeps(p) ==
    /\ pc[p] \in {"open", "loaded", "mark"} =>
          /\ pointer.st # "none" /\ pointer.gen = active[p]
          /\ active[p] \in Gens /\ gens[active[p]].rev = build[p]
    /\ pc[p] = "markPointer" =>
          ptr[p].st = "ok" /\ ptr[p].gen = active[p] /\ ptr[p].seq = gens[active[p]].seq
    /\ pc[p] \in {"markPointer", "prune", "finalize", "listen", "serving"} => Top(active[p])
    /\ pc[p] \in {"prune", "finalize", "listen", "serving"} => pointer.st # "none" /\ pointer.gen = active[p]
    /\ pc[p] = "prune" => active[p] \notin doomed[p]
    /\ pc[p] \in {"loaded", "mark", "markPointer", "prune", "finalize"} /\ faceFile =>
          gens[active[p]].face = "legacy"

StoreKeeps ==
    /\ DiskKeeps
    /\ \A p \in Procs : /\ build[p] = lastBuild
                        /\ BeginKeeps(p) /\ BuildKeeps(p) /\ CommitKeeps(p)

Wanted == CASE userFace = "enrolled" -> "enrolled"
            [] userFace = "removed" -> "none"
            [] userFace = "untouched" -> IF hadFaceFile THEN "legacy" ELSE "none"

\* While the legacy face database is in place nobody has used this database,
\* and once it is gone the newest generation has the face as it was left.
FaceKeeps ==
    /\ faceFile => hadFaceFile /\ userFace = "untouched"
    /\ ~faceFile /\ Marked = {} =>
          ~hadFaceFile /\ userFace = "untouched" /\ \A g \in Published : gens[g].face = "none"
    /\ ~faceFile => \A g \in Gens : Top(g) => gens[g].face = Wanted
    /\ \A p \in Procs : pc[p] \in {"listen", "serving"} => ~faceFile

\* The backend that a window starts is the only one, and an application is not
\* replaced by an older one.
OneBackend == \A p, q \in Procs : p = q

NoDowngrade == "downgrade" \notin Faults

LEMMA NumberTypes ==
    ASSUME TypeOK
    PROVE  /\ lastBuild \in Nat /\ legacy \in Nat
           /\ \A p \in Procs : build[p] \in Nat
           /\ \A g \in Gens : gens[g].rev \in Nat /\ gens[g].seq \in Int
<1>0. \A b \in Builds \cup {0} : b \in Nat
  BY ConstantsAssumption
<1>1. lastBuild \in Nat /\ legacy \in Nat /\ \A p \in Procs : build[p] \in Nat
  BY <1>0 DEF TypeOK
<1>2. \A r \in GenRecord : r.rev \in Nat /\ r.seq \in Int
  BY DEF GenRecord
<1>3. \A g \in Gens : gens[g] \in GenRecord
  BY DEF TypeOK
<1> QED
  BY <1>1, <1>2, <1>3

\* Fields of the generations that tell which facts a start finds.
SameFields ==
    \A g \in Gens : /\ gens'[g].status = gens[g].status /\ gens'[g].healthy = gens[g].healthy
                    /\ gens'[g].seq = gens[g].seq /\ gens'[g].rev = gens[g].rev
                    /\ gens'[g].data = gens[g].data

\* ... of all but one generation's marker.
SameFieldsBut(g) ==
    \A h \in Gens : /\ gens'[h].status = gens[h].status /\ gens'[h].seq = gens[h].seq
                    /\ gens'[h].rev = gens[h].rev /\ gens'[h].data = gens[h].data
                    /\ h # g => gens'[h] = gens[h]

LEMMA SameMarks ==
    ASSUME SameFields
    PROVE  Marked' = Marked /\ Published' = Published /\ \A g : Top(g)' <=> Top(g)
<1>1. Marked' = Marked /\ Published' = Published
  BY DEF SameFields, Marked, Published
<1>2. \A g, h \in Gens : Newer(g, h)' <=> Newer(g, h)
  BY DEF SameFields, Newer
<1>3. Marked \subseteq Gens
  BY DEF Marked
<1> QED
  BY <1>1, <1>2, <1>3 DEF Top, Newest

LEMMA SameLeads ==
    ASSUME TypeOK, SameFields, lastBuild' \in Nat, lastBuild <= lastBuild',
           faceFile' = faceFile,
           \A g \in Gens : ~faceFile => gens'[g].face = gens[g].face
    PROVE  /\ \A g : Current(g)' <=> Current(g)
           /\ \A c, g \in Gens : CopyOf(c, g)' <=> CopyOf(c, g)
           /\ \A q : Leads(q) => Leads(q)'
           /\ \A q : Settled(q) => Settled(q)'
<1>1. \A g : Current(g)' <=> Current(g)
  BY SameMarks DEF Current, SameFields
<1>2. \A c, g \in Gens : CopyOf(c, g)' <=> CopyOf(c, g)
  BY DEF CopyOf, SameFields
<1>3. ASSUME NEW q, Leads(q) PROVE Leads(q)'
  <2>1. q.gen \in Gens /\ gens'[q.gen].status = "intact" /\ q.seq = gens'[q.gen].seq
    BY <1>3 DEF Leads, SameFields
  <2>2. gens'[q.gen].healthy = gens[q.gen].healthy /\ gens'[q.gen].rev = gens[q.gen].rev
    BY <2>1 DEF SameFields
  <2>3. gens[q.gen].rev < lastBuild => gens'[q.gen].rev < lastBuild'
    BY <2>1, <2>2, NumberTypes
  <2>4. Current(q.prev) => q.prev \in Gens
    BY DEF Current
  <2> QED
    BY <1>1, <1>2, <1>3, <2>1, <2>2, <2>3, <2>4, SameMarks DEF Leads
<1>4. ASSUME NEW q, Settled(q) PROVE Settled(q)'
  BY <1>3, <1>4 DEF Settled, SameFields, Leads
<1> QED
  BY <1>1, <1>2, <1>3, <1>4

\* What a start knows of the disk as long as the step is not its own doing.
LEMMA SameDisk ==
    ASSUME TypeOK, DiskKeeps, SameFields, lastBuild' \in Nat, lastBuild <= lastBuild',
           faceFile' = faceFile, nextGen' = nextGen, legacy' = legacy,
           \A g \in Gens : ~faceFile => gens'[g].face = gens[g].face,
           pointer'.st = "ok" => Leads(pointer')
    PROVE  DiskKeeps'
<1>1. \A g \in Published' : gens'[g].rev <= lastBuild' /\ g < nextGen'
  <2> SUFFICES ASSUME NEW g \in Published' PROVE gens'[g].rev <= lastBuild' /\ g < nextGen'
    OBVIOUS
  <2>1. g \in Published /\ g \in Gens
    BY SameMarks DEF Published
  <2>2. gens[g].rev <= lastBuild /\ g < nextGen /\ gens'[g].rev = gens[g].rev
    BY <2>1 DEF DiskKeeps, SameFields
  <2> QED
    BY <2>1, <2>2, NumberTypes
<1>2. Marked' # {} => \E g \in Gens : Top(g)'
  BY SameMarks DEF DiskKeeps
<1>3. Marked' = {} => \A g \in Published' : gens'[g].data = Base'
  BY SameMarks DEF DiskKeeps, SameFields, Base, Published
<1>4. pointer'.st = "ok" => Leads(pointer)'
  BY SameLeads
<1> QED
  BY <1>1, <1>2, <1>3, <1>4 DEF DiskKeeps

\* Only one generation has the newest marker.
LEMMA OneTop ==
    ASSUME TypeOK, NEW g \in Gens, NEW h \in Gens, Top(g), Top(h)
    PROVE  g = h
<1> SUFFICES ASSUME g # h PROVE FALSE
  OBVIOUS
<1>1. g \in Int /\ h \in Int /\ gens[g].seq \in Int /\ gens[h].seq \in Int
  BY NumberTypes, ConstantsAssumption DEF Gens
<1>2. Newer(g, h) /\ Newer(h, g)
  BY DEF Top, Newest
<1> QED
  BY <1>1, <1>2 DEF Newer

\* What a start of the latest build finds.
LEMMA Candidates ==
    ASSUME TypeOK, DiskKeeps
    PROVE  /\ \A g \in Gens : Valid(g, lastBuild) <=> gens[g].status = "intact"
           /\ HealthyCandidates(lastBuild) = Marked
<1>1. \A g \in Gens : gens[g].status = "intact" => gens[g].rev <= lastBuild
  BY DEF DiskKeeps, Published
<1>2. \A g \in Gens : Valid(g, lastBuild) <=> gens[g].status = "intact"
  BY <1>1 DEF Valid
<1> QED
  BY <1>2 DEF HealthyCandidates, Marked

\* A pointer that leads to the stored facts leads to the newest marker, once
\* there is one.
LEMMA LeadsToTop ==
    ASSUME TypeOK, NEW q, Leads(q)
    PROVE  /\ ~gens[q.gen].healthy /\ q.act = "pending" /\ q.prev # NoGen => Current(q.prev)
           /\ ~(~gens[q.gen].healthy /\ q.act = "pending" /\ q.prev # NoGen) => Current(q.gen)
<1>1. CASE gens[q.gen].healthy
  BY <1>1 DEF Leads, Current
<1>2. CASE ~gens[q.gen].healthy
  <2>1. NoGen \notin Gens
    BY DEF NoGen, Gens
  <2>2. q.gen \in Gens /\ gens[q.gen].status = "intact"
    BY DEF Leads
  <2>3. CASE Marked = {} /\ (q.act = "healthy" \/ q.prev = NoGen)
    <3>1. Current(q.gen)
      BY <2>2, <2>3 DEF Current
    <3>2. ~(q.act = "pending" /\ q.prev # NoGen)
      BY <2>3
    <3> QED
      BY <3>1, <3>2
  <2>4. CASE q.act = "pending" /\ Current(q.prev)
    <3>1. q.prev # NoGen
      BY <2>1, <2>4 DEF Current
    <3> QED
      BY <1>2, <2>4, <3>1
  <2> QED
    BY <1>2, <2>3, <2>4 DEF Leads
<1> QED
  BY <1>1, <1>2

LEMMA CommittedIs ==
    ASSUME TypeOK, DiskKeeps
    PROVE  /\ Marked = {} => StoredFacts = Base
           /\ \A g \in Gens : Top(g) => StoredFacts = gens[g].data
<1>1. Committed # NoGen => Current(Committed)
  <2>1. CASE PointerValid(lastBuild)
    <3>1. Leads(pointer)
      BY <2>1 DEF DiskKeeps, PointerValid
    <3> QED
      BY <2>1, <3>1, LeadsToTop DEF Committed
  <2>2. CASE ~PointerValid(lastBuild) /\ \E g \in Gens : Top(g)
    <3>1. Committed = CHOOSE g \in Gens : Top(g)
      BY <2>2, Candidates DEF Committed, Top
    <3>2. Committed \in Gens /\ Top(Committed)
      BY <2>2, <3>1
    <3> QED
      BY <3>2 DEF Current, Top, Newest, Marked
  <2>3. CASE ~PointerValid(lastBuild) /\ ~\E g \in Gens : Top(g)
    BY <2>3, Candidates DEF Committed, Top
  <2> QED
    BY <2>1, <2>2, <2>3
<1>2. ASSUME NEW g \in Gens, Top(g) PROVE StoredFacts = gens[g].data
  <2>1. Marked # {}
    BY <1>2 DEF Top, Newest
  <2>2. Committed # NoGen
    <3>1. CASE PointerValid(lastBuild)
      <4>1. pointer.gen \in Gens /\ pointer.gen # NoGen
        BY <3>1 DEF PointerValid, Valid, Gens, NoGen
      <4> QED
        BY <3>1, <4>1 DEF Committed
    <3>2. CASE ~PointerValid(lastBuild)
      <4>1. Committed = CHOOSE h \in Gens : Top(h)
        BY <1>2, <3>2, Candidates DEF Committed, Top
      <4>2. Committed \in Gens
        BY <1>2, <4>1
      <4> QED
        BY <4>2 DEF Gens, NoGen
    <3> QED
      BY <3>1, <3>2
  <2>3. Committed \in Gens /\ Top(Committed)
    BY <1>1, <2>1, <2>2 DEF Current
  <2>4. Committed = g
    BY <1>2, <2>3, OneTop
  <2> QED
    BY <2>2, <2>4 DEF StoredFacts
<1>3. ASSUME Marked = {} PROVE StoredFacts = Base
  <2>1. CASE Committed = NoGen
    BY <2>1 DEF StoredFacts, Base
  <2>2. CASE Committed # NoGen
    <3>1. Committed \in Published
      BY <1>1, <2>2 DEF Current, Published
    <3>2. gens[Committed].data = Base
      BY <1>3, <3>1 DEF DiskKeeps
    <3> QED
      BY <2>2, <3>2 DEF StoredFacts
  <2> QED
    BY <2>1, <2>2
<1> QED
  BY <1>2, <1>3

\* The same of the state after a step.
LEMMA CommittedWillBe ==
    ASSUME TypeOK', DiskKeeps'
    PROVE  /\ Marked' = {} => StoredFacts' = Base'
           /\ \A g \in Gens : Top(g)' => StoredFacts' = gens'[g].data
<1>1. TypeOK /\ DiskKeeps => /\ Marked = {} => StoredFacts = Base
                             /\ \A g \in Gens : Top(g) => StoredFacts = gens[g].data
  BY CommittedIs
<1>2. (TypeOK /\ DiskKeeps => /\ Marked = {} => StoredFacts = Base
                              /\ \A g \in Gens : Top(g) => StoredFacts = gens[g].data)'
  BY CommittedIs, PTL
<1> QED
  BY <1>2

StartKeeps(p) == BeginKeeps(p) /\ BuildKeeps(p) /\ CommitKeeps(p)

\* The stored facts are in the generation with the newest marker, and it is the
\* same one, or a new one with the same facts, or the first one.
FactsStay ==
    \/ Marked = {} /\ Marked' = {}
    \/ \E g, h \in Gens : Top(g) /\ Top(h)' /\ gens'[h].data = gens[g].data
    \/ Marked = {} /\ \E h \in Gens : Top(h)' /\ gens'[h].data = Base

\* A step of p that is no harm to what the others and the next starts find.
StoreStep(p) == DiskKeeps' /\ StartKeeps(p)' /\ FactsStay

LEMMA MarksStay ==
    ASSUME DiskKeeps, SameFields
    PROVE  FactsStay
<1>1. CASE Marked = {}
  BY <1>1, SameMarks DEF FactsStay
<1>2. CASE Marked # {}
  <2>1. PICK g \in Gens : Top(g)
    BY <1>2 DEF DiskKeeps
  <2>2. Top(g)' /\ gens'[g].data = gens[g].data
    BY <2>1, SameMarks DEF SameFields
  <2> QED
    BY <2>1, <2>2 DEF FactsStay
<1> QED
  BY <1>1, <1>2

\* A step that changes no generation.
LEMMA GensStay ==
    ASSUME TypeOK, DiskKeeps, UNCHANGED <<gens, nextGen, faceFile, legacy>>,
           lastBuild' \in Nat, lastBuild <= lastBuild'
    PROVE  /\ pointer' = pointer \/ pointer'.st # "ok" \/ Leads(pointer') => DiskKeeps'
           /\ FactsStay
           /\ Marked' = Marked /\ Published' = Published
           /\ \A g : Top(g)' <=> Top(g)
           /\ \A g : Current(g)' <=> Current(g)
           /\ \A c, g \in Gens : CopyOf(c, g)' <=> CopyOf(c, g)
           /\ \A q : Leads(q) => Leads(q)'
           /\ \A q : Settled(q) => Settled(q)'
<1>1. SameFields
  BY DEF SameFields
<1>2. pointer' = pointer \/ pointer'.st # "ok" \/ Leads(pointer') => (pointer'.st = "ok" => Leads(pointer'))
  BY DEF DiskKeeps
<1>3. \A g \in Gens : ~faceFile => gens'[g].face = gens[g].face
  OBVIOUS
<1>4. pointer' = pointer \/ pointer'.st # "ok" \/ Leads(pointer') => DiskKeeps'
  BY <1>1, <1>2, <1>3, SameDisk
<1> QED
  BY <1>1, <1>3, <1>4, MarksStay, SameMarks, SameLeads

\* Of a backend that is down, waits for the lock or selects nothing is known yet.
LEMMA NothingKnown ==
    ASSUME NEW p, pc'[p] \in {"off", "failed", "refused", "prepare", "select"}
    PROVE  StartKeeps(p)'
BY DEF StartKeeps, BeginKeeps, BuildKeeps, CommitKeeps

\* A start, up to the choice of a generation.
LEMMA BeginStores ==
    ASSUME TypeOK, DiskKeeps, "downgrade" \notin faults', NEW p \in Procs,
           build[p] = lastBuild, StartKeeps(p),
           \/ \E b \in Builds : Start(p, b)
           \/ Acquire(p) \/ AcquireTimeout(p)
    PROVE  StoreStep(p) /\ build'[p] = lastBuild'
<1> USE DEF disk, local, budget, fixed, At, Leave, Goto
<1>1. ASSUME NEW b \in Builds, Start(p, b) PROVE StoreStep(p) /\ build'[p] = lastBuild'
  <2>1. b >= lastBuild /\ lastBuild' = b /\ build'[p] = b /\ pc'[p] = "prepare"
    BY <1>1 DEF Start, Happens, TypeOK
  <2>2. lastBuild' \in Nat /\ lastBuild <= lastBuild'
    BY <2>1, NumberTypes, ConstantsAssumption
  <2>3. UNCHANGED <<gens, nextGen, faceFile, legacy, pointer>>
    BY <1>1 DEF Start
  <2> QED
    BY <2>1, <2>2, <2>3, GensStay, NothingKnown DEF StoreStep
<1>2. CASE Acquire(p) \/ AcquireTimeout(p)
  <2>1. UNCHANGED <<gens, nextGen, faceFile, legacy, pointer, lastBuild, build, ptr, cand, snap, doomed, active>>
    BY <1>2 DEF Acquire, AcquireTimeout
  <2>2. lastBuild' \in Nat /\ lastBuild <= lastBuild'
    BY <2>1, NumberTypes
  <2>3. pc'[p] \in {"failed", "select"} \/ (pc[p] = "loaded" /\ pc'[p] = "mark")
    BY <1>2 DEF Acquire, AcquireTimeout, TypeOK
  <2>4. pc[p] = "loaded" /\ pc'[p] = "mark" => StartKeeps(p)'
    BY <2>1 DEF StartKeeps, BeginKeeps, BuildKeeps, CommitKeeps
  <2> QED
    BY <2>1, <2>2, <2>3, <2>4, GensStay, NothingKnown DEF StoreStep
<1> QED
  BY <1>1, <1>2

\* A pointer to the generation with the newest marker leads to the stored facts.
LEMMA PointsAtTop ==
    ASSUME NEW g \in Gens, Top(g), NEW q, q.gen = g, q.seq = gens[g].seq
    PROVE  Leads(q)
BY DEF Leads, Top, Newest, Marked

LEMMA SelectStores ==
    ASSUME TypeOK, DiskKeeps, NEW p \in Procs, build[p] = lastBuild, Select(p)
    PROVE  StoreStep(p)
<1> USE DEF disk, local, budget, fixed, At, Leave, Goto
<1>0. UNCHANGED <<gens, nextGen, faceFile, legacy, build, lastBuild>>
  BY DEF Select, SelectPointer, SelectHealthy, SelectFirst, SelectRefuse, SelectNone
<1>a. lastBuild' \in Nat /\ lastBuild <= lastBuild'
  BY <1>0, NumberTypes
<1>b. /\ \A g \in Gens : Valid(g, build[p]) <=> gens[g].status = "intact"
      /\ HealthyCandidates(build[p]) = Marked
  BY Candidates
<1>c. ASSUME pc'[p] = "activate", ptr'[p] = pointer', pointer'.st = "ok", Leads(pointer')
      PROVE  StoreStep(p)
  <2>1. DiskKeeps' /\ FactsStay /\ Leads(ptr[p])'
    BY <1>0, <1>a, <1>c, GensStay
  <2>2. StartKeeps(p)'
    BY <1>c, <2>1 DEF StartKeeps, BeginKeeps, BuildKeeps, CommitKeeps
  <2> QED
    BY <2>1, <2>2 DEF StoreStep
<1>1. CASE SelectPointer(p)
  <2>1. pointer.st = "ok" /\ Leads(pointer)
    BY <1>1 DEF SelectPointer, PointerValid, DiskKeeps
  <2>2. pointer' = pointer /\ ptr'[p] = pointer' /\ pc'[p] = "activate"
    BY <1>1 DEF SelectPointer, TypeOK
  <2> QED
    BY <1>c, <2>1, <2>2
<1>2. CASE SelectHealthy(p)
  <2>1. PICK g \in Gens :
          /\ Top(g)
          /\ WritePointer(p, Pointer("ok", g, gens[g].src, gens[g].seq, "healthy"))
    BY <1>2, <1>b DEF SelectHealthy, Top
  <2>2. pointer'.st = "ok" /\ pointer'.gen = g /\ pointer'.seq = gens[g].seq /\ ptr'[p] = pointer'
    BY <2>1 DEF WritePointer, Pointer, TypeOK
  <2>3. Leads(pointer')
    BY <2>1, <2>2, PointsAtTop
  <2>4. pc'[p] = "activate"
    BY <1>2 DEF SelectHealthy, TypeOK
  <2> QED
    BY <1>c, <2>2, <2>3, <2>4
<1>3. ASSUME NothingHealthy(build[p]) PROVE Marked = {} /\ pointer.st # "ok"
  <2>1. pointer.st = "ok" => pointer.gen \in Gens /\ gens[pointer.gen].status = "intact"
    BY DEF DiskKeeps, Leads
  <2> QED
    BY <1>3, <1>b, <2>1 DEF NothingHealthy, PointerValid
<1>4. CASE SelectFirst(p)
  <2>0. Marked = {} /\ pointer.st # "ok"
    BY <1>3, <1>4 DEF SelectFirst
  <2>1. PICK g \in Gens :
          /\ Newest(g, FirstCandidates(build[p]))
          /\ \/ /\ cand' = [cand EXCEPT ![p] = g]
                /\ pc' = [pc EXCEPT ![p] = "adoptMarker"]
                /\ UNCHANGED <<pointer, ptr>>
             \/ /\ WritePointer(p, Pointer("ok", g, NoGen, gens[g].seq, "pending"))
                /\ pc' = [pc EXCEPT ![p] = "activate"]
                /\ UNCHANGED cand
    BY <1>4 DEF SelectFirst
  <2>2. gens[g].status = "intact"
    BY <2>1 DEF Newest, FirstCandidates, Valid
  <2>3. CASE cand' = [cand EXCEPT ![p] = g] /\ pc' = [pc EXCEPT ![p] = "adoptMarker"] /\ pointer' = pointer
    <3>1. cand'[p] = g /\ pc'[p] = "adoptMarker"
      BY <2>3 DEF TypeOK
    <3>2. DiskKeeps' /\ FactsStay /\ Marked' = {} /\ gens' = gens
      BY <1>0, <1>a, <2>0, <2>3, GensStay
    <3>3. StartKeeps(p)'
      BY <2>0, <2>2, <2>3, <3>1, <3>2 DEF StartKeeps, BeginKeeps, BuildKeeps, CommitKeeps
    <3> QED
      BY <3>2, <3>3 DEF StoreStep
  <2>4. CASE /\ WritePointer(p, Pointer("ok", g, NoGen, gens[g].seq, "pending"))
             /\ pc' = [pc EXCEPT ![p] = "activate"]
    <3>1. /\ pointer'.st = "ok" /\ pointer'.gen = g /\ pointer'.seq = gens[g].seq /\ ptr'[p] = pointer'
          /\ pointer'.act = "pending" /\ pointer'.prev = NoGen /\ pc'[p] = "activate"
      BY <2>4 DEF WritePointer, Pointer, TypeOK
    <3>2. ~gens[g].healthy
      BY <2>0, <2>2 DEF Marked
    <3>3. Leads(pointer')
      BY <2>0, <2>2, <3>1, <3>2 DEF Leads
    <3> QED
      BY <1>c, <3>1, <3>3
  <2> QED
    BY <2>1, <2>3, <2>4
<1>5. CASE SelectRefuse(p)
  <2>1. pc'[p] = "refused" /\ pointer' = pointer
    BY <1>5 DEF SelectRefuse, TypeOK
  <2> QED
    BY <1>0, <1>a, <2>1, GensStay, NothingKnown DEF StoreStep
<1>6. CASE SelectNone(p)
  <2>1. /\ pc'[p] = IF legacy # 0 THEN "adopt" ELSE "create"
        /\ pointer' = pointer /\ ptr'[p] = NoPointer /\ Published = {} /\ pointer.st # "ok"
    BY <1>3, <1>6 DEF SelectNone, TypeOK
  <2>2. DiskKeeps' /\ FactsStay /\ Published' = {}
    BY <1>0, <1>a, <2>1, GensStay
  <2>3. StartKeeps(p)'
    BY <1>0, <2>1, <2>2 DEF StartKeeps, BeginKeeps, BuildKeeps, CommitKeeps, NoPointer, Pointer
  <2> QED
    BY <2>2, <2>3 DEF StoreStep
<1> QED
  BY <1>1, <1>2, <1>4, <1>5, <1>6 DEF Select

LEMMA ActivateStores ==
    ASSUME TypeOK, DiskKeeps, NEW p \in Procs, build[p] = lastBuild, StartKeeps(p), Activate(p)
    PROVE  StoreStep(p)
<1> USE DEF disk, local, budget, fixed, At, Leave, Goto
<1>0. UNCHANGED <<gens, nextGen, faceFile, legacy, build, lastBuild>>
  BY DEF Activate
<1>a. lastBuild' \in Nat /\ lastBuild <= lastBuild'
  BY <1>0, NumberTypes
<1>b. ptr[p].st = "ok" /\ Leads(ptr[p]) /\ ptr[p].gen = pointer.gen /\ pointer.st # "none"
  BY DEF Activate, StartKeeps, BeginKeeps
<1>c. ASSUME pc'[p] = "check", ptr'[p].gen = pointer'.gen, pointer'.st # "none", Settled(ptr'[p]),
             pointer' = pointer \/ Leads(pointer')
      PROVE  StoreStep(p)
  <2>1. DiskKeeps' /\ FactsStay /\ Settled(ptr[p])'
    BY <1>0, <1>a, <1>c, GensStay
  <2>2. StartKeeps(p)'
    BY <1>c, <2>1 DEF StartKeeps, BeginKeeps, BuildKeeps, CommitKeeps
  <2> QED
    BY <2>1, <2>2 DEF StoreStep
<1>1. CASE ptr[p].act # "pending" \/ (~gens[ptr[p].gen].healthy /\ ptr[p].prev = NoGen)
  <2>1. UNCHANGED <<pointer, ptr>> /\ pc'[p] = "check"
    BY <1>1 DEF Activate, TypeOK
  <2>2. Settled(ptr[p])
    BY <1>1, <1>b DEF Settled
  <2> QED
    BY <1>b, <1>c, <2>1, <2>2
<1>2. CASE ptr[p].act = "pending" /\ gens[ptr[p].gen].healthy
  <2>1. WritePointer(p, [ptr[p] EXCEPT !.act = "healthy"]) /\ pc'[p] = "check"
    BY <1>2 DEF Activate, TypeOK
  <2> DEFINE q == [ptr[p] EXCEPT !.act = "healthy"]
  <2>2. /\ q.gen = ptr[p].gen /\ q.seq = ptr[p].seq /\ q.act = "healthy" /\ pointer' = q /\ ptr'[p] = q
    BY <2>1, CopyType DEF WritePointer, TypeOK, PointerRecord
  <2>3. q.st # "none" => Settled(q) /\ Leads(q)
    <3>1. Top(q.gen) /\ q.gen \in Gens /\ q.seq = gens[q.gen].seq
      BY <1>2, <1>b, <2>2 DEF Leads
    <3>2. Leads(q)
      BY <3>1, PointsAtTop
    <3> QED
      BY <2>2, <3>2 DEF Settled
  <2>4. q.st = ptr[p].st
    BY CopyType DEF PointerRecord
  <2> HIDE DEF q
  <2> QED
    BY <1>b, <1>c, <2>1, <2>2, <2>3, <2>4
<1>3. CASE ptr[p].act = "pending" /\ ~gens[ptr[p].gen].healthy /\ ptr[p].prev # NoGen
  <2>1. Current(ptr[p].prev) /\ CopyOf(ptr[p].gen, ptr[p].prev) /\ ptr[p].prev \in Gens
    BY <1>3, <1>b DEF Leads, Current
  <2>2. Valid(ptr[p].prev, build[p])
    BY <2>1, Candidates DEF Current
  <2>3. /\ WritePointer(p, Pointer("ok", ptr[p].prev, gens[ptr[p].prev].src, ptr[p].seq - 1, "healthy"))
        /\ pc'[p] = "check"
    BY <1>3, <2>2 DEF Activate, TypeOK
  <2>4. /\ pointer'.st = "ok" /\ pointer'.gen = ptr[p].prev /\ pointer'.seq = ptr[p].seq - 1
        /\ pointer'.act = "healthy" /\ ptr'[p] = pointer'
    BY <2>3 DEF WritePointer, Pointer, TypeOK
  <2>5. ptr[p].gen \in Gens /\ ptr[p].seq = gens[ptr[p].gen].seq /\ gens[ptr[p].gen].rev <= lastBuild
    BY <1>b DEF Leads, DiskKeeps, Published
  <2>6. pointer'.seq = gens[ptr[p].prev].seq /\ gens[ptr[p].prev].rev < lastBuild
    <3>1. gens[ptr[p].gen].seq = gens[ptr[p].prev].seq + 1 /\ gens[ptr[p].prev].rev < gens[ptr[p].gen].rev
      BY <2>1 DEF CopyOf
    <3> QED
      BY <2>1, <2>4, <2>5, <3>1, NumberTypes
  <2>7. gens[ptr[p].prev].healthy => Top(ptr[p].prev)
    BY <2>1 DEF Current, Marked
  <2>8. ~gens[ptr[p].prev].healthy => Marked = {}
    BY <2>1 DEF Current, Top, Newest, Marked
  <2>9. Leads(pointer')
    BY <2>1, <2>4, <2>6, <2>7, <2>8 DEF Leads, Current
  <2>10. Settled(pointer')
    BY <2>4, <2>9 DEF Settled
  <2> QED
    BY <1>c, <2>3, <2>4, <2>9, <2>10
<1> QED
  BY <1>1, <1>2, <1>3

LEMMA CheckStores ==
    ASSUME TypeOK, DiskKeeps, NEW p \in Procs, build[p] = lastBuild, StartKeeps(p), Check(p)
    PROVE  StoreStep(p)
<1> USE DEF disk, local, budget, fixed, At, Leave, Goto
<1>0. UNCHANGED <<gens, nextGen, faceFile, legacy, build, lastBuild, pointer, ptr>>
  BY DEF Check
<1>a. lastBuild' \in Nat /\ lastBuild <= lastBuild'
  BY <1>0, NumberTypes
<1>b. Settled(ptr[p]) /\ ptr[p].gen = pointer.gen /\ pointer.st # "none"
  BY DEF Check, StartKeeps, BeginKeeps
<1>1. DiskKeeps' /\ FactsStay /\ Settled(ptr[p])'
  BY <1>0, <1>a, <1>b, GensStay
<1>2. CASE pc'[p] = "failed"
  BY <1>1, <1>2, NothingKnown DEF StoreStep
<1>3. CASE gens[ptr[p].gen].rev = build[p]
  <2>1. pc'[p] = "open" /\ active'[p] = ptr[p].gen
    BY <1>3 DEF Check, TypeOK
  <2>2. StartKeeps(p)'
    BY <1>0, <1>3, <1>b, <2>1 DEF StartKeeps, BeginKeeps, BuildKeeps, CommitKeeps, Settled, Leads
  <2> QED
    BY <1>1, <2>2 DEF StoreStep
<1>4. CASE gens[ptr[p].gen].rev # build[p] /\ Valid(ptr[p].gen, build[p])
  <2>1. pc'[p] = "migrate"
    BY <1>4 DEF Check, TypeOK
  <2>2. ptr[p].gen \in Gens /\ gens[ptr[p].gen].rev <= build[p]
    BY <1>4 DEF Valid
  <2>3. gens[ptr[p].gen].rev < build[p]
    BY <1>4, <2>2, NumberTypes
  <2>4. StartKeeps(p)'
    BY <1>0, <1>1, <2>1, <2>3 DEF StartKeeps, BeginKeeps, BuildKeeps, CommitKeeps
  <2> QED
    BY <1>1, <2>4 DEF StoreStep
<1>5. CASE gens[ptr[p].gen].rev # build[p] /\ ~Valid(ptr[p].gen, build[p])
  <2>1. pc'[p] = "failed"
    <3>1. Goto(p, "failed")
      BY <1>5 DEF Check
    <3> QED
      BY <3>1 DEF TypeOK
  <2> QED
    BY <1>2, <2>1
<1> QED
  BY <1>3, <1>4, <1>5

\* A generation is published: it is at first nobody's.
LEMMA Grows ==
    ASSUME TypeOK, DiskKeeps, NEW r, nextGen \in Gens,
           gens' = [gens EXCEPT ![nextGen] = r], nextGen' = nextGen + 1,
           r.status = "intact", r.healthy = FALSE, r.rev <= lastBuild, Marked = {} => r.data = Base,
           UNCHANGED <<faceFile, legacy, lastBuild, pointer>>
    PROVE  /\ DiskKeeps' /\ FactsStay /\ Marked' = Marked
           /\ gens'[nextGen] = r /\ nextGen \notin Published
           /\ \A g : Top(g)' <=> Top(g)
           /\ \A g : Current(g) => Current(g)'
           /\ \A q : Leads(q) => Leads(q)'
<1>1. gens'[nextGen] = r /\ \A g \in Gens \ {nextGen} : gens'[g] = gens[g]
  BY DEF TypeOK
<1>2. nextGen \notin Published /\ nextGen \in Nat
  BY ConstantsAssumption DEF DiskKeeps, Gens
<1>3. nextGen \notin Marked /\ Marked \subseteq Published /\ Published \subseteq Gens
  BY <1>2 DEF Marked, Published
<1>4. Marked' = Marked /\ Published' = Published \cup {nextGen}
  BY <1>1, <1>3 DEF Marked, Published
<1>5. \A g, h \in Published : Newer(g, h)' <=> Newer(g, h)
  BY <1>1, <1>2, <1>3 DEF Newer
<1>6. \A g : Top(g)' <=> Top(g)
  BY <1>3, <1>4, <1>5 DEF Top, Newest
<1>7. \A g : Current(g) => g \in Published /\ Current(g)'
  BY <1>1, <1>2, <1>4, <1>6 DEF Current, Published
<1>8. ASSUME NEW q, Leads(q) PROVE Leads(q)'
  <2>1. q.gen \in Gens \ {nextGen} /\ gens'[q.gen] = gens[q.gen]
    BY <1>1, <1>2, <1>8 DEF Leads, Published
  <2>2. ~gens[q.gen].healthy /\ Current(q.prev) /\ CopyOf(q.gen, q.prev) =>
            Current(q.prev)' /\ CopyOf(q.gen, q.prev)'
    <3>1. Current(q.prev) => q.prev \in Gens \ {nextGen}
      BY <1>2, <1>7 DEF Published
    <3> QED
      BY <1>1, <1>7, <2>1, <3>1 DEF CopyOf
  <2> QED
    BY <1>4, <1>6, <1>8, <2>1, <2>2 DEF Leads
<1>9. FactsStay
  <2>1. CASE Marked = {}
    BY <1>4, <2>1 DEF FactsStay
  <2>2. CASE Marked # {}
    <3>1. PICK g \in Gens : Top(g)
      BY <2>2 DEF DiskKeeps
    <3>2. g # nextGen
      BY <1>3, <3>1 DEF Top, Newest
    <3> QED
      BY <1>1, <1>6, <3>1, <3>2 DEF FactsStay
  <2> QED
    BY <2>1, <2>2
<1>10. DiskKeeps'
  <2>1. \A g \in Published' : gens'[g].rev <= lastBuild' /\ g < nextGen'
    <3>1. \A g \in Published : g \in Gens /\ g # nextGen /\ gens[g].rev <= lastBuild /\ g < nextGen
      BY <1>2, <1>3 DEF DiskKeeps
    <3>2. \A g \in Gens : g < nextGen => g < nextGen'
      BY <1>2 DEF Gens
    <3>3. nextGen < nextGen'
      BY <1>2
    <3> QED
      BY <1>1, <1>4, <3>1, <3>2, <3>3
  <2>2. Marked' # {} => \E g \in Gens : Top(g)'
    BY <1>4, <1>6 DEF DiskKeeps
  <2>3. Marked' = {} => \A g \in Published' : gens'[g].data = Base'
    BY <1>1, <1>2, <1>3, <1>4 DEF DiskKeeps, Base
  <2>4. pointer'.st = "ok" => Leads(pointer)'
    BY <1>8 DEF DiskKeeps
  <2> QED
    BY <2>1, <2>2, <2>3, <2>4 DEF DiskKeeps
<1> QED
  BY <1>1, <1>2, <1>4, <1>6, <1>7, <1>8, <1>9, <1>10

\* The first or the next generation gets its marker.
LEMMA MarkedNext ==
    ASSUME TypeOK, DiskKeeps, NEW g \in Gens, gens[g].status = "intact", ~gens[g].healthy,
           gens' = [gens EXCEPT ![g].healthy = TRUE],
           UNCHANGED <<nextGen, faceFile, legacy, lastBuild>>,
           \/ Marked = {}
           \/ \E h \in Gens : Top(h) /\ gens[g].seq = gens[h].seq + 1 /\ gens[g].data = gens[h].data
    PROVE  /\ Top(g)' /\ FactsStay /\ SameFieldsBut(g)
           /\ pointer'.st # "ok" \/ Leads(pointer)' => DiskKeeps'
<1>1. gens \in [Gens -> GenRecord]
  BY DEF TypeOK
<1>2. \A h \in Gens \ {g} : gens'[h] = gens[h]
  BY <1>1
<1>3. /\ gens'[g].status = gens[g].status /\ gens'[g].seq = gens[g].seq
      /\ gens'[g].rev = gens[g].rev /\ gens'[g].data = gens[g].data /\ gens'[g].healthy
  BY <1>1 DEF GenRecord
<1>4. SameFieldsBut(g)
  BY <1>2, <1>3 DEF SameFieldsBut
<1>5. Marked' = Marked \cup {g} /\ g \notin Marked /\ Published' = Published
  BY <1>2, <1>3 DEF Marked, Published
<1>6. \A h, k \in Gens : Newer(h, k)' <=> Newer(h, k)
  BY <1>4 DEF SameFieldsBut, Newer
<1>7. \A h \in Marked : Newer(g, h)
  <2>1. CASE Marked = {}
    BY <2>1
  <2>2. ASSUME NEW h \in Gens, Top(h), gens[g].seq = gens[h].seq + 1 PROVE \A k \in Marked : Newer(g, k)
    <3> SUFFICES ASSUME NEW k \in Marked PROVE Newer(g, k)
      OBVIOUS
    <3>1. k \in Gens /\ gens[k].seq \in Int /\ gens[h].seq \in Int
      BY NumberTypes DEF Marked
    <3>2. gens[h].seq >= gens[k].seq
      BY <2>2, <3>1 DEF Top, Newest, Newer
    <3> QED
      BY <2>2, <3>1, <3>2 DEF Newer
  <2> QED
    BY <2>1, <2>2
<1>8. Top(g)'
  <2>1. \A h \in Marked' \ {g} : Newer(g, h)'
    BY <1>5, <1>6, <1>7 DEF Marked
  <2> QED
    BY <1>5, <2>1 DEF Top, Newest
<1>9. FactsStay
  <2>1. CASE Marked = {}
    <3>1. gens[g].data = Base
      BY <2>1 DEF DiskKeeps, Published
    <3> QED
      BY <1>3, <1>8, <2>1, <3>1 DEF FactsStay
  <2>2. CASE \E h \in Gens : Top(h) /\ gens[g].data = gens[h].data
    BY <1>3, <1>8, <2>2 DEF FactsStay
  <2> QED
    BY <2>1, <2>2
<1>10. ASSUME pointer'.st # "ok" \/ Leads(pointer)' PROVE DiskKeeps'
  <2>1. \A h \in Published' : gens'[h].rev <= lastBuild' /\ h < nextGen'
    <3>1. \A h \in Published : h \in Gens /\ gens[h].rev <= lastBuild /\ h < nextGen
      BY DEF DiskKeeps, Published
    <3> QED
      BY <1>4, <1>5, <3>1 DEF SameFieldsBut
  <2> QED
    BY <1>5, <1>8, <1>10, <2>1 DEF DiskKeeps
<1> QED
  BY <1>4, <1>8, <1>9, <1>10

LEMMA AdoptionStores ==
    ASSUME TypeOK, DiskKeeps, NEW p \in Procs, build[p] = lastBuild, StartKeeps(p), Adoption(p)
    PROVE  StoreStep(p)
<1> USE DEF disk, local, budget, fixed, At, Leave, Goto
<1>0. UNCHANGED <<build, lastBuild, legacy, faceFile>> /\ lastBuild' \in Nat /\ lastBuild <= lastBuild'
  <2>1. UNCHANGED <<build, lastBuild, legacy, faceFile>>
    BY DEF Adoption, Adopt, AdoptRejected, PublishAdoption, AdoptMarker, AdoptPointer, Prepare, PublishAs
  <2> QED
    BY <2>1, NumberTypes
<1>1. CASE Adopt(p)
  <2>1. /\ UNCHANGED <<gens, nextGen, pointer>> /\ pc'[p] = "adoptPublish" /\ pc[p] = "adopt"
        /\ snap'[p] = [data |-> LegacyWrites, face |-> "none"] /\ legacy <= build[p]
    BY <1>1 DEF Adopt, Prepare, TypeOK
  <2>2. DiskKeeps' /\ FactsStay /\ Published' = Published
    BY <1>0, <2>1, GensStay
  <2>3. StartKeeps(p)'
    BY <1>0, <2>1, <2>2 DEF StartKeeps, BeginKeeps, BuildKeeps, CommitKeeps
  <2> QED
    BY <2>2, <2>3 DEF StoreStep
<1>2. CASE AdoptRejected(p)
  <2>1. UNCHANGED <<gens, nextGen, pointer>> /\ pc'[p] = "failed"
    BY <1>2 DEF AdoptRejected, TypeOK
  <2> QED
    BY <1>0, <2>1, GensStay, NothingKnown DEF StoreStep
<1>3. CASE PublishAdoption(p)
  <2>1. /\ pc[p] = "adoptPublish" /\ Published = {} /\ legacy # 0 /\ legacy <= build[p]
        /\ snap[p] = [data |-> LegacyWrites, face |-> "none"] /\ pointer.st # "ok"
    BY <1>3 DEF PublishAdoption, StartKeeps, BeginKeeps
  <2> DEFINE r == Candidate(p, "legacy-adoption", 1, legacy, NoGen)
  <2>2. r.status = "intact" /\ r.healthy = FALSE /\ r.rev <= lastBuild /\ r.data = Base
    BY <2>1 DEF Candidate, Base
  <2>3. /\ nextGen \in Gens /\ gens' = [gens EXCEPT ![nextGen] = r] /\ nextGen' = nextGen + 1
        /\ cand'[p] = nextGen /\ pc'[p] = "adoptMarker" /\ pointer' = pointer
    BY <1>3 DEF PublishAdoption, PublishAs, TypeOK
  <2> HIDE DEF r
  <2>4. DiskKeeps' /\ FactsStay /\ Marked' = Marked /\ gens'[nextGen] = r
    BY <1>0, <2>2, <2>3, Grows
  <2>5. Marked = {}
    BY <2>1 DEF Published, Marked
  <2>6. StartKeeps(p)'
    BY <2>1, <2>2, <2>3, <2>4, <2>5 DEF StartKeeps, BeginKeeps, BuildKeeps, CommitKeeps
  <2> QED
    BY <2>4, <2>6 DEF StoreStep
<1>4. CASE AdoptMarker(p)
  <2>0. PICK g : g = cand[p]
    OBVIOUS
  <2>1. g \in Gens /\ gens[g].status = "intact" /\ Marked = {} /\ pointer.st # "ok"
    BY <1>4, <2>0 DEF AdoptMarker, StartKeeps, BeginKeeps
  <2>2. ~gens[g].healthy
    BY <2>1 DEF Marked
  <2>3. /\ gens' = [gens EXCEPT ![g].healthy = TRUE] /\ UNCHANGED <<nextGen, pointer, cand>>
        /\ pc'[p] = "adoptPointer"
    BY <1>4, <2>0 DEF AdoptMarker, TypeOK
  <2>a. pointer'.st # "ok"
    BY <2>1, <2>3
  <2>b. /\ Top(g)' /\ FactsStay
        /\ pointer'.st # "ok" \/ Leads(pointer)' => DiskKeeps'
    BY <1>0, <2>1, <2>2, <2>3, MarkedNext
  <2>4. Top(g)' /\ FactsStay /\ DiskKeeps'
    BY <2>a, <2>b
  <2>5. Top(cand[p])'
    BY <2>0, <2>3, <2>4
  <2>6. StartKeeps(p)'
    BY <2>1, <2>3, <2>5 DEF StartKeeps, BeginKeeps, BuildKeeps, CommitKeeps
  <2> QED
    BY <2>4, <2>6 DEF StoreStep
<1>5. CASE AdoptPointer(p)
  <2>1. Top(cand[p]) /\ cand[p] \in Gens
    BY <1>5 DEF AdoptPointer, StartKeeps, BeginKeeps, Top, Newest, Marked
  <2>2. /\ gens' = gens /\ nextGen' = nextGen /\ pc'[p] = "check" /\ pointer'.st = "ok" /\ ptr'[p] = pointer'
        /\ pointer'.gen = cand[p] /\ pointer'.seq = gens[cand[p]].seq /\ pointer'.act = "healthy"
    BY <1>5 DEF AdoptPointer, WritePointer, Pointer, TypeOK
  <2>3. Leads(pointer') /\ Settled(pointer')
    BY <2>1, <2>2, PointsAtTop DEF Settled
  <2>4. DiskKeeps' /\ FactsStay /\ Settled(ptr[p])'
    BY <1>0, <2>2, <2>3, GensStay
  <2>5. StartKeeps(p)'
    BY <2>2, <2>4 DEF StartKeeps, BeginKeeps, BuildKeeps, CommitKeeps
  <2> QED
    BY <2>4, <2>5 DEF StoreStep
<1> QED
  BY <1>1, <1>2, <1>3, <1>4, <1>5 DEF Adoption

\* What a migration copies has the facts of its source.
LEMMA PublishStores ==
    ASSUME TypeOK, DiskKeeps, NEW p \in Procs, build[p] = lastBuild, StartKeeps(p), Publish(p)
    PROVE  StoreStep(p)
<1> USE DEF disk, local, budget, fixed, At, Goto
<1>0. /\ UNCHANGED <<build, lastBuild, legacy, faceFile, pointer, ptr>>
      /\ nextGen \in Gens /\ nextGen' = nextGen + 1 /\ cand'[p] = nextGen /\ pc'[p] = "point"
  BY DEF Publish, PublishAs, TypeOK
<1>1. CASE ptr[p].gen = NoGen
  <2>1. Published = {} /\ legacy = 0 /\ snap[p] = EmptySnap
    BY <1>1 DEF Publish, StartKeeps, BuildKeeps
  <2> DEFINE r == Candidate(p, "new-database", 1, build[p], NoGen)
  <2>2. r.status = "intact" /\ r.healthy = FALSE /\ r.rev = build[p] /\ r.data = Base
    BY <2>1 DEF Candidate, Base, EmptySnap
  <2>3. r.rev <= lastBuild
    BY <2>2, NumberTypes
  <2>4. gens' = [gens EXCEPT ![nextGen] = r]
    BY <1>1 DEF Publish, PublishAs
  <2> HIDE DEF r
  <2>5. DiskKeeps' /\ FactsStay /\ Marked' = Marked /\ gens'[nextGen] = r
    BY <1>0, <2>2, <2>3, <2>4, Grows
  <2>6. Marked = {}
    BY <2>1 DEF Published, Marked
  <2>7. StartKeeps(p)'
    BY <1>0, <1>1, <2>2, <2>5, <2>6 DEF StartKeeps, BeginKeeps, BuildKeeps, CommitKeeps
  <2> QED
    BY <2>5, <2>7 DEF StoreStep
<1>2. CASE ptr[p].gen # NoGen
  <2>0. PICK g : g = ptr[p].gen
    OBVIOUS
  <2>1. Settled(ptr[p]) /\ gens[g].rev < build[p]
    BY <1>2, <2>0 DEF Publish, StartKeeps, BuildKeeps
  <2>2. g \in Gens /\ ptr[p].seq = gens[g].seq /\ Current(g)
    BY <2>0, <2>1, LeadsToTop DEF Settled, Leads
  <2>3. snap[p] = Contents(g)
    BY <1>2, <2>0 DEF Publish, SourceUnchanged
  <2> DEFINE r == Candidate(p, "schema-migration", ptr[p].seq + 1, build[p], g)
  <2>4. /\ r.status = "intact" /\ r.healthy = FALSE /\ r.rev = build[p] /\ r.seq = gens[g].seq + 1
        /\ r.data = gens[g].data /\ r.face = gens[g].face
    BY <2>2, <2>3 DEF Candidate, Contents
  <2>5. r.rev <= lastBuild /\ (Marked = {} => r.data = Base)
    <3>1. g \in Published
      BY <2>2 DEF Current, Published
    <3> QED
      BY <2>4, <3>1, NumberTypes DEF DiskKeeps
  <2>6. gens' = [gens EXCEPT ![nextGen] = r]
    BY <1>2, <2>0 DEF Publish, PublishAs
  <2> HIDE DEF r
  <2>7. /\ DiskKeeps' /\ FactsStay /\ gens'[nextGen] = r /\ nextGen \notin Published
        /\ \A h : Current(h) => Current(h)'
    BY <1>0, <2>4, <2>5, <2>6, Grows
  <2>8. gens'[g] = gens[g] /\ Current(g)'
    BY <2>2, <2>6, <2>7 DEF Published, Current, TypeOK
  <2>9. PICK c : c = nextGen
    OBVIOUS
  <2>10. CopyOf(c, g)'
    BY <2>1, <2>4, <2>7, <2>8, <2>9 DEF CopyOf
  <2>11. cand'[p] = c /\ ptr'[p].gen = g /\ Current(ptr[p].gen)' /\ CopyOf(cand[p], ptr[p].gen)'
    BY <1>0, <2>0, <2>8, <2>9, <2>10
  <2>12. StartKeeps(p)'
    BY <1>0, <1>2, <2>0, <2>4, <2>7, <2>9, <2>11 DEF StartKeeps, BeginKeeps, BuildKeeps, CommitKeeps
  <2> QED
    BY <2>7, <2>12 DEF StoreStep
<1> QED
  BY <1>1, <1>2

LEMMA PointStores ==
    ASSUME TypeOK, DiskKeeps, NEW p \in Procs, build[p] = lastBuild, StartKeeps(p), Point(p)
    PROVE  StoreStep(p)
<1> USE DEF disk, local, budget, fixed, At, Goto
<1>0. UNCHANGED <<gens, nextGen, build, lastBuild, legacy, faceFile, ptr, cand>> /\ pc'[p] = "verify"
  BY DEF Point, TypeOK
<1>1. /\ cand[p] \in Gens /\ gens[cand[p]].status = "intact" /\ ~gens[cand[p]].healthy
      /\ gens[cand[p]].rev = build[p]
      /\ IF ptr[p].gen = NoGen THEN Marked = {}
         ELSE Current(ptr[p].gen) /\ CopyOf(cand[p], ptr[p].gen)
  BY DEF Point, StartKeeps, BuildKeeps
<1>2. /\ pointer'.st = "ok" /\ pointer'.gen = cand[p] /\ pointer'.prev = ptr[p].gen
      /\ pointer'.seq = gens[cand[p]].seq /\ pointer'.act = "pending"
  BY DEF Point, Pointer
<1>3. Leads(pointer')
  <2>1. CASE ptr[p].gen = NoGen
    BY <1>1, <1>2, <2>1 DEF Leads
  <2>2. CASE ptr[p].gen # NoGen
    BY <1>1, <1>2, <2>2 DEF Leads
  <2> QED
    BY <2>1, <2>2
<1>4. DiskKeeps' /\ FactsStay
  BY <1>0, <1>3, GensStay, NumberTypes
<1>5. StartKeeps(p)'
  BY <1>0, <1>1, <1>2 DEF StartKeeps, BeginKeeps, BuildKeeps, CommitKeeps
<1> QED
  BY <1>4, <1>5 DEF StoreStep

LEMMA BuildStores ==
    ASSUME TypeOK, DiskKeeps, NEW p \in Procs, build[p] = lastBuild, StartKeeps(p),
           Building(p) \/ BuildFails(p)
    PROVE  StoreStep(p)
<1> USE DEF disk, local, budget, fixed, At, Leave, Goto
<1>0. lastBuild \in Nat /\ lastBuild <= lastBuild
  BY NumberTypes
<1>1. CASE Create(p)
  <2>1. /\ UNCHANGED <<gens, nextGen, pointer, ptr, build, lastBuild, legacy, faceFile>>
        /\ pc'[p] = "publish" /\ pc[p] = "create" /\ snap'[p] = EmptySnap
    BY <1>1 DEF Create, Prepare, TypeOK
  <2>2. DiskKeeps' /\ FactsStay /\ Published' = Published
    BY <1>0, <2>1, GensStay
  <2>3. StartKeeps(p)'
    BY <2>1, <2>2 DEF StartKeeps, BeginKeeps, BuildKeeps, CommitKeeps
  <2> QED
    BY <2>2, <2>3 DEF StoreStep
<1>2. CASE Migrate(p)
  <2>1. /\ UNCHANGED <<gens, nextGen, pointer, ptr, build, lastBuild, legacy, faceFile>>
        /\ pc'[p] = "publish" /\ pc[p] = "migrate"
    BY <1>2 DEF Migrate, Prepare, TypeOK
  <2>2. Settled(ptr[p]) /\ gens[ptr[p].gen].rev < build[p] /\ ptr[p].gen # NoGen
    BY <2>1 DEF StartKeeps, BeginKeeps, Settled, Leads, Gens, NoGen
  <2>3. DiskKeeps' /\ FactsStay /\ Settled(ptr[p])'
    BY <1>0, <2>1, <2>2, GensStay
  <2>4. StartKeeps(p)'
    BY <2>1, <2>2, <2>3 DEF StartKeeps, BeginKeeps, BuildKeeps, CommitKeeps
  <2> QED
    BY <2>3, <2>4 DEF StoreStep
<1>3. CASE PublishRejected(p) \/ BuildFails(p)
  <2>1. UNCHANGED <<gens, nextGen, pointer, lastBuild, legacy, faceFile>> /\ pc'[p] = "failed"
    BY <1>3 DEF PublishRejected, BuildFails, RejectCandidate, TypeOK
  <2> QED
    BY <1>0, <2>1, GensStay, NothingKnown DEF StoreStep
<1>4. CASE Verify(p)
  <2>1. /\ UNCHANGED <<gens, nextGen, pointer, lastBuild, build, legacy, faceFile>>
        /\ pc'[p] = "failed" \/ (pc'[p] = "open" /\ active'[p] = cand[p])
    BY <1>4 DEF Verify, TypeOK
  <2>2. pointer.st # "none" /\ pointer.gen = cand[p] /\ cand[p] \in Gens /\ gens[cand[p]].rev = build[p]
    BY <1>4 DEF Verify, StartKeeps, BuildKeeps
  <2>3. DiskKeeps' /\ FactsStay
    BY <1>0, <2>1, GensStay
  <2>4. pc'[p] = "open" /\ active'[p] = cand[p] => StartKeeps(p)'
    BY <2>1, <2>2 DEF StartKeeps, BeginKeeps, BuildKeeps, CommitKeeps
  <2> QED
    BY <2>1, <2>3, <2>4, NothingKnown DEF StoreStep
<1> QED
  BY <1>1, <1>2, <1>3, <1>4, PublishStores, PointStores DEF Building

\* Opening a database changes none of its facts.
LEMMA OpenedFields ==
    ASSUME TypeOK, NEW a, gens' = [gens EXCEPT ![a] = Opened(gens[a])]
    PROVE  /\ SameFields /\ \A g \in Gens : ~faceFile => gens'[g].face = gens[g].face
           /\ a \in Gens /\ faceFile => gens'[a].face = "legacy"
<1>1. ASSUME NEW r \in GenRecord
      PROVE  /\ Opened(r).status = r.status /\ Opened(r).healthy = r.healthy /\ Opened(r).seq = r.seq
             /\ Opened(r).rev = r.rev /\ Opened(r).data = r.data
             /\ Opened(r).face = IF faceFile THEN "legacy" ELSE r.face
  BY DEF Opened, GenRecord
<1>2. /\ \A g \in Gens : gens[g] \in GenRecord /\ gens'[g] \in {gens[g], Opened(gens[g])}
      /\ a \in Gens => gens'[a] = Opened(gens[a])
  BY DEF TypeOK
<1>3. SameFields
  BY <1>1, <1>2 DEF SameFields
<1>4. \A g \in Gens : ~faceFile => gens'[g].face = gens[g].face
  BY <1>1, <1>2
<1>5. a \in Gens /\ faceFile => gens'[a].face = "legacy"
  BY <1>1, <1>2
<1> QED
  BY <1>3, <1>4, <1>5

LEMMA OpenStores ==
    ASSUME TypeOK, DiskKeeps, NEW p \in Procs, build[p] = lastBuild, StartKeeps(p), Open(p)
    PROVE  StoreStep(p)
<1> USE DEF disk, local, budget, fixed, At, Goto
<1>0. /\ UNCHANGED <<nextGen, build, lastBuild, legacy, faceFile, pointer, active>>
      /\ pc[p] = "open" /\ pc'[p] = "loaded" /\ lastBuild \in Nat /\ lastBuild <= lastBuild
  BY NumberTypes DEF Open, TypeOK
<1>1. SameFields /\ \A g \in Gens : ~faceFile => gens'[g].face = gens[g].face
  BY OpenedFields DEF Open
<1>2. pointer'.st = "ok" => Leads(pointer')
  BY <1>0 DEF DiskKeeps
<1>3. DiskKeeps' /\ FactsStay
  BY <1>0, <1>1, <1>2, SameDisk, MarksStay
<1>4. /\ pointer.st # "none" /\ pointer.gen = active[p] /\ active[p] \in Gens
      /\ gens[active[p]].rev = build[p]
  BY <1>0 DEF StartKeeps, CommitKeeps
<1>5. faceFile => gens'[active[p]].face = "legacy"
  BY <1>4, OpenedFields DEF Open
<1>6. gens'[active[p]].rev = build[p]
  BY <1>1, <1>4 DEF SameFields
<1>7. StartKeeps(p)'
  BY <1>0, <1>4, <1>5, <1>6 DEF StartKeeps, BeginKeeps, BuildKeeps, CommitKeeps
<1> QED
  BY <1>3, <1>7 DEF StoreStep

\* The pointer to a generation that has the newest marker, before and after.
LEMMA PointerAtTop ==
    ASSUME DiskKeeps, NEW a \in Gens, Top(a)', pointer' = pointer, pointer.gen = a,
           gens'[a].seq = gens[a].seq
    PROVE  pointer'.st = "ok" => Leads(pointer)'
BY DEF DiskKeeps, Leads, Top, Newest, Marked

LEMMA MarkStores ==
    ASSUME TypeOK, DiskKeeps, NEW p \in Procs, build[p] = lastBuild, StartKeeps(p), Mark(p)
    PROVE  StoreStep(p)
<1> USE DEF disk, local, budget, fixed, At, Goto
<1>1. PICK g : g = pointer.gen
  OBVIOUS
<1>2. /\ UNCHANGED <<nextGen, build, lastBuild, legacy, faceFile, pointer, active>>
      /\ pc[p] = "mark" /\ pc'[p] = "markPointer" /\ ptr'[p] = pointer /\ pointer.st = "ok"
      /\ pointer.act = "pending" /\ gens' = [gens EXCEPT ![g].healthy = TRUE]
  BY <1>1 DEF Mark, PointerPending, TypeOK
<1>3. active[p] = g
  BY <1>1, <1>2 DEF StartKeeps, CommitKeeps
<1>4. Leads(pointer)
  BY <1>2 DEF DiskKeeps
<1>5. g \in Gens /\ gens[g].status = "intact" /\ pointer.seq = gens[g].seq
  BY <1>1, <1>4 DEF Leads
<1>6. gens \in [Gens -> GenRecord]
  BY DEF TypeOK
<1>7. gens'[g].seq = gens[g].seq /\ gens'[g].face = gens[g].face
  BY <1>2, <1>5, <1>6 DEF GenRecord
<1>8. Top(g)' /\ FactsStay /\ (Leads(pointer)' => DiskKeeps')
  <2>1. CASE gens[g].healthy
    <3>1. gens[g].healthy = TRUE
      BY <1>5, <1>6, <2>1 DEF GenRecord
    <3>2. \A h \in Gens : /\ gens'[h].status = gens[h].status /\ gens'[h].healthy = gens[h].healthy
                          /\ gens'[h].seq = gens[h].seq /\ gens'[h].rev = gens[h].rev
                          /\ gens'[h].data = gens[h].data /\ gens'[h].face = gens[h].face
      BY <1>2, <1>5, <1>6, <3>1 DEF GenRecord
    <3>3. SameFields /\ \A h \in Gens : ~faceFile => gens'[h].face = gens[h].face
      BY <3>2 DEF SameFields
    <3>4. Top(g)
      BY <1>1, <1>4, <2>1 DEF Leads
    <3>5. DiskKeeps'
      BY <1>2, <1>4, <3>3, SameDisk, NumberTypes
    <3> QED
      BY <3>3, <3>4, <3>5, SameMarks, MarksStay
  <2>2. CASE ~gens[g].healthy
    <3>1. \/ Marked = {}
          \/ \E h \in Gens : Top(h) /\ gens[g].seq = gens[h].seq + 1 /\ gens[g].data = gens[h].data
      <4>1. Marked = {} \/ (Current(pointer.prev) /\ CopyOf(g, pointer.prev))
        BY <1>1, <1>4, <2>2 DEF Leads
      <4> QED
        BY <4>1 DEF Current, CopyOf
    <3> QED
      BY <1>2, <1>5, <2>2, <3>1, MarkedNext
  <2> QED
    BY <2>1, <2>2
<1>9. Leads(pointer)'
  BY <1>1, <1>2, <1>5, <1>7, <1>8, PointerAtTop
<1>10. StartKeeps(p)'
  <2>1. faceFile => gens'[g].face = "legacy"
    BY <1>2, <1>3, <1>7 DEF StartKeeps, CommitKeeps
  <2>2. ptr'[p].st = "ok" /\ ptr'[p].gen = active'[p] /\ ptr'[p].seq = gens'[active'[p]].seq
    BY <1>1, <1>2, <1>3, <1>5, <1>7
  <2>3. Top(active[p])'
    BY <1>2, <1>3, <1>8
  <2> QED
    BY <1>2, <1>3, <2>1, <2>2, <2>3 DEF StartKeeps, BeginKeeps, BuildKeeps, CommitKeeps
<1> QED
  BY <1>8, <1>9, <1>10 DEF StoreStep

LEMMA MarkPointerStores ==
    ASSUME TypeOK, DiskKeeps, NEW p \in Procs, build[p] = lastBuild, StartKeeps(p), MarkPointer(p)
    PROVE  StoreStep(p)
<1> USE DEF disk, local, budget, fixed, At, Goto
<1>1. /\ UNCHANGED <<gens, nextGen, build, lastBuild, legacy, faceFile, active>>
      /\ pc[p] = "markPointer" /\ pc'[p] = "prune" /\ ptr[p].gen \notin doomed'[p]
  BY DEF MarkPointer, WritePointer, TypeOK
<1>2. ptr[p].st = "ok" /\ ptr[p].gen = active[p] /\ ptr[p].seq = gens[active[p]].seq
  BY <1>1 DEF StartKeeps, CommitKeeps
<1>3. /\ pointer'.st = "ok" /\ pointer'.gen = ptr[p].gen /\ pointer'.seq = ptr[p].seq
  BY <1>2, CopyType DEF MarkPointer, WritePointer, PointerRecord
<1>4. active[p] \in Gens /\ Top(active[p])
  BY <1>1 DEF StartKeeps, CommitKeeps, Top, Newest, Marked
<1>5. Leads(pointer')
  BY <1>2, <1>3, <1>4, PointsAtTop
<1>6. DiskKeeps' /\ FactsStay /\ Top(active[p])'
  BY <1>1, <1>4, <1>5, GensStay, NumberTypes
<1>7. faceFile => gens[active[p]].face = "legacy"
  BY <1>1 DEF StartKeeps, CommitKeeps
<1>8. StartKeeps(p)'
  BY <1>1, <1>2, <1>3, <1>6, <1>7 DEF StartKeeps, BeginKeeps, BuildKeeps, CommitKeeps
<1> QED
  BY <1>6, <1>8 DEF StoreStep

\* What is pruned has not got the stored facts.
LEMMA PruneStores ==
    ASSUME TypeOK, DiskKeeps, NEW p \in Procs, build[p] = lastBuild, StartKeeps(p),
           NEW g \in Gens, Prune(p, g)
    PROVE  StoreStep(p)
<1> USE DEF disk, local, budget, fixed, At
<1>1. PICK a : a = active[p]
  OBVIOUS
<1>2. /\ UNCHANGED <<nextGen, build, lastBuild, legacy, faceFile, active, pointer, pc>>
      /\ pc[p] = "prune" /\ g \in doomed[p] /\ doomed'[p] \subseteq doomed[p]
  BY DEF Prune, TypeOK
<1>3. Top(a) /\ a \notin doomed[p] /\ pointer.st # "none" /\ pointer.gen = a
  BY <1>1, <1>2 DEF StartKeeps, CommitKeeps
<1>4. a \in Gens /\ a \in Marked /\ a # g
  BY <1>2, <1>3 DEF Top, Newest, Marked
<1>5. /\ \A h \in Gens \ {g} : gens'[h] = gens[h]
      /\ gens'[g].status # "intact" /\ (gens'[g].status # "absent" => gens'[g].rev = gens[g].rev /\ g \in Published)
  <2>1. gens[g] \in GenRecord /\ gens \in [Gens -> GenRecord]
    BY DEF TypeOK
  <2>2. CASE gens[g].status = "intact"
    <3>1. gens' = [gens EXCEPT ![g].status = "damaged"]
      BY <2>2 DEF Prune
    <3> QED
      BY <2>1, <2>2, <3>1 DEF GenRecord, Published
  <2>3. CASE gens[g].status # "intact"
    <3>1. gens' = [gens EXCEPT ![g] = Absent]
      BY <2>3 DEF Prune
    <3> QED
      BY <2>1, <3>1 DEF Absent
  <2> QED
    BY <2>2, <2>3
<1>6. Marked' = Marked \ {g} /\ Published' \subseteq Published
  BY <1>5 DEF Marked, Published
<1>7. \A h \in Marked' : Newer(a, h)' <=> Newer(a, h)
  BY <1>4, <1>5, <1>6 DEF Newer, Marked
<1>8. Top(a)'
  BY <1>3, <1>4, <1>6, <1>7 DEF Top, Newest
<1>9. gens'[a] = gens[a]
  BY <1>4, <1>5
<1>10. FactsStay
  BY <1>3, <1>4, <1>8, <1>9 DEF FactsStay
<1>11. pointer'.st = "ok" => Leads(pointer)'
  BY <1>2, <1>3, <1>4, <1>8, <1>9, PointerAtTop
<1>12. \A h \in Published' : gens'[h].rev <= lastBuild' /\ h < nextGen'
  <2> SUFFICES ASSUME NEW h \in Published' PROVE gens'[h].rev <= lastBuild' /\ h < nextGen'
    OBVIOUS
  <2>1. h \in Published /\ h \in Gens
    BY <1>6 DEF Published
  <2>2. gens'[h].rev = gens[h].rev
    BY <1>5, <2>1 DEF Published
  <2> QED
    BY <1>2, <2>1, <2>2 DEF DiskKeeps
<1>13. DiskKeeps'
  BY <1>4, <1>6, <1>8, <1>11, <1>12 DEF DiskKeeps
<1>14. faceFile => gens'[a].face = "legacy"
  BY <1>1, <1>2, <1>9 DEF StartKeeps, CommitKeeps
<1>15. active'[p] = a /\ a \notin doomed'[p] /\ Top(active[p])'
  BY <1>1, <1>2, <1>3, <1>8
<1>16. StartKeeps(p)'
  BY <1>2, <1>3, <1>14, <1>15 DEF StartKeeps, BeginKeeps, BuildKeeps, CommitKeeps
<1> QED
  BY <1>10, <1>13, <1>16 DEF StoreStep

\* A legacy face database goes only when its faces are in the newest generation.
LEMMA FinalizeStores ==
    ASSUME TypeOK, DiskKeeps, NEW p \in Procs, build[p] = lastBuild, StartKeeps(p), Finalize(p)
    PROVE  StoreStep(p)
<1> USE DEF disk, local, budget, fixed, At, Goto
<1>1. PICK a : a = active[p]
  OBVIOUS
<1>2. /\ UNCHANGED <<gens, nextGen, build, lastBuild, legacy, active, pointer>>
      /\ pc[p] = "finalize" /\ pc'[p] = "listen"
  BY DEF Finalize, TypeOK
<1>3. Top(a) /\ pointer.st # "none" /\ pointer.gen = a
  BY <1>1, <1>2 DEF StartKeeps, CommitKeeps
<1>4. SameFields /\ a \in Gens
  BY <1>2, <1>3 DEF SameFields, Top, Newest, Marked
<1>5. Top(a)' /\ Marked' = Marked /\ Published' = Published /\ \A g : Top(g)' <=> Top(g)
  BY <1>3, <1>4, SameMarks
<1>6. pointer'.st = "ok" => Leads(pointer)'
  BY <1>2, <1>3, <1>4, <1>5, PointerAtTop
<1>7. Base' = Base
  BY <1>2 DEF Base
<1>8. DiskKeeps'
  BY <1>2, <1>5, <1>6, <1>7 DEF DiskKeeps
<1>9. Top(active[p])'
  BY <1>1, <1>2, <1>5
<1>10. StartKeeps(p)'
  BY <1>1, <1>2, <1>3, <1>9 DEF StartKeeps, BeginKeeps, BuildKeeps, CommitKeeps
<1> QED
  BY <1>4, <1>8, <1>10, MarksStay DEF StoreStep

LEMMA CommitStores ==
    ASSUME TypeOK, DiskKeeps, NEW p \in Procs, build[p] = lastBuild, StartKeeps(p),
           Committing(p) \/ ArchiveFails(p) \/ Crash(p)
    PROVE  StoreStep(p)
<1> USE DEF disk, local, budget, fixed, At, Leave, Goto
<1>0. lastBuild \in Nat /\ lastBuild <= lastBuild
  BY NumberTypes
<1>1. CASE MarkNothing(p)
  <2>1. /\ UNCHANGED <<gens, nextGen, build, lastBuild, legacy, faceFile, active, pointer>>
        /\ pc[p] = "mark" /\ pc'[p] = "finalize"
    BY <1>1 DEF MarkNothing, TypeOK
  <2>2. DiskKeeps' /\ FactsStay /\ (Top(active[p]) => Top(active[p])')
    BY <1>0, <2>1, GensStay
  <2>3. /\ pointer.st # "none" /\ pointer.gen = active[p]
        /\ active[p] \in Gens /\ gens[active[p]].rev = build[p]
    BY <2>1 DEF StartKeeps, CommitKeeps
  <2>4. pointer.st = "ok" /\ pointer.act = "healthy"
    BY <1>1, <2>3 DEF MarkNothing
  <2>5. Leads(pointer)
    BY <2>4 DEF DiskKeeps
  <2>6. ~(gens[active[p]].rev < lastBuild)
    BY <2>3, NumberTypes
  <2>7. Top(active[p])
    BY <2>3, <2>4, <2>5, <2>6 DEF Leads
  <2>8. faceFile => gens[active[p]].face = "legacy"
    BY <2>1 DEF StartKeeps, CommitKeeps
  <2>9. StartKeeps(p)'
    BY <2>1, <2>2, <2>3, <2>7, <2>8 DEF StartKeeps, BeginKeeps, BuildKeeps, CommitKeeps
  <2> QED
    BY <2>2, <2>9 DEF StoreStep
<1>2. CASE MarkFails(p) \/ Crash(p)
  <2>1. UNCHANGED <<gens, nextGen, lastBuild, legacy, faceFile, pointer>> /\ pc'[p] \in {"failed", "off"}
    BY <1>2 DEF MarkFails, Crash, TypeOK
  <2> QED
    BY <1>0, <2>1, GensStay, NothingKnown DEF StoreStep
<1>3. CASE PruneDone(p) \/ ArchiveFails(p) \/ Listen(p)
  <2>1. /\ UNCHANGED <<gens, nextGen, build, lastBuild, legacy, faceFile, active, pointer>>
        /\ \/ pc[p] = "prune" /\ pc'[p] = "finalize"
           \/ pc[p] \in {"finalize", "listen"} /\ pc'[p] \in {"listen", "serving", "failed"}
    BY <1>3 DEF PruneDone, ArchiveFails, Listen, TypeOK
  <2>2. DiskKeeps' /\ FactsStay /\ (Top(active[p]) => Top(active[p])')
    BY <1>0, <2>1, GensStay
  <2>3. StartKeeps(p)'
    BY <2>1, <2>2 DEF StartKeeps, BeginKeeps, BuildKeeps, CommitKeeps
  <2> QED
    BY <2>2, <2>3 DEF StoreStep
<1> QED
  BY <1>1, <1>2, <1>3, OpenStores, MarkStores, MarkPointerStores, PruneStores, FinalizeStores
     DEF Committing

\* What a user does changes the newest generation alone.
LEMMA ServeStores ==
    ASSUME TypeOK, DiskKeeps, NEW p \in Procs, build[p] = lastBuild, StartKeeps(p), Serve(p)
    PROVE  /\ DiskKeeps' /\ StartKeeps(p)'
           /\ \/ FactsStay
              \/ \E g \in Gens, w \in Writes :
                    /\ Top(g) /\ Top(g)' /\ w \notin gens[g].data /\ gens'[g].data = gens[g].data \cup {w}
<1> USE DEF disk, local, budget, fixed, At
<1>1. PICK a : a = active[p]
  OBVIOUS
<1>2. /\ UNCHANGED <<nextGen, build, lastBuild, legacy, faceFile, active, pointer, pc>>
      /\ pc[p] = "serving"
      /\ \/ \E w \in Writes : w \notin gens[a].data /\ gens' = [gens EXCEPT ![a].data = @ \cup {w}]
         \/ \E face \in {"none", "enrolled"} : gens' = [gens EXCEPT ![a].face = face]
  BY <1>1 DEF Serve, Write, EditFace
<1>3. Top(a) /\ pointer.st # "none" /\ pointer.gen = a
  BY <1>1, <1>2 DEF StartKeeps, CommitKeeps
<1>4. a \in Gens /\ a \in Marked
  BY <1>3 DEF Top, Newest, Marked
<1>5. gens \in [Gens -> GenRecord] /\ gens[a] \in GenRecord
  BY <1>4 DEF TypeOK
<1>6. /\ \A h \in Gens \ {a} : gens'[h] = gens[h]
      /\ gens'[a].status = gens[a].status /\ gens'[a].healthy = gens[a].healthy
      /\ gens'[a].seq = gens[a].seq /\ gens'[a].rev = gens[a].rev
      /\ \/ gens'[a].data = gens[a].data
         \/ \E w \in Writes : w \notin gens[a].data /\ gens'[a].data = gens[a].data \cup {w}
  <2>1. CASE \E w \in Writes : w \notin gens[a].data /\ gens' = [gens EXCEPT ![a].data = @ \cup {w}]
    <3>1. PICK w \in Writes : w \notin gens[a].data /\ gens' = [gens EXCEPT ![a].data = gens[a].data \cup {w}]
      BY <2>1
    <3> QED
      BY <1>4, <1>5, <3>1 DEF GenRecord
  <2>2. CASE \E face \in {"none", "enrolled"} : gens' = [gens EXCEPT ![a].face = face]
    BY <1>4, <1>5, <2>2 DEF GenRecord
  <2> QED
    BY <1>2, <2>1, <2>2
<1>7. \A h \in Gens : /\ gens'[h].status = gens[h].status /\ gens'[h].healthy = gens[h].healthy
                      /\ gens'[h].seq = gens[h].seq /\ gens'[h].rev = gens[h].rev
  BY <1>6
<1>8. Marked' = Marked /\ Published' = Published
  BY <1>7 DEF Marked, Published
<1>9. \A g, h \in Gens : Newer(g, h)' <=> Newer(g, h)
  BY <1>7 DEF Newer
<1>10. Top(a)'
  BY <1>3, <1>4, <1>8, <1>9 DEF Top, Newest, Marked
<1>11. pointer'.st = "ok" => Leads(pointer)'
  BY <1>2, <1>3, <1>4, <1>6, <1>10, PointerAtTop
<1>12. \A h \in Published' : gens'[h].rev <= lastBuild' /\ h < nextGen'
  <2> SUFFICES ASSUME NEW h \in Published PROVE gens'[h].rev <= lastBuild' /\ h < nextGen'
    BY <1>8
  <2> QED
    BY <1>2, <1>7 DEF DiskKeeps, Published
<1>13. DiskKeeps'
  BY <1>4, <1>8, <1>10, <1>11, <1>12 DEF DiskKeeps
<1>14. StartKeeps(p)'
  <2>1. Top(active[p])'
    BY <1>1, <1>2, <1>10
  <2> QED
    BY <1>1, <1>2, <1>3, <2>1 DEF StartKeeps, BeginKeeps, BuildKeeps, CommitKeeps
<1> QED
  BY <1>3, <1>4, <1>6, <1>10, <1>13, <1>14 DEF FactsStay

\* A lost CURRENT.json still tells what it told, to a start that has read it.
LEMMA LostStores ==
    ASSUME TypeOK, StoreKeeps, LosePointer
    PROVE  StoreKeeps' /\ FactsStay
<1> USE DEF disk, local, fixed
<1>1. /\ UNCHANGED <<gens, nextGen, build, lastBuild, legacy, faceFile, active, pc, ptr, cand, snap, doomed>>
      /\ pointer' = [pointer EXCEPT !.st = "bad"] /\ lastBuild \in Nat /\ lastBuild <= lastBuild
  BY NumberTypes DEF LosePointer
<1>2. pointer'.st = "bad" /\ pointer'.gen = pointer.gen
  BY <1>1 DEF TypeOK, PointerRecord
<1>3. /\ DiskKeeps' /\ FactsStay /\ Marked' = Marked /\ Published' = Published
      /\ \A g : Top(g)' <=> Top(g)
      /\ \A g : Current(g)' <=> Current(g)
      /\ \A c, g \in Gens : CopyOf(c, g)' <=> CopyOf(c, g)
      /\ \A q : Leads(q) => Leads(q)'
      /\ \A q : Settled(q) => Settled(q)'
  BY <1>1, <1>2, GensStay DEF StoreKeeps
<1>4. ASSUME NEW p \in Procs PROVE build'[p] = lastBuild' /\ StartKeeps(p)'
  <2>1. build[p] = lastBuild /\ BeginKeeps(p) /\ BuildKeeps(p) /\ CommitKeeps(p)
    BY DEF StoreKeeps
  <2>2. BeginKeeps(p)'
    BY <1>1, <1>2, <1>3, <2>1 DEF BeginKeeps
  <2>3. BuildKeeps(p)'
    <3>1. pc[p] = "point" /\ ptr[p].gen # NoGen => ptr[p].gen \in Gens
      BY <2>1 DEF BuildKeeps, Current
    <3>2. pc[p] = "point" => /\ cand[p] \in Gens
                             /\ ptr[p].gen # NoGen => Current(ptr[p].gen)' /\ CopyOf(cand[p], ptr[p].gen)'
      BY <1>1, <1>3, <2>1, <3>1 DEF BuildKeeps
    <3> QED
      BY <1>1, <1>2, <1>3, <2>1, <3>2 DEF BuildKeeps
  <2>4. CommitKeeps(p)'
    BY <1>1, <1>2, <1>3, <2>1 DEF CommitKeeps
  <2> QED
    BY <1>1, <2>1, <2>2, <2>3, <2>4 DEF StartKeeps
<1> QED
  BY <1>3, <1>4 DEF StoreKeeps, StartKeeps

\* A user stores a fact.
FactStored ==
    \E g \in Gens, w \in Writes :
        Top(g) /\ Top(g)' /\ w \notin gens[g].data /\ gens'[g].data = gens[g].data \cup {w}

Trusted == faults \cap {"generation", "downgrade"} = {}

LEMMA StoreMoves ==
    ASSUME OneBackend, TypeOK, StoreKeeps, Next, Trusted'
    PROVE  StoreKeeps' /\ (FactsStay \/ FactStored)
<1>1. ASSUME NEW p \in Procs, StoreStep(p) \/ (DiskKeeps' /\ StartKeeps(p)' /\ FactStored), build'[p] = lastBuild'
      PROVE  StoreKeeps' /\ (FactsStay \/ FactStored)
  BY <1>1 DEF OneBackend, StoreStep, StartKeeps, StoreKeeps
<1>2. ASSUME NEW p \in Procs PROVE DiskKeeps /\ StartKeeps(p) /\ build[p] = lastBuild
  BY DEF StoreKeeps, StartKeeps
<1>3. ASSUME NEW p \in Procs, NEW b \in Builds, Start(p, b) PROVE StoreKeeps' /\ (FactsStay \/ FactStored)
  BY <1>1, <1>2, <1>3, BeginStores DEF Trusted
<1>4. ASSUME NEW p \in Procs, Proceed(p) \/ BuildFails(p) \/ ArchiveFails(p) \/ Crash(p)
      PROVE  StoreKeeps' /\ (FactsStay \/ FactStored)
  <2>1. build'[p] = build[p] /\ lastBuild' = lastBuild
    <3> USE DEF disk, local, budget, Leave
    <3>1. CASE Acquire(p) \/ AcquireTimeout(p) \/ Select(p) \/ Activate(p) \/ Check(p)
      BY <3>1 DEF Acquire, AcquireTimeout, Select, SelectPointer, SelectHealthy, SelectFirst, SelectRefuse,
                  SelectNone, Activate, Check
    <3>2. CASE Adoption(p)
      BY <3>2 DEF Adoption, Adopt, AdoptRejected, PublishAdoption, AdoptMarker, AdoptPointer, Prepare
    <3>3. CASE Building(p) \/ BuildFails(p)
      BY <3>3 DEF Building, Create, Migrate, Publish, PublishRejected, Point, Verify, Prepare, BuildFails,
                  RejectCandidate
    <3>4. CASE Committing(p) \/ ArchiveFails(p) \/ Crash(p)
      BY <3>4 DEF Committing, Open, MarkNothing, Mark, MarkFails, MarkPointer, Prune, PruneDone, Finalize,
                  Listen, ArchiveFails, Crash
    <3> QED
      BY <1>4, <3>1, <3>2, <3>3, <3>4 DEF Proceed
  <2>2. StoreStep(p)
    <3>1. CASE Acquire(p) \/ AcquireTimeout(p)
      BY <1>2, <3>1, BeginStores DEF Trusted
    <3>2. CASE Select(p) \/ Activate(p) \/ Check(p)
      BY <1>2, <3>2, SelectStores, ActivateStores, CheckStores
    <3>3. CASE Adoption(p) \/ Building(p) \/ BuildFails(p)
      BY <1>2, <3>3, AdoptionStores, BuildStores
    <3>4. CASE Committing(p) \/ ArchiveFails(p) \/ Crash(p)
      BY <1>2, <3>4, CommitStores
    <3> QED
      BY <1>4, <3>1, <3>2, <3>3, <3>4 DEF Proceed
  <2> QED
    BY <1>1, <1>2, <2>1, <2>2
<1>5. ASSUME NEW p \in Procs, Serve(p) PROVE StoreKeeps' /\ (FactsStay \/ FactStored)
  <2>1. build'[p] = build[p] /\ lastBuild' = lastBuild
    BY <1>5 DEF Serve, Write, EditFace, local, budget
  <2>2. StoreStep(p) \/ (DiskKeeps' /\ StartKeeps(p)' /\ FactStored)
    BY <1>2, <1>5, ServeStores DEF StoreStep, FactStored
  <2> QED
    BY <1>1, <1>2, <2>1, <2>2
<1>6. ASSUME NEW g \in Gens, DamageGeneration(g) PROVE FALSE
  BY <1>6 DEF DamageGeneration, Happens, Trusted
<1> QED
  BY <1>3, <1>4, <1>5, <1>6, LostStores DEF Next

\* The legacy database is written by no step, and no fault is forgotten.
LEMMA Stays == ASSUME Next PROVE UNCHANGED <<legacy, hadFaceFile>> /\ faults \subseteq faults'
<1> USE DEF fixed, budget, Happens
<1>1. ASSUME NEW p \in Procs,
             \/ \E b \in Builds : Start(p, b)
             \/ Acquire(p) \/ AcquireTimeout(p) \/ Select(p) \/ Activate(p) \/ Check(p)
      PROVE  UNCHANGED <<legacy, hadFaceFile>> /\ faults \subseteq faults'
  <2>1. ASSUME NEW b \in Builds, Start(p, b)
        PROVE  UNCHANGED <<legacy, hadFaceFile>> /\ faults \subseteq faults'
    BY <2>1 DEF Start
  <2>2. ASSUME Acquire(p) \/ AcquireTimeout(p) \/ Select(p) \/ Activate(p) \/ Check(p)
        PROVE  UNCHANGED <<legacy, hadFaceFile, faults>>
    BY <2>2 DEF Acquire, AcquireTimeout, Select, SelectPointer, SelectHealthy, SelectFirst, SelectRefuse,
                SelectNone, Activate, Check
  <2> QED
    BY <1>1, <2>1, <2>2
<1>2. ASSUME NEW p \in Procs, Adoption(p) PROVE UNCHANGED <<legacy, hadFaceFile, faults>>
  BY <1>2 DEF Adoption, Adopt, AdoptRejected, PublishAdoption, AdoptMarker, AdoptPointer, Prepare
<1>3. ASSUME NEW p \in Procs, Building(p) \/ BuildFails(p)
      PROVE  UNCHANGED <<legacy, hadFaceFile>> /\ faults \subseteq faults'
  <2>1. CASE BuildFails(p)
    BY <2>1 DEF BuildFails, RejectCandidate
  <2>2. ASSUME Building(p) PROVE UNCHANGED <<legacy, hadFaceFile, faults>>
    BY <2>2 DEF Building, Create, Migrate, Prepare, Publish, PublishRejected, RejectCandidate, Point, Verify
  <2> QED
    BY <1>3, <2>1, <2>2
<1>4. ASSUME NEW p \in Procs, Committing(p) \/ Serve(p) \/ Crash(p)
      PROVE  UNCHANGED <<legacy, hadFaceFile, faults>>
  BY <1>4 DEF Committing, Open, MarkNothing, Mark, MarkFails, MarkPointer, Prune, PruneDone, Finalize, Listen,
              Serve, Write, EditFace, Crash
<1>5. ASSUME NEW p \in Procs, ArchiveFails(p) PROVE UNCHANGED <<legacy, hadFaceFile>> /\ faults \subseteq faults'
  BY <1>5 DEF ArchiveFails
<1>6. CASE LosePointer \/ \E g \in Gens : DamageGeneration(g)
  BY <1>6 DEF LosePointer, DamageGeneration
<1> QED
  BY <1>1, <1>2, <1>3, <1>4, <1>5, <1>6 DEF Next, Proceed

StoreInv == Inv /\ (Trusted => StoreKeeps)

LEMMA StoreInit == ASSUME Init PROVE StoreInv
<1>1. Inv
  BY InvInit
<1>2. Marked = {} /\ Published = {}
  BY DEF Init, Marked, Published, Absent
<1>3. DiskKeeps
  BY <1>2 DEF DiskKeeps, Init, NoPointer, Pointer
<1>4. \A p \in Procs : build[p] = lastBuild /\ pc[p] = "off"
  BY DEF Init
<1>5. \A p \in Procs : BeginKeeps(p) /\ BuildKeeps(p) /\ CommitKeeps(p)
  BY <1>4 DEF BeginKeeps, BuildKeeps, CommitKeeps
<1> QED
  BY <1>1, <1>3, <1>4, <1>5 DEF StoreInv, StoreKeeps

\* Where the definitions of a state of the store look.
LEMMA StoreUnchanged ==
    ASSUME StoreKeeps, UNCHANGED vars
    PROVE  StoreKeeps'
<1> USE DEF vars, disk, local, observed, budget, fixed
<1>1. UNCHANGED <<Marked, Published, Base>>
  BY DEF Marked, Published, Base
<1>2. \A g : Top(g)' <=> Top(g)
  BY <1>1 DEF Top, Newest, Newer
<1>3. \A g : Current(g)' <=> Current(g)
  BY <1>1, <1>2 DEF Current
<1>4. \A c, g : CopyOf(c, g)' <=> CopyOf(c, g)
  BY DEF CopyOf
<1>5. \A q : Leads(q)' <=> Leads(q)
  BY <1>1, <1>2, <1>3, <1>4 DEF Leads
<1>6. \A q : Settled(q)' <=> Settled(q)
  BY <1>5 DEF Settled
<1>7. DiskKeeps'
  BY <1>1, <1>2, <1>5 DEF DiskKeeps, StoreKeeps
<1>8. ASSUME NEW p \in Procs PROVE build'[p] = lastBuild' /\ BeginKeeps(p)' /\ BuildKeeps(p)' /\ CommitKeeps(p)'
  <2>1. build[p] = lastBuild /\ BeginKeeps(p) /\ BuildKeeps(p) /\ CommitKeeps(p)
    BY DEF StoreKeeps
  <2>2. BeginKeeps(p)'
    BY <1>1, <1>2, <1>5, <1>6, <2>1 DEF BeginKeeps
  <2>3. BuildKeeps(p)'
    BY <1>1, <1>3, <1>4, <1>6, <2>1 DEF BuildKeeps
  <2>4. CommitKeeps(p)'
    BY <1>2, <2>1 DEF CommitKeeps
  <2> QED
    BY <2>1, <2>2, <2>3, <2>4
<1> QED
  BY <1>7, <1>8 DEF StoreKeeps

LEMMA StoreInvStep ==
    ASSUME OneBackend, StoreInv, [Next]_vars
    PROVE  StoreInv'
<1>1. Inv'
  BY InvStep DEF StoreInv
<1>2. CASE Next
  <2>1. Trusted' => Trusted
    BY <1>2, Stays DEF Trusted
  <2>2. Trusted' => StoreKeeps'
    BY <1>2, <2>1, StoreMoves DEF StoreInv, Inv
  <2> QED
    BY <1>1, <2>2 DEF StoreInv
<1>3. CASE UNCHANGED vars
  <2>1. Trusted' = Trusted
    BY <1>3 DEF Trusted, vars, budget
  <2> QED
    BY <1>1, <1>3, <2>1, StoreUnchanged DEF StoreInv
<1> QED
  BY <1>2, <1>3

\* What a start finds is a set of facts, whatever was damaged.
LEMMA StoredType == ASSUME TypeOK PROVE StoredFacts \in SUBSET Writes
<1>1. Committed \in Gens \cup {NoGen}
  BY DEF Committed, PointerValid, Valid, TypeOK, PointerRecord
<1>2. \A g \in Gens : gens[g].data \in SUBSET Writes
  <2>1. \A r \in GenRecord : r.data \in SUBSET Writes
    BY DEF GenRecord
  <2> QED
    BY <2>1 DEF TypeOK
<1> QED
  BY <1>1, <1>2, ConstantsAssumption DEF StoredFacts

LEMMA StoredWillBe == ASSUME TypeOK' PROVE StoredFacts' \in SUBSET Writes
<1>1. (TypeOK => StoredFacts \in SUBSET Writes)'
  BY StoredType, PTL
<1> QED
  BY <1>1

LEMMA StoredStays ==
    ASSUME TypeOK, TypeOK', DiskKeeps, DiskKeeps', legacy' = legacy, FactsStay
    PROVE  StoredFacts' = StoredFacts
<1>0. Base' = Base
  BY DEF Base
<1>1. /\ Marked = {} => StoredFacts = Base
      /\ \A g \in Gens : Top(g) => StoredFacts = gens[g].data
  BY CommittedIs
<1>2. /\ Marked' = {} => StoredFacts' = Base'
      /\ \A g \in Gens : Top(g)' => StoredFacts' = gens'[g].data
  BY CommittedWillBe
<1> QED
  BY <1>0, <1>1, <1>2 DEF FactsStay

\* Every step of a backend, a user or a failure is a step of the abstract store,
\* or none.
LEMMA StoreRefines ==
    ASSUME OneBackend, NoDowngrade, StoreInv, StoreInv', [Next]_vars
    PROVE  [Durable!Next]_<<StoredFacts, "generation" \in faults>>
<1>1. TypeOK /\ TypeOK'
  BY DEF StoreInv, Inv
<1>2. "downgrade" \notin faults /\ "downgrade" \notin faults'
  BY <1>1 DEF TypeOK, NoDowngrade
<1>3. CASE Next /\ "generation" \in faults'
  <2>1. Durable!Damaged
    BY <1>1, <1>3, StoredWillBe DEF Durable!Damaged
  <2> QED
    BY <2>1 DEF Durable!Next
<1>4. CASE Next /\ "generation" \notin faults'
  <2>1. "generation" \notin faults /\ Trusted /\ Trusted'
    BY <1>2, <1>4, Stays DEF Trusted
  <2>2. StoreKeeps /\ StoreKeeps' /\ (FactsStay \/ FactStored)
    BY <1>1, <1>4, <2>1, StoreMoves DEF StoreInv
  <2>3. CASE FactsStay
    <3>1. StoredFacts' = StoredFacts
      BY <1>1, <1>4, <2>2, <2>3, StoredStays, Stays DEF StoreKeeps
    <3> QED
      BY <1>4, <2>1, <3>1
  <2>4. CASE FactStored
    <3>1. PICK g \in Gens, w \in Writes :
            Top(g) /\ Top(g)' /\ w \notin gens[g].data /\ gens'[g].data = gens[g].data \cup {w}
      BY <2>4 DEF FactStored
    <3>2. StoredFacts = gens[g].data /\ StoredFacts' = gens'[g].data
      BY <1>1, <2>2, <3>1, CommittedIs, CommittedWillBe DEF StoreKeeps
    <3>3. Durable!Store(w)
      BY <1>4, <2>1, <3>1, <3>2 DEF Durable!Store
    <3> QED
      BY <3>3 DEF Durable!Next
  <2> QED
    BY <2>2, <2>3, <2>4
<1>5. CASE UNCHANGED vars
  <2>1. StoredFacts' = StoredFacts
    BY <1>5 DEF vars, disk, local, budget, fixed, StoredFacts, Committed, PointerValid, Valid,
                HealthyCandidates, Newest, Newer
  <2> QED
    BY <1>5, <2>1 DEF vars, budget
<1> QED
  BY <1>3, <1>4, <1>5

\* The generations implement the one set of facts: no start, crash, adoption,
\* migration, rollback, pruning, lost pointer or failed step of them ever changes
\* what the next start finds; only storing a fact does.
THEOREM StoreIsDurable ==
    ASSUME OneBackend, NoDowngrade
    PROVE  Spec => StoreNeverForgets
<1>1. Init => Durable!Init
  <2> SUFFICES ASSUME Init PROVE Durable!Init
    OBVIOUS
  <2>1. TypeOK /\ DiskKeeps /\ Marked = {} /\ faults = {}
    <3>1. StoreInv /\ faults = {}
      BY StoreInit DEF Init
    <3>2. Trusted
      BY <3>1 DEF Trusted
    <3>3. Marked = {}
      BY DEF Init, Marked, Absent
    <3> QED
      BY <3>1, <3>2, <3>3 DEF StoreInv, StoreKeeps, Inv
  <2>2. StoredFacts = Base
    BY <2>1, CommittedIs
  <2> QED
    BY <2>1, <2>2 DEF Durable!Init, Base
<1>2. Init => StoreInv
  BY StoreInit
<1>3. StoreInv /\ [Next]_vars => StoreInv'
  BY StoreInvStep
<1>4. StoreInv /\ StoreInv' /\ [Next]_vars => [Durable!Next]_<<StoredFacts, "generation" \in faults>>
  BY StoreRefines
<1> QED
  BY <1>1, <1>2, <1>3, <1>4, PTL DEF Spec, StoreNeverForgets, Durable!Spec

\* Nothing has failed that the face could be lost by.
Careful == faults \cap {"generation", "downgrade", "archive"} = {}

LEMMA AnyTop == TypeOK => \A g, h \in Gens : Top(g) /\ Top(h) => g = h
BY OneTop

LEMMA OneTopAfter ==
    ASSUME TypeOK'
    PROVE  \A g, h \in Gens : Top(g)' /\ Top(h)' => g = h
<1>1. (TypeOK => \A g, h \in Gens : Top(g) /\ Top(h) => g = h)'
  BY AnyTop, PTL
<1> QED
  BY <1>1

\* A step that leaves the faces of the published generations and the file alone.
LEMMA FacesStay ==
    ASSUME FaceKeeps, SameFields, UNCHANGED <<faceFile, hadFaceFile, userFace>>,
           \A g \in Gens : ~faceFile => gens'[g].face = gens[g].face,
           \A p \in Procs : pc'[p] \in {"listen", "serving"} => ~faceFile
    PROVE  FaceKeeps'
<1>1. Marked' = Marked /\ Published' = Published /\ \A g : Top(g)' <=> Top(g)
  BY SameMarks
<1>2. ~faceFile /\ Marked = {} =>
          ~hadFaceFile /\ userFace = "untouched" /\ \A g \in Published : gens'[g].face = "none"
  BY DEF FaceKeeps, Published
<1>3. Wanted' = Wanted
  BY DEF Wanted
<1>4. ~faceFile => \A g \in Gens : Top(g) => gens'[g].face = Wanted
  BY DEF FaceKeeps
<1> QED
  BY <1>1, <1>2, <1>3, <1>4 DEF FaceKeeps

\* Another generation is the newest: it is unused, or has the face of the last.
LEMMA FaceOfNext ==
    ASSUME TypeOK', FaceKeeps, UNCHANGED <<faceFile, hadFaceFile, userFace>>, Marked' # {},
           \A p \in Procs : pc'[p] \in {"listen", "serving"} => ~faceFile,
           NEW a \in Gens, Top(a)', ~faceFile => gens'[a].face = Wanted
    PROVE  FaceKeeps'
<1>1. \A g \in Gens : Top(g)' => g = a
  BY OneTopAfter
<1>2. Wanted' = Wanted
  BY DEF Wanted
<1> QED
  BY <1>1, <1>2 DEF FaceKeeps

\* The face a user wants is the one that a generation of no user has.
LEMMA WantedFirst ==
    ASSUME FaceKeeps, ~faceFile, Marked = {}, NEW g \in Published
    PROVE  gens[g].face = Wanted
<1>1. gens[g].face = "none" /\ ~hadFaceFile /\ userFace = "untouched"
  BY DEF FaceKeeps
<1> QED
  BY <1>1 DEF Wanted

LEMMA FaceOfPublish ==
    ASSUME TypeOK, TypeOK', DiskKeeps, FaceKeeps, NEW p \in Procs, StartKeeps(p),
           Publish(p) \/ PublishAdoption(p),
           \A q \in Procs : pc'[q] \in {"listen", "serving"} => ~faceFile
    PROVE  FaceKeeps'
<1> USE DEF disk, local, observed, budget, fixed, At, Goto
<1>1. /\ UNCHANGED <<faceFile, hadFaceFile, userFace>> /\ nextGen \in Gens
      /\ gens'[nextGen].face = snap[p].face /\ gens'[nextGen].healthy = FALSE
      /\ \A g \in Gens \ {nextGen} : gens'[g] = gens[g]
  BY DEF Publish, PublishAdoption, PublishAs, Candidate, TypeOK
<1>2. nextGen \notin Published
  BY <1>1, ConstantsAssumption DEF DiskKeeps, Gens
<1>3. nextGen \notin Marked /\ Marked \subseteq Gens /\ Published \subseteq Gens
  BY <1>2 DEF Marked, Published
<1>4. Marked' = Marked /\ Published' \subseteq Published \cup {nextGen}
  BY <1>1, <1>3 DEF Marked, Published
<1>5. \A g \in Gens : Top(g)' => Top(g) /\ g # nextGen
  <2>1. \A g, h \in Marked : Newer(g, h)' <=> Newer(g, h)
    BY <1>1, <1>3 DEF Newer
  <2> QED
    BY <1>3, <1>4, <2>1 DEF Top, Newest
<1>6. ASSUME ~faceFile, Marked = {} PROVE snap[p].face = "none"
  <2>1. CASE PublishAdoption(p)
    BY <2>1 DEF PublishAdoption, StartKeeps, BeginKeeps
  <2>2. CASE Publish(p) /\ ptr[p].gen = NoGen
    BY <2>2 DEF Publish, StartKeeps, BuildKeeps, EmptySnap
  <2>3. CASE Publish(p) /\ ptr[p].gen # NoGen
    <3>1. Settled(ptr[p]) /\ snap[p] = Contents(ptr[p].gen)
      BY <2>3 DEF Publish, StartKeeps, BuildKeeps, SourceUnchanged
    <3>2. ptr[p].gen \in Published
      BY <3>1 DEF Settled, Leads, Published
    <3> QED
      BY <1>6, <3>1, <3>2 DEF FaceKeeps, Contents
  <2> QED
    BY <2>1, <2>2, <2>3
<1>7. Wanted' = Wanted
  BY <1>1 DEF Wanted
<1>8. ~faceFile /\ Marked = {} =>
          ~hadFaceFile /\ userFace = "untouched" /\ \A g \in Published' : gens'[g].face = "none"
  BY <1>1, <1>2, <1>3, <1>4, <1>6 DEF FaceKeeps
<1>9. ~faceFile => \A g \in Gens : Top(g)' => gens'[g].face = Wanted
  BY <1>1, <1>5 DEF FaceKeeps
<1> QED
  BY <1>1, <1>4, <1>7, <1>8, <1>9 DEF FaceKeeps

LEMMA FaceOfMarks ==
    ASSUME TypeOK, TypeOK', DiskKeeps, DiskKeeps', FaceKeeps, NEW p \in Procs, StartKeeps(p), StartKeeps(p)',
           AdoptMarker(p) \/ Mark(p),
           \A q \in Procs : pc'[q] \in {"listen", "serving"} => ~faceFile
    PROVE  FaceKeeps'
<1> USE DEF disk, local, observed, budget, fixed, At, Goto
<1>1. UNCHANGED <<faceFile, hadFaceFile, userFace>>
  BY DEF AdoptMarker, Mark
<1>2. CASE AdoptMarker(p)
  <2>1. PICK a : a = cand[p]
    OBVIOUS
  <2>2. a \in Gens /\ gens[a].status = "intact" /\ Marked = {}
    BY <1>2, <2>1 DEF AdoptMarker, StartKeeps, BeginKeeps
  <2>3. gens' = [gens EXCEPT ![a].healthy = TRUE] /\ cand'[p] = a /\ pc'[p] = "adoptPointer"
    BY <1>2, <2>1 DEF AdoptMarker, TypeOK
  <2>4. gens'[a].face = gens[a].face
    BY <2>2, <2>3 DEF TypeOK, GenRecord
  <2>5. Top(a)' /\ Marked' # {}
    BY <2>3 DEF StartKeeps, BeginKeeps, Top, Newest
  <2>6. ~faceFile => gens'[a].face = Wanted
    BY <2>2, <2>4, WantedFirst DEF Published
  <2> QED
    BY <1>1, <2>2, <2>5, <2>6, FaceOfNext
<1>3. CASE Mark(p)
  <2>1. PICK a : a = pointer.gen
    OBVIOUS
  <2>2. /\ pointer.st = "ok" /\ pointer.act = "pending" /\ active'[p] = active[p] /\ pc[p] = "mark"
        /\ gens' = [gens EXCEPT ![a].healthy = TRUE] /\ pc'[p] = "markPointer"
    BY <1>3, <2>1 DEF Mark, PointerPending, TypeOK
  <2>3. active[p] = a
    BY <2>1, <2>2 DEF StartKeeps, CommitKeeps
  <2>4. Leads(pointer) /\ a \in Gens /\ gens[a].status = "intact"
    BY <2>1, <2>2 DEF DiskKeeps, Leads
  <2>5. gens'[a].face = gens[a].face
    BY <2>2, <2>4 DEF TypeOK, GenRecord
  <2>6. Top(a)' /\ Marked' # {}
    BY <2>2, <2>3 DEF StartKeeps, CommitKeeps, Top, Newest
  <2>7. ~faceFile => gens[a].face = Wanted
    <3> SUFFICES ASSUME ~faceFile PROVE gens[a].face = Wanted
      OBVIOUS
    <3>1. CASE Marked = {}
      BY <2>4, <3>1, WantedFirst DEF Published
    <3>2. CASE Marked # {}
      <4>1. CASE Top(a)
        BY <2>4, <4>1 DEF FaceKeeps
      <4>2. CASE Current(pointer.prev) /\ CopyOf(a, pointer.prev)
        BY <3>2, <4>2 DEF Current, CopyOf, FaceKeeps
      <4> QED
        BY <2>1, <2>4, <3>2, <4>1, <4>2 DEF Leads
    <3> QED
      BY <3>1, <3>2
  <2> QED
    BY <1>1, <2>4, <2>5, <2>6, <2>7, FaceOfNext
<1> QED
  BY <1>2, <1>3

LEMMA FaceOfPrune ==
    ASSUME TypeOK, TypeOK', FaceKeeps, NEW p \in Procs, StartKeeps(p), StartKeeps(p)',
           NEW g \in Gens, Prune(p, g),
           \A q \in Procs : pc'[q] \in {"listen", "serving"} => ~faceFile
    PROVE  FaceKeeps'
<1> USE DEF disk, local, observed, budget, fixed, At
<1>1. PICK a : a = active[p]
  OBVIOUS
<1>2. UNCHANGED <<faceFile, hadFaceFile, userFace>> /\ pc' = pc /\ pc[p] = "prune" /\ active'[p] = a
  BY <1>1 DEF Prune
<1>3. Top(a) /\ a # g /\ Top(a)'
  BY <1>1, <1>2 DEF Prune, StartKeeps, CommitKeeps
<1>4. a \in Gens /\ Marked' # {}
  BY <1>3 DEF Top, Newest, Marked
<1>5. gens'[a] = gens[a]
  BY <1>3, <1>4 DEF Prune, TypeOK
<1>6. ~faceFile => gens'[a].face = Wanted
  BY <1>3, <1>4, <1>5 DEF FaceKeeps
<1> QED
  BY <1>2, <1>3, <1>4, <1>6, FaceOfNext

LEMMA FaceOfEnd ==
    ASSUME TypeOK, TypeOK', FaceKeeps, NEW p \in Procs, StartKeeps(p), StartKeeps(p)',
           Finalize(p) \/ Serve(p)
    PROVE  FaceKeeps'
<1> USE DEF disk, local, observed, budget, fixed, At, Goto
<1>1. PICK a : a = active[p]
  OBVIOUS
<1>2. active'[p] = a /\ hadFaceFile' = hadFaceFile
  BY <1>1 DEF Finalize, Serve, Write, EditFace
<1>3. pc[p] \in {"finalize", "serving"} /\ pc'[p] \in {"listen", "serving"}
  BY DEF Finalize, Serve, Write, EditFace, TypeOK
<1>4. Top(a) /\ Top(a)'
  BY <1>1, <1>2, <1>3 DEF StartKeeps, CommitKeeps
<1>5. a \in Gens /\ Marked # {} /\ Marked' # {}
  BY <1>4 DEF Top, Newest, Marked
<1>6. \A g \in Gens : Top(g)' => g = a
  BY <1>4, <1>5, OneTopAfter
<1>7. ~faceFile'
  BY <1>3 DEF Finalize, Serve, Write, EditFace, FaceKeeps
<1>8. gens'[a].face = Wanted'
  <2>1. CASE Finalize(p)
    <3>1. gens' = gens /\ userFace' = userFace /\ pc[p] = "finalize"
      BY <2>1 DEF Finalize
    <3>2. Wanted' = Wanted
      BY <1>2, <3>1 DEF Wanted
    <3>3. CASE faceFile
      <4>1. gens[a].face = "legacy" /\ hadFaceFile /\ userFace = "untouched"
        BY <1>1, <3>1, <3>3 DEF StartKeeps, CommitKeeps, FaceKeeps
      <4> QED
        BY <3>1, <3>2, <4>1 DEF Wanted
    <3>4. CASE ~faceFile
      BY <1>4, <1>5, <3>1, <3>2, <3>4 DEF FaceKeeps
    <3> QED
      BY <3>3, <3>4
  <2>2. ASSUME NEW w \in Writes, Write(p, w) PROVE gens'[a].face = Wanted'
    <3>1. gens' = [gens EXCEPT ![a].data = gens[a].data \cup {w}] /\ userFace' = userFace /\ faceFile' = faceFile
      BY <1>1, <2>2 DEF Write
    <3>2. Wanted' = Wanted
      BY <1>2, <3>1 DEF Wanted
    <3>3. gens'[a].face = gens[a].face
      BY <1>5, <3>1 DEF TypeOK, GenRecord
    <3> QED
      BY <1>4, <1>5, <1>7, <3>1, <3>2, <3>3 DEF FaceKeeps
  <2>3. ASSUME NEW face \in {"none", "enrolled"}, EditFace(p, face) PROVE gens'[a].face = Wanted'
    <3>1. /\ gens' = [gens EXCEPT ![a].face = face]
          /\ userFace' = IF face = "none" THEN "removed" ELSE "enrolled"
      BY <1>1, <2>3 DEF EditFace
    <3>2. gens'[a].face = face
      BY <1>5, <3>1 DEF TypeOK, GenRecord
    <3> QED
      BY <3>1, <3>2 DEF Wanted
  <2> QED
    BY <2>1, <2>2, <2>3 DEF Serve
<1> QED
  BY <1>5, <1>6, <1>7, <1>8 DEF FaceKeeps

LEMMA FaceMoves ==
    ASSUME OneBackend, TypeOK, TypeOK', StoreKeeps, StoreKeeps', FaceKeeps, Next, Careful'
    PROVE  FaceKeeps'
<1> USE DEF disk, local, observed, budget, fixed, At, Leave, Goto
<1>0. \A p \in Procs : StartKeeps(p) /\ StartKeeps(p)'
  BY DEF StoreKeeps, StartKeeps
<1>1. ASSUME gens' = gens, UNCHANGED <<faceFile, hadFaceFile, userFace>>,
             \A p \in Procs : pc'[p] \in {"listen", "serving"} => ~faceFile
      PROVE  FaceKeeps'
  <2>1. SameFields /\ \A g \in Gens : ~faceFile => gens'[g].face = gens[g].face
    BY <1>1 DEF SameFields
  <2> QED
    BY <1>1, <2>1, FacesStay
<1>2. ASSUME NEW p \in Procs, pc'[p] \notin {"listen", "serving"} \/ pc[p] \in {"listen", "serving"}
      PROVE  \A q \in Procs : pc'[q] \in {"listen", "serving"} => ~faceFile
  BY <1>2 DEF OneBackend, FaceKeeps
<1>3. ASSUME NEW p \in Procs,
             \/ \E b \in Builds : Start(p, b)
             \/ Acquire(p) \/ AcquireTimeout(p) \/ Select(p) \/ Activate(p) \/ Check(p)
      PROVE  FaceKeeps'
  <2>1. /\ gens' = gens /\ UNCHANGED <<faceFile, hadFaceFile, userFace>>
        /\ pc'[p] \notin {"listen", "serving"}
    <3>1. CASE \E b \in Builds : Start(p, b)
      BY <3>1 DEF Start, TypeOK
    <3>2. CASE Acquire(p) \/ AcquireTimeout(p)
      BY <3>2 DEF Acquire, AcquireTimeout, TypeOK
    <3>3. CASE SelectPointer(p) \/ SelectHealthy(p) \/ SelectRefuse(p) \/ SelectNone(p)
      BY <3>3 DEF SelectPointer, SelectHealthy, SelectRefuse, SelectNone, TypeOK
    <3>4. CASE SelectFirst(p)
      BY <3>4 DEF SelectFirst, TypeOK
    <3>5. CASE Activate(p)
      BY <3>5 DEF Activate, TypeOK
    <3>6. CASE Check(p)
      BY <3>6 DEF Check, TypeOK
    <3> QED
      BY <1>3, <3>1, <3>2, <3>3, <3>4, <3>5, <3>6 DEF Select
  <2> QED
    BY <1>1, <1>2, <2>1
<1>4. ASSUME NEW p \in Procs,
             \/ Adopt(p) \/ AdoptRejected(p) \/ AdoptPointer(p) \/ Create(p) \/ Migrate(p)
             \/ PublishRejected(p) \/ BuildFails(p) \/ Point(p) \/ Verify(p)
             \/ MarkNothing(p) \/ MarkFails(p) \/ MarkPointer(p) \/ PruneDone(p) \/ Listen(p) \/ Crash(p)
      PROVE  FaceKeeps'
  <2>1. /\ gens' = gens /\ UNCHANGED <<faceFile, hadFaceFile, userFace>>
        /\ pc'[p] \notin {"listen", "serving"} \/ pc[p] = "listen"
    <3>1. CASE Adopt(p) \/ AdoptRejected(p) \/ AdoptPointer(p) \/ Create(p) \/ Migrate(p)
      BY <3>1 DEF Adopt, AdoptRejected, AdoptPointer, Create, Migrate, Prepare, TypeOK
    <3>2. CASE PublishRejected(p) \/ BuildFails(p) \/ Point(p) \/ Verify(p)
      BY <3>2 DEF PublishRejected, BuildFails, RejectCandidate, Point, Verify, TypeOK
    <3>3. CASE MarkNothing(p) \/ MarkFails(p) \/ MarkPointer(p) \/ PruneDone(p) \/ Listen(p) \/ Crash(p)
      BY <3>3 DEF MarkNothing, MarkFails, MarkPointer, PruneDone, Listen, Crash, TypeOK
    <3> QED
      BY <1>4, <3>1, <3>2, <3>3
  <2> QED
    BY <1>1, <1>2, <2>1
<1>5. ASSUME NEW p \in Procs, Publish(p) \/ PublishAdoption(p) PROVE FaceKeeps'
  <2>1. pc'[p] \notin {"listen", "serving"}
    BY <1>5 DEF Publish, PublishAdoption, TypeOK
  <2> QED
    BY <1>0, <1>2, <1>5, <2>1, FaceOfPublish DEF StoreKeeps
<1>6. ASSUME NEW p \in Procs, AdoptMarker(p) \/ Mark(p) PROVE FaceKeeps'
  <2>1. pc'[p] \notin {"listen", "serving"}
    BY <1>6 DEF AdoptMarker, Mark, TypeOK
  <2> QED
    BY <1>0, <1>2, <1>6, <2>1, FaceOfMarks DEF StoreKeeps
<1>7. ASSUME NEW p \in Procs, NEW g \in Gens, Prune(p, g) PROVE FaceKeeps'
  <2>1. pc'[p] \notin {"listen", "serving"}
    BY <1>7 DEF Prune
  <2> QED
    BY <1>0, <1>2, <1>7, <2>1, FaceOfPrune
<1>8. ASSUME NEW p \in Procs, Open(p) PROVE FaceKeeps'
  <2>1. pc'[p] \notin {"listen", "serving"} /\ UNCHANGED <<faceFile, hadFaceFile, userFace>>
    BY <1>8 DEF Open, TypeOK
  <2>2. SameFields /\ \A g \in Gens : ~faceFile => gens'[g].face = gens[g].face
    BY <1>8, OpenedFields DEF Open
  <2> QED
    BY <1>2, <2>1, <2>2, FacesStay
<1>9. ASSUME NEW p \in Procs, Finalize(p) \/ Serve(p) PROVE FaceKeeps'
  BY <1>0, <1>9, FaceOfEnd
<1>10. ASSUME NEW p \in Procs, ArchiveFails(p) PROVE FALSE
  BY <1>10 DEF ArchiveFails, Happens, Careful
<1>11. CASE LosePointer
  BY <1>1, <1>11 DEF LosePointer, FaceKeeps
<1>12. ASSUME NEW g \in Gens, DamageGeneration(g) PROVE FALSE
  BY <1>12 DEF DamageGeneration, Happens, Careful
<1> QED
  BY <1>3, <1>4, <1>5, <1>6, <1>7, <1>8, <1>9, <1>10, <1>11, <1>12
     DEF Next, Proceed, Adoption, Building, Committing

FaceInv == StoreInv /\ (Careful => FaceKeeps)

LEMMA FaceInit == ASSUME Init PROVE FaceInv
<1>1. StoreInv
  BY StoreInit
<1>2. Published = {} /\ \A g \in Gens : ~Top(g)
  BY DEF Init, Published, Absent, Top, Newest, Marked
<1>3. FaceKeeps
  BY <1>2 DEF Init, FaceKeeps
<1> QED
  BY <1>1, <1>3 DEF FaceInv

LEMMA FaceInvStep ==
    ASSUME OneBackend, FaceInv, [Next]_vars
    PROVE  FaceInv'
<1>1. StoreInv /\ StoreInv'
  BY StoreInvStep DEF FaceInv
<1>2. TypeOK /\ TypeOK'
  BY <1>1 DEF StoreInv, Inv
<1>3. CASE Next
  <2>1. Careful' => Careful /\ Trusted /\ Trusted'
    BY <1>3, Stays DEF Careful, Trusted
  <2>2. Careful' => FaceKeeps'
    BY <1>1, <1>2, <1>3, <2>1, FaceMoves DEF FaceInv, StoreInv
  <2> QED
    BY <1>1, <2>2 DEF FaceInv
<1>4. CASE UNCHANGED vars
  <2> USE DEF vars, disk, local, observed, budget, fixed
  <2>1. UNCHANGED <<Marked, Published, Wanted>>
    BY <1>4 DEF Marked, Published, Wanted
  <2>2. \A g : Top(g)' <=> Top(g)
    BY <1>4, <2>1 DEF Top, Newest, Newer
  <2>3. Careful' = Careful
    BY <1>4 DEF Careful
  <2>4. FaceKeeps => FaceKeeps'
    BY <1>4, <2>1, <2>2 DEF FaceKeeps
  <2> QED
    BY <1>1, <2>3, <2>4 DEF FaceInv
<1> QED
  BY <1>3, <1>4

\* Importing the legacy face database, whatever start does it and whatever
\* interrupts it, neither loses a face nor brings one back that its user replaced
\* or removed.
THEOREM FaceIsKept ==
    ASSUME OneBackend
    PROVE  Spec => []FaceAsUserLeftIt
<1>1. FaceInv => FaceAsUserLeftIt
  <2> SUFFICES ASSUME FaceInv, NEW p \in Procs, pc[p] = "serving",
                      faults \cap {"archive", "generation", "downgrade"} = {}
               PROVE  gens[active[p]].face = Wanted
    BY DEF FaceAsUserLeftIt, Wanted
  <2>1. FaceKeeps /\ StoreKeeps
    BY DEF FaceInv, StoreInv, Careful, Trusted
  <2>2. Top(active[p]) /\ active[p] \in Gens /\ ~faceFile
    BY <2>1 DEF StoreKeeps, CommitKeeps, FaceKeeps, Top, Newest, Marked
  <2> QED
    BY <2>1, <2>2 DEF FaceKeeps
<1> QED
  BY <1>1, FaceInit, FaceInvStep, PTL DEF Spec
================================================================================
