---------------------------- MODULE EnrollmentProofs ----------------------------
(***************************************************************************)
(* Proofs about who is added and photographed for whom, of the form, the   *)
(* service and the covers together (Enrollment, FaceEnrollment, Desktop):  *)
(* for any groups, members, lists and sizes of a request, and however      *)
(* requests are repeated, corrected, lost or left behind, a person is      *)
(* added once and a face is stored for whom it was taken of.  And that the *)
(* panel of the group settles, for which GroupSettingsProofs has the steps *)
(* and this the numbers that steps take.                                   *)
(***************************************************************************)
EXTENDS GroupSettingsProofs, FiniteSetTheorems, WellFoundedInduction

(***************************************************************************)
(* Whose key it is.  A key, a token included, means one person wherever it *)
(* is held: by a member, a face, the form, the rows of a list or of a      *)
(* request, the queue, the camera, the photos and what they ask for.  And  *)
(* of what may add members each person has one key.  Beside that: what the *)
(* records are, that one request of the form counts, that a list and what  *)
(* is pending and completed of it are of the same entries.                 *)
(***************************************************************************)
Keys == Nat \cup Members
Old(k) == k \in Members \/ (k \in Nat /\ k <= fresh)

NameType == {0, 1}
KeyType == [entry : Nat, name : NameType]
RowType == [id : Nat, entry : Nat, name : NameType]
FaceType == [id : Nat, of : Keys, file : Nat, new : BOOLEAN, member : Keys \cup {None}]
PersonType == [id : Keys, group : NoGroupOr, intent : Keys, name : NameType]
FormType == [open : BOOLEAN, many : BOOLEAN, entry : Nat, name : NameType, saved : Nat \cup {None},
             request : {None} \cup [id : Nat, name : NameType], busy : BOOLEAN, section : BOOLEAN,
             checking : BOOLEAN, photo : {None} \cup [of : Nat]]
ListType == [file : SUBSET KeyType, text : SUBSET KeyType, pending : SUBSET RowType,
             completed : SUBSET RowType, includes : BOOLEAN]
AddType == [kind : {"member", "face", "rows"}, latest : BOOLEAN, created : BOOLEAN, group : NoGroupOr,
            photo : {None} \cup [of : Nat], got : [at : {"waiting", "saved", "failed"}, ids : SUBSET Nat],
            rows : SUBSET RowType]

\* Key and person, wherever they are held together.
Meant(rows) == {<<r.id, r.entry>> : r \in rows}
OfFaces(found) == {<<f.member, f.of>> : f \in {g \in found : g.member # None}}

PeopleMean == {<<p.id, p.intent>> : p \in people}
FacesMean == {<<f.member, f.of>> : f \in faces}
FormMeans == {<<k, form.entry>> :
                 k \in ({form.saved} \cup IF form.request = None THEN {} ELSE {form.request.id}) \ {None}}
ListMeans == Meant(bulk.pending \cup bulk.completed)
AddsMean == UNION {Meant(a.rows) : a \in adds}
QueueMeans == {<<queue.members[i], queue.persons[i]>> : i \in DOMAIN queue.members}
CaptureMeans == IF capture.member = None THEN {} ELSE {<<capture.member, capture.person>>}
PhotosMean == OfFaces(photos.found)
ShotMeans(q) == IF q.kind \in {"queue", "single"} THEN {<<q.member, q.of>>}
                ELSE IF q.kind = "photos" THEN OfFaces(q.faces) ELSE {}
ShotsMean == UNION {ShotMeans(q) : q \in shots}

FormsMean == FormMeans \cup ListMeans \cup AddsMean
CoversMean == QueueMeans \cup CaptureMeans \cup PhotosMean \cup ShotsMean
Means == PeopleMean \cup FacesMean \cup FormsMean \cup CoversMean

OnePerson == "removed" \notin doubts => \A b, c \in Means : b[1] = c[1] => b[2] = c[2]
MeansOld == fresh \in Nat /\ \A b \in Means : Old(b[1]) /\ Old(b[2])

\* The members.
PeopleKnown ==
    /\ people \subseteq PersonType /\ faces \subseteq [member : Keys, of : Keys]
    /\ "removed" \notin doubts => \A p, q \in people : p.id = q.id => p = q

\* The form.
FormKnown ==
    /\ form \in FormType /\ form.entry <= fresh
    /\ form.photo # None => form.photo.of = form.entry
    /\ \A c \in checks : c \in [of : Nat, latest : BOOLEAN] /\ (c.latest => form.open /\ c.of = form.entry)
    /\ ~form.open => form = NoForm /\ bulk = NoBulk

\* Its list.
OneEach(rows) == \A r, s \in rows : r.entry = s.entry => r = s

\* A request of the list that counts.
Sending(a) == a.latest /\ a.kind = "rows"

ListKnown ==
    /\ bulk \in ListType
    /\ Entries(bulk.file) \subseteq (1 .. fresh) \ {form.entry}
    /\ Entries(bulk.text) \cup Entries(bulk.pending) \cup Entries(bulk.completed) \subseteq Entries(bulk.file)
    /\ OneEach(bulk.text) /\ OneEach(bulk.file) /\ OneEach(bulk.pending)
    /\ bulk.includes => bulk.completed # {}
    /\ \A a \in adds : Sending(a) => Entries(a.rows) \subseteq Entries(bulk.file)

\* What was sent of it.
Sent == bulk.pending \cup bulk.completed

ListKept == "removed" \notin doubts =>
    /\ OneEach(Sent) /\ bulk.pending \cap bulk.completed = {}
    /\ (\A a \in adds : ~Sending(a)) =>
          Entries(bulk.text) = IF bulk.includes \/ Sent = {} THEN Entries(bulk.file) ELSE Entries(bulk.pending)
    /\ Sent # {} => Entries(bulk.file) = Entries(bulk.pending) \cup Entries(bulk.completed)
    /\ \A a \in adds : Sending(a) => a.rows \subseteq bulk.pending

\* Its requests.
AddSound(a) ==
    /\ a \in AddType
    /\ a.rows # {} /\ OneEach(a.rows)
    /\ a.kind # "rows" => a.rows = {Row(a)} /\ (a.photo # None => a.photo.of = Row(a).entry)
    /\ a.kind = "face" => a.photo # None
    /\ a.got.ids \subseteq {r.id : r \in Chunk(a)}

AddsSound ==
    /\ \A a \in adds : AddSound(a)
    /\ \A a, b \in adds : a.latest /\ b.latest => a = b
    /\ \A a \in adds : a.latest => form.open /\ form.busy /\ (a.kind # "rows" => Row(a).entry = form.entry)

FormSide == FormKnown /\ ListKnown /\ ListKept /\ AddsSound

\* The covers.
QueueKnown ==
    /\ Fields(queue, {"open", "members", "persons", "status", "index", "busy", "jumps", "done"})
    /\ DOMAIN queue.members \subseteq Nat
    /\ DOMAIN queue.status = DOMAIN queue.members
    /\ queue.jumps \subseteq DOMAIN queue.members
    /\ queue.open => queue.index \in DOMAIN queue.members
    /\ \A q \in shots : q.kind = "queue" /\ q.latest => queue.open /\ DOMAIN q.status = DOMAIN queue.members

CaptureKnown ==
    /\ Fields(capture, {"member", "person", "frame", "busy"})
    /\ capture.frame # None => Fields(capture.frame, {"id", "of", "at"}) /\ capture.frame.of = capture.person

Detecting(q) == q.kind = "detect" /\ q.latest

FilesKnown ==
    /\ Fields(photos, {"open", "among", "files", "found", "detecting", "enrolling", "results"})
    /\ photos.found \subseteq FaceType /\ photos.files \in Seq(Keys)
    /\ \A f \in photos.found : f.file \in DOMAIN photos.files /\ photos.files[f.file] = f.of /\ Old(f.of)
    /\ ~photos.open => photos.found = {}
    /\ \A q \in shots : Detecting(q) =>
          photos.open /\ photos.detecting /\ q.file \in DOMAIN photos.files /\ photos.files[q.file] = q.of
    /\ \A q, r \in shots : Detecting(q) /\ Detecting(r) => q = r

ShotSound(q) ==
    /\ Fields(q, {"kind", "latest"})
    /\ q.kind \in {"queue", "frame", "single", "detect", "photos"}
    /\ q.kind \in {"queue", "single"} => Fields(q, {"at", "member", "of", "got"})
    /\ q.kind = "queue" => Fields(q, {"index", "status"}) /\ q.index \in DOMAIN q.status
    /\ q.kind = "detect" => Fields(q, {"of", "file"}) /\ q.of \in Keys /\ Old(q.of)
    /\ q.kind = "photos" =>
          /\ Fields(q, {"at", "faces", "tried", "files", "created", "got"})
          /\ \A f \in q.faces : f \in FaceType /\ q.files[f.file] = f.of /\ Old(f.of)

ShotsSound == \A q \in shots : ShotSound(q)

CoverSide == QueueKnown /\ CaptureKnown /\ FilesKnown /\ ShotsSound

OneDialog == form.open => ~photos.open

\* What may add a member, and the photos of somebody new.
Creating(a) == a.kind # "face" /\ (a.latest \/ Awaited(a))
FormsAdd == FormMeans \cup ListMeans \cup UNION {Meant(a.rows) : a \in {b \in adds : Creating(b)}}
Added == PeopleMean \cup FormsAdd
NewFaces == {f \in photos.found : f.member = None}

Certain == doubts \cap {"renamed", "tokenless", "removed"} = {}

OneKey ==
    /\ \A b, c \in Added : b[2] = c[2] => b[1] = c[1]
    /\ \A f \in NewFaces : \A b \in Added : b[2] # f.of
    /\ \A f, g \in NewFaces : f.of = g.of => f = g
    /\ \A q \in shots : Detecting(q) => \A f \in NewFaces : f.of # q.of

\* Entries that nothing was asked for yet are nobody's.
Unused ==
    /\ form.request # None => form.request.name = form.name
    /\ form.open /\ form.request = None /\ form.saved = None => \A b \in Added : b[2] # form.entry
    /\ Sent = {} => \A b \in Added : b[2] \notin Entries(bulk.file)

KeysInv ==
    /\ MeansOld /\ OnePerson /\ PeopleKnown /\ FormSide /\ CoverSide /\ OneDialog
    /\ Certain => OneKey /\ Unused

LEMMA LeastExists ==
    ASSUME NEW T \in SUBSET Nat, T # {}
    PROVE  \E m \in T : \A n \in T : m <= n
PROOF
<1>1. IsWellFoundedOn(OpToRel(<, Nat), Nat)  BY NatLessThanWellFounded
<1>2. \E m \in T : \A n \in T : <<n, m>> \notin OpToRel(<, Nat)  BY <1>1, WFMin
<1>3. \A m, n \in Nat : <<n, m>> \notin OpToRel(<, Nat) => m <= n  BY DEF OpToRel
<1> QED  BY <1>2, <1>3

LEMMA StaysOld ==
    ASSUME fresh \in Nat, fresh' \in Nat, fresh <= fresh', NEW k, Old(k)
    PROVE  Old(k)'
PROOF BY DEF Old

\* Who is meant is held by the variables one by one.
LEMMA Same ==
    /\ UNCHANGED people => PeopleMean' = PeopleMean
    /\ UNCHANGED faces => FacesMean' = FacesMean
    /\ UNCHANGED form => FormMeans' = FormMeans
    /\ UNCHANGED bulk => ListMeans' = ListMeans
    /\ UNCHANGED adds => AddsMean' = AddsMean
    /\ UNCHANGED queue => QueueMeans' = QueueMeans
    /\ UNCHANGED capture => CaptureMeans' = CaptureMeans
    /\ UNCHANGED photos => PhotosMean' = PhotosMean /\ NewFaces' = NewFaces
    /\ UNCHANGED shots => ShotsMean' = ShotsMean
    /\ UNCHANGED <<form, bulk, adds>> => FormsMean' = FormsMean /\ FormsAdd' = FormsAdd
    /\ UNCHANGED <<queue, capture, photos, shots>> => CoversMean' = CoversMean
PROOF
<1>1. UNCHANGED people => PeopleMean' = PeopleMean  BY DEF PeopleMean
<1>2. UNCHANGED faces => FacesMean' = FacesMean  BY DEF FacesMean
<1>3. UNCHANGED form => FormMeans' = FormMeans  BY DEF FormMeans
<1>4. UNCHANGED bulk => ListMeans' = ListMeans  BY DEF ListMeans
<1>5. UNCHANGED adds => AddsMean' = AddsMean  BY DEF AddsMean
<1>6. UNCHANGED queue => QueueMeans' = QueueMeans  BY DEF QueueMeans
<1>7. UNCHANGED capture => CaptureMeans' = CaptureMeans  BY DEF CaptureMeans
<1>8. UNCHANGED photos => PhotosMean' = PhotosMean /\ NewFaces' = NewFaces  BY DEF PhotosMean, NewFaces
<1>9. UNCHANGED shots => ShotsMean' = ShotsMean  BY DEF ShotsMean, ShotMeans
<1>10. UNCHANGED adds => {a \in adds : Creating(a)}' = {a \in adds : Creating(a)}
    BY DEF Creating, Awaited
<1>11. UNCHANGED <<form, bulk, adds>> => FormsMean' = FormsMean /\ FormsAdd' = FormsAdd
    BY <1>3, <1>4, <1>5 DEF FormsMean, FormsAdd, Creating, Awaited
<1>12. UNCHANGED <<queue, capture, photos, shots>> => CoversMean' = CoversMean
    BY <1>6, <1>7, <1>8, <1>9 DEF CoversMean
<1> QED  BY <1>1, <1>2, <1>3, <1>4, <1>5, <1>6, <1>7, <1>8, <1>9, <1>11, <1>12

LEMMA MeansParts ==
    ASSUME NEW S, PeopleMean' \subseteq S, FacesMean' \subseteq S, FormsMean' \subseteq S, CoversMean' \subseteq S
    PROVE  Means' \subseteq S
PROOF BY DEF Means

LEMMA PartsMean ==
    /\ PeopleMean \subseteq Means /\ FacesMean \subseteq Means /\ FormsMean \subseteq Means /\ CoversMean \subseteq Means
    /\ FormsAdd \subseteq FormsMean /\ PeopleMean \subseteq Added /\ FormsAdd \subseteq Added /\ Added \subseteq Means
PROOF
<1>1. FormsAdd \subseteq FormsMean  BY DEF FormsAdd, FormsMean, AddsMean
<1> QED  BY <1>1 DEF Means, Added

\* A step that holds no more keys than before, or new ones.
LEMMA MeansStep ==
    ASSUME MeansOld, OnePerson, fresh' \in Nat, fresh <= fresh', doubts \subseteq doubts', NEW New,
           Means' \subseteq Means \cup New,
           \A b \in New : b[1] \in Nat /\ fresh < b[1] /\ b[1] <= fresh' /\ Old(b[2])',
           \A b, c \in New : b[1] = c[1] => b[2] = c[2]
    PROVE  (MeansOld /\ OnePerson)'
PROOF
<1>1. \A b \in Means : Old(b[1])' /\ Old(b[2])'  BY StaysOld DEF MeansOld
<1>2. \A b \in New : Old(b[1])' /\ Old(b[2])'  BY DEF Old
<1>3. \A b \in Means, c \in New : b[1] # c[1]
  <2> SUFFICES ASSUME NEW b \in Means, NEW c \in New, b[1] = c[1] PROVE FALSE  OBVIOUS
  <2>1. Old(b[1])  BY DEF MeansOld
  <2>2. c[1] \in Nat /\ fresh < c[1]  OBVIOUS
  <2> QED  BY <2>1, <2>2, EnrollmentAssumption DEF Old, MeansOld
<1>4. "removed" \notin doubts' => \A b, c \in Means' : b[1] = c[1] => b[2] = c[2]
    BY <1>3 DEF OnePerson
<1> QED  BY <1>1, <1>2, <1>4 DEF MeansOld, OnePerson

LEMMA MeansShrink ==
    ASSUME MeansOld, OnePerson, fresh' \in Nat, fresh <= fresh', doubts \subseteq doubts', Means' \subseteq Means
    PROVE  (MeansOld /\ OnePerson)'
PROOF
<1> DEFINE New == {}
<1>1. Means' \subseteq Means \cup New  OBVIOUS
<1>2. \A b \in New : b[1] \in Nat /\ fresh < b[1] /\ b[1] <= fresh' /\ Old(b[2])'  OBVIOUS
<1>3. \A b, c \in New : b[1] = c[1] => b[2] = c[2]  OBVIOUS
<1> HIDE DEF New
<1> QED  BY <1>1, <1>2, <1>3, MeansStep

\* What a request is does not depend on the state.
LEMMA SoundAnyTime ==
    /\ \A a : (AddSound(a)' <=> AddSound(a)) /\ (Creating(a)' <=> Creating(a)) /\ (Sending(a)' <=> Sending(a))
    /\ \A a : Row(a)' = Row(a) /\ Chunk(a)' = Chunk(a)
    /\ \A q : (Detecting(q)' <=> Detecting(q)) /\ ShotMeans(q)' = ShotMeans(q)
    /\ \A rows : Meant(rows)' = Meant(rows) /\ Entries(rows)' = Entries(rows) /\ (OneEach(rows)' <=> OneEach(rows))
PROOF
<1>1. \A a : Row(a)' = Row(a) /\ Chunk(a)' = Chunk(a)  BY DEF Row, Chunk, Place, Entries
<1>2. \A rows : Meant(rows)' = Meant(rows) /\ Entries(rows)' = Entries(rows) /\ (OneEach(rows)' <=> OneEach(rows))
    BY DEF Meant, Entries, OneEach
<1>3. \A a : (AddSound(a)' <=> AddSound(a))  BY <1>1, <1>2 DEF AddSound
<1>4. \A a : (Creating(a)' <=> Creating(a)) /\ (Sending(a)' <=> Sending(a))  BY DEF Creating, Sending, Awaited
<1>5. \A q : (Detecting(q)' <=> Detecting(q)) /\ ShotMeans(q)' = ShotMeans(q)
    BY DEF Detecting, ShotMeans, OfFaces
<1> QED  BY <1>1, <1>2, <1>3, <1>4, <1>5

LEMMA MeantIs ==
    /\ \A rows, b : b \in Meant(rows) <=> \E r \in rows : b = <<r.id, r.entry>>
    /\ \A rows, e : e \in Entries(rows) <=> \E r \in rows : e = r.entry
    /\ Meant({}) = {} /\ Entries({}) = {}
PROOF BY DEF Meant, Entries

LEMMA FormsMeanIs ==
    /\ \A b : b \in FormMeans <=>
          \/ form.saved # None /\ b = <<form.saved, form.entry>>
          \/ form.request # None /\ form.request.id # None /\ b = <<form.request.id, form.entry>>
    /\ \A b : b \in AddsMean <=> \E a \in adds : b \in Meant(a.rows)
    /\ \A b : b \in FormsAdd <=> b \in FormMeans \/ b \in ListMeans
                                 \/ \E a \in adds : Creating(a) /\ b \in Meant(a.rows)
PROOF BY DEF FormMeans, AddsMean, FormsAdd

LEMMA AddLeftBehind ==
    ASSUME NEW a, AddSound(a), NEW b, b = a \/ b = [a EXCEPT !.latest = FALSE]
    PROVE  /\ AddSound(b) /\ b.rows = a.rows /\ b.kind = a.kind
           /\ ~b.latest /\ Creating(b) => Creating(a)
PROOF
<1>1. b \in AddType /\ b.rows = a.rows /\ b.kind = a.kind /\ b.got = a.got /\ b.photo = a.photo
  <2>1. a \in AddType  BY DEF AddSound
  <2>2. CASE b = [a EXCEPT !.latest = FALSE]
    <3>1. b \in AddType  BY <2>1, <2>2 DEF AddType
    <3>2. b.rows = a.rows /\ b.kind = a.kind /\ b.got = a.got /\ b.photo = a.photo
        BY <2>1, <2>2 DEF AddType
    <3> QED  BY <3>1, <3>2
  <2> QED  BY <2>1, <2>2
<1>2. Row(b) = Row(a) /\ Chunk(b) = Chunk(a)  BY <1>1 DEF Row, Chunk
<1>3. AddSound(b)  BY <1>1, <1>2 DEF AddSound
<1>4. ~b.latest /\ Creating(b) => Creating(a)  BY <1>1 DEF Creating, Awaited
<1> QED  BY <1>1, <1>3, <1>4

LEMMA NoListIs ==
    ASSUME NEW L
    PROVE  LET b == [NoBulk EXCEPT !.file = L, !.text = L]
           IN  /\ b.file = L /\ b.text = L /\ b.pending = {} /\ b.completed = {} /\ b.includes = FALSE
               /\ L \in SUBSET KeyType => b \in ListType
               /\ L = {} => b = NoBulk
PROOF
<1> DEFINE b == [NoBulk EXCEPT !.file = L, !.text = L]
<1>1. b = [file |-> L, text |-> L, pending |-> {}, completed |-> {}, includes |-> FALSE]
  <2>1. DOMAIN b = {"file", "text", "pending", "completed", "includes"}  BY DEF NoBulk
  <2>2. b.file = L /\ b.text = L /\ b.pending = {} /\ b.completed = {}  BY DEF NoBulk
  <2>3. b.includes = FALSE  BY DEF NoBulk
  <2>4. b = [x \in DOMAIN b |-> b[x]]  BY DEF NoBulk
  <2> HIDE DEF b
  <2> QED  BY <2>1, <2>2, <2>3, <2>4
<1> HIDE DEF b
<1>2. b.file = L /\ b.text = L /\ b.pending = {} /\ b.completed = {} /\ b.includes = FALSE  BY <1>1
<1>3. L \in SUBSET KeyType => b \in ListType  BY <1>1 DEF ListType
<1>4. L = {} => b = NoBulk  BY <1>1 DEF NoBulk
<1> QED  BY <1>2, <1>3, <1>4 DEF b

\* The form starts anew, for entries nobody has; what it asked for goes on without it.
LEMMA FormAnew ==
    ASSUME FormSide, fresh \in Nat, fresh' \in Nat, fresh <= fresh',
           form' \in FormType, form'.entry <= fresh',
           form'.request = None, form'.saved = None, form'.photo = None, ~form'.open => form' = NoForm,
           NEW L \in SUBSET KeyType, bulk' = [NoBulk EXCEPT !.file = L, !.text = L], OneEach(L),
           Entries(L) \subseteq ((fresh + 1) .. fresh') \ {form'.entry}, ~form'.open => L = {},
           \A c \in checks' : c \in [of : Nat, latest : BOOLEAN] /\ ~c.latest,
           \A b \in adds' : ~b.latest /\ \E a \in adds : b = a \/ b = [a EXCEPT !.latest = FALSE]
    PROVE  FormSide' /\ FormsMean' \subseteq FormsMean /\ FormsAdd' \subseteq FormsAdd
PROOF
<1>1. /\ bulk'.file = L /\ bulk'.text = L /\ bulk'.pending = {} /\ bulk'.completed = {} /\ ~bulk'.includes
      /\ bulk' \in ListType /\ (L = {} => bulk' = NoBulk)
    BY NoListIs
<1>2. \A b \in adds' : \E a \in adds : /\ AddSound(b) /\ b.rows = a.rows /\ ~b.latest
                                       /\ (Creating(b) => Creating(a))
  <2> SUFFICES ASSUME NEW b \in adds'
               PROVE  \E a \in adds : AddSound(b) /\ b.rows = a.rows /\ ~b.latest /\ (Creating(b) => Creating(a))
      OBVIOUS
  <2>1. PICK a \in adds : b = a \/ b = [a EXCEPT !.latest = FALSE]  OBVIOUS
  <2>2. AddSound(a)  BY DEF FormSide, AddsSound
  <2>3. ~b.latest  OBVIOUS
  <2>4. AddSound(b) /\ b.rows = a.rows /\ (~b.latest /\ Creating(b) => Creating(a))
      BY <2>1, <2>2, AddLeftBehind, Zenon
  <2> QED  BY <2>3, <2>4
<1>3. FormKnown'  BY <1>1 DEF FormKnown, FormSide
<1>4. ListKnown'
  <2>1. Entries(bulk'.file) \subseteq (1 .. fresh') \ {form'.entry}  BY <1>1
  <2>2. Entries(bulk'.pending) = {} /\ Entries(bulk'.completed) = {} /\ Entries(bulk'.text) = Entries(bulk'.file)
      BY <1>1, MeantIs
  <2>3. OneEach(bulk'.pending) /\ OneEach(bulk'.text) /\ OneEach(bulk'.file)  BY <1>1 DEF OneEach
  <2>4. \A a \in adds' : ~Sending(a)  BY <1>2 DEF Sending
  <2> QED  BY <1>1, <2>1, <2>2, <2>3, <2>4, SoundAnyTime DEF ListKnown
<1>5. ListKept'
  <2>1. Sent' = {}  BY <1>1 DEF Sent
  <2>2. \A a \in adds' : ~Sending(a)  BY <1>2 DEF Sending
  <2> QED  BY <1>1, <2>1, <2>2, SoundAnyTime DEF ListKept, OneEach
<1>6. AddsSound'  BY <1>2, SoundAnyTime DEF AddsSound
<1>7. FormMeans' = {}  BY DEF FormMeans
<1>8. ListMeans' = {}  BY <1>1, MeantIs DEF ListMeans
<1>9. AddsMean' \subseteq AddsMean  BY <1>2 DEF AddsMean
<1>10. FormsAdd' \subseteq FormsAdd
  <2> SUFFICES ASSUME NEW b \in FormsAdd' PROVE b \in FormsAdd  OBVIOUS
  <2>1. PICK a \in adds' : Creating(a) /\ b \in Meant(a.rows)  BY <1>7, <1>8, SoundAnyTime DEF FormsAdd
  <2> QED  BY <1>2, <2>1, FormsMeanIs
<1> QED  BY <1>3, <1>4, <1>5, <1>6, <1>7, <1>8, <1>9, <1>10 DEF FormSide, FormsMean

\* Entries that come with a form are nobody's yet.
LEMMA UnusedAnew ==
    ASSUME MeansOld, fresh' \in Nat, Added' \subseteq Added, form'.request = None,
           form'.open => form'.entry \in Nat /\ fresh < form'.entry,
           Entries(bulk'.file) \subseteq (fresh + 1) .. fresh'
    PROVE  Unused'
PROOF
<1>1. \A b \in Added' : Old(b[2])  BY PartsMean DEF MeansOld
<1>2. \A b \in Added' : \A e : e \in Nat /\ fresh < e => b[2] # e
    BY <1>1, EnrollmentAssumption DEF Old, MeansOld
<1>3. \A e \in Entries(bulk'.file) : e \in Nat /\ fresh < e  BY DEF MeansOld
<1> QED  BY <1>2, <1>3, SoundAnyTime DEF Unused

LEMMA OneKeyShrinks ==
    ASSUME OneKey, Added' \subseteq Added, NewFaces' \subseteq NewFaces,
           \A q \in shots' : Detecting(q) => q \in shots
    PROVE  OneKey'
PROOF BY SoundAnyTime DEF OneKey

(***************************************************************************)
(* The steps of the form.                                                  *)
(***************************************************************************)
LEMMA ShotStaysSound ==
    ASSUME fresh \in Nat, fresh' \in Nat, fresh <= fresh', NEW q, ShotSound(q)
    PROVE  ShotSound(q)'
PROOF BY StaysOld DEF ShotSound, Fields

LEMMA CoversStay ==
    ASSUME CoverSide, UNCHANGED coverVars, fresh \in Nat, fresh' \in Nat, fresh <= fresh'
    PROVE  CoverSide'
PROOF
<1>1. UNCHANGED <<queue, capture, photos, shots>>  BY DEF coverVars
<1>2. QueueKnown' /\ CaptureKnown'  BY <1>1 DEF CoverSide, QueueKnown, CaptureKnown, Fields
<1>3. FilesKnown'
  <2>1. \A f \in photos.found : Old(f.of)'  BY StaysOld DEF CoverSide, FilesKnown
  <2> QED  BY <1>1, <2>1, SoundAnyTime DEF CoverSide, FilesKnown, Fields
<1>4. ShotsSound'  BY <1>1, ShotStaysSound DEF CoverSide, ShotsSound
<1> QED  BY <1>2, <1>3, <1>4 DEF CoverSide

LEMMA CertainStays == ASSUME doubts \subseteq doubts', Certain' PROVE Certain
PROOF BY DEF Certain

\* A step of the form that may hold new keys.
LEMMA FormComposes ==
    ASSUME KeysInv, UNCHANGED <<people, faces>>, UNCHANGED coverVars, fresh' \in Nat, fresh <= fresh',
           doubts \subseteq doubts', FormSide', OneDialog', NEW New,
           FormsMean' \subseteq Means \cup New,
           \A b \in New : b[1] \in Nat /\ fresh < b[1] /\ b[1] <= fresh' /\ Old(b[2])',
           \A b, c \in New : b[1] = c[1] => b[2] = c[2],
           Certain' => OneKey' /\ Unused'
    PROVE  KeysInv'
PROOF
<1>1. PeopleMean' = PeopleMean /\ FacesMean' = FacesMean /\ CoversMean' = CoversMean  BY Same DEF coverVars
<1>2. Means' \subseteq Means \cup New  BY <1>1, PartsMean, MeansParts
<1>3. (MeansOld /\ OnePerson)'  BY <1>2, MeansStep DEF KeysInv
<1>4. PeopleKnown'  BY DEF KeysInv, PeopleKnown
<1>5. CoverSide'  BY CoversStay DEF KeysInv, MeansOld
<1> QED  BY <1>3, <1>4, <1>5 DEF KeysInv

\* A step of the form that holds no more keys than before.
LEMMA FormShrinks ==
    ASSUME KeysInv, UNCHANGED <<people, faces>>, UNCHANGED coverVars, fresh' \in Nat, fresh <= fresh',
           doubts \subseteq doubts', FormSide', OneDialog',
           FormsMean' \subseteq Means, FormsAdd' \subseteq Added, Certain' => Unused'
    PROVE  KeysInv'
PROOF
<1>1. Added' \subseteq Added  BY Same, PartsMean DEF Added
<1>2. NewFaces' = NewFaces /\ shots' = shots  BY Same DEF coverVars
<1>3. Certain' => OneKey' /\ Unused'  BY <1>1, <1>2, OneKeyShrinks, CertainStays DEF KeysInv
<1> DEFINE New == {}
<1>4. FormsMean' \subseteq Means \cup New  OBVIOUS
<1>5. \A b \in New : b[1] \in Nat /\ fresh < b[1] /\ b[1] <= fresh' /\ Old(b[2])'  OBVIOUS
<1>6. \A b, c \in New : b[1] = c[1] => b[2] = c[2]  OBVIOUS
<1> HIDE DEF New
<1> QED  BY <1>3, <1>4, <1>5, <1>6, FormComposes

\* The form is emptied, or opened for entries nobody has.
LEMMA FormAnewStep ==
    ASSUME KeysInv, UNCHANGED <<people, faces>>, UNCHANGED coverVars, fresh' \in Nat, fresh <= fresh',
           doubts \subseteq doubts', form' \in FormType, form'.entry <= fresh',
           form'.request = None, form'.saved = None, form'.photo = None, ~form'.open => form' = NoForm,
           form'.open => fresh < form'.entry /\ ~photos.open,
           NEW L \in SUBSET KeyType, bulk' = [NoBulk EXCEPT !.file = L, !.text = L], OneEach(L),
           Entries(L) \subseteq ((fresh + 1) .. fresh') \ {form'.entry}, ~form'.open => L = {},
           \A c \in checks' : c \in [of : Nat, latest : BOOLEAN] /\ ~c.latest,
           \A b \in adds' : ~b.latest /\ \E a \in adds : b = a \/ b = [a EXCEPT !.latest = FALSE]
    PROVE  KeysInv'
PROOF
<1>1. FormSide /\ fresh \in Nat /\ MeansOld  BY DEF KeysInv, MeansOld
<1>2. FormSide' /\ FormsMean' \subseteq FormsMean /\ FormsAdd' \subseteq FormsAdd  BY <1>1, FormAnew
<1>3. OneDialog'  BY DEF OneDialog, coverVars
<1>4. Added' \subseteq Added  BY <1>2, Same, PartsMean DEF Added
<1>5. bulk'.file = L  BY NoListIs
<1>6. form'.open => form'.entry \in Nat /\ fresh < form'.entry  BY DEF FormType
<1>7. Unused'  BY <1>1, <1>4, <1>5, <1>6, UnusedAnew
<1>8. FormsMean' \subseteq Means /\ FormsAdd' \subseteq Added  BY <1>2, PartsMean
<1> QED  BY <1>2, <1>3, <1>7, <1>8, FormShrinks

\* An input of the form, which holds the same keys.
LEMMA FormEdited ==
    ASSUME KeysInv, UNCHANGED <<people, faces, bulk, adds, fresh>>, UNCHANGED coverVars, doubts \subseteq doubts',
           form'.open = form.open, form'.busy = form.busy, form'.entry = form.entry,
           form'.saved = form.saved, form'.request = form.request, FormKnown',
           Certain' => (form.request # None => form'.name = form.name)
    PROVE  KeysInv'
PROOF
<1>1. FormMeans' = FormMeans  BY DEF FormMeans
<1>2. FormsMean' = FormsMean /\ FormsAdd' = FormsAdd
    BY <1>1, Same, SoundAnyTime DEF FormsMean, FormsAdd
<1>3. FormSide'
  <2>1. ListKnown'  BY SoundAnyTime DEF KeysInv, FormSide, ListKnown
  <2>2. ListKept'  BY SoundAnyTime DEF KeysInv, FormSide, ListKept, Sent
  <2>3. AddsSound'  BY SoundAnyTime DEF KeysInv, FormSide, AddsSound
  <2> QED  BY <2>1, <2>2, <2>3 DEF FormSide
<1>4. OneDialog'  BY DEF KeysInv, OneDialog, coverVars
<1>5. Added' = Added  BY <1>2, Same DEF Added
<1>6. Certain' => Unused'
  <2>1. Certain' => Unused  BY CertainStays DEF KeysInv
  <2> QED  BY <1>5, <2>1, SoundAnyTime DEF Unused, Sent
<1>7. FormsMean' \subseteq Means /\ FormsAdd' \subseteq Added  BY <1>2, PartsMean
<1>8. fresh' \in Nat /\ fresh <= fresh'  BY DEF KeysInv, MeansOld
<1> QED  BY <1>3, <1>4, <1>6, <1>7, <1>8, FormShrinks

LEMMA ListedIs ==
    ASSUME NEW first \in Nat, NEW rows \in Nat
    PROVE  /\ Listed(first, rows) \in SUBSET KeyType /\ OneEach(Listed(first, rows))
           /\ Entries(Listed(first, rows)) \subseteq (first + 1) .. (first + rows)
PROOF BY DEF Listed, KeyType, NameType, OneEach, Entries

LEMMA EmptyList ==
    /\ {} \in SUBSET KeyType /\ OneEach({}) /\ Entries({}) = {}
    /\ NoBulk = [NoBulk EXCEPT !.file = {}, !.text = {}]
PROOF
<1>1. {} \in SUBSET KeyType /\ OneEach({}) /\ Entries({}) = {}  BY DEF OneEach, Entries
<1>2. NoBulk = [NoBulk EXCEPT !.file = {}, !.text = {}]  BY NoListIs
<1> QED  BY <1>1, <1>2

\* A form that is opened, for the entry given.
LEMMA NewForm ==
    ASSUME NEW m \in BOOLEAN, NEW e \in Nat
    PROVE  LET f == [NoForm EXCEPT !.open = TRUE, !.many = m, !.entry = e]
               g == [NoForm EXCEPT !.open = TRUE, !.entry = e]
           IN  /\ f \in FormType /\ f.open /\ f.entry = e
               /\ f.request = None /\ f.saved = None /\ f.photo = None
               /\ g \in FormType /\ g.open /\ g.entry = e
               /\ g.request = None /\ g.saved = None /\ g.photo = None
PROOF BY DEF NoForm, FormType, NameType

LEMMA EmptyForm ==
    /\ NoForm \in FormType /\ NoForm.entry = 0 /\ ~NoForm.open
    /\ NoForm.request = None /\ NoForm.saved = None /\ NoForm.photo = None
PROOF BY DEF NoForm, FormType, NameType

LEMMA SupersededIs ==
    ASSUME NEW requests
    PROVE  /\ requests \subseteq [of : Nat, latest : BOOLEAN] =>
                 \A c \in Superseded(requests) : c \in [of : Nat, latest : BOOLEAN] /\ ~c.latest
           /\ requests \subseteq AddType =>
                 \A b \in Superseded(requests) : ~b.latest /\ \E a \in requests : b = [a EXCEPT !.latest = FALSE]
PROOF
<1>1. ASSUME NEW c \in [of : Nat, latest : BOOLEAN]
      PROVE  [c EXCEPT !.latest = FALSE] \in [of : Nat, latest : BOOLEAN] /\ ~[c EXCEPT !.latest = FALSE].latest
    OBVIOUS
<1>2. ASSUME NEW a \in AddType PROVE ~[a EXCEPT !.latest = FALSE].latest  BY DEF AddType
<1> QED  BY <1>1, <1>2 DEF Superseded

LEMMA FormParts ==
    ASSUME KeysInv
    PROVE  /\ fresh \in Nat /\ form \in FormType /\ form.entry \in Nat /\ form.entry <= fresh /\ bulk \in ListType
           /\ checks \subseteq [of : Nat, latest : BOOLEAN] /\ adds \subseteq AddType
           /\ \A c \in checks : c.latest => form.open
           /\ \A a \in adds : AddSound(a) /\ (a.latest => form.open /\ form.busy)
           /\ \A a, b \in adds : a.latest /\ b.latest => a = b
PROOF
<1>1. form.entry \in Nat  BY DEF KeysInv, FormSide, FormKnown, FormType
<1>2. adds \subseteq AddType  BY DEF KeysInv, FormSide, AddsSound, AddSound
<1> QED  BY <1>1, <1>2 DEF KeysInv, MeansOld, FormSide, FormKnown, ListKnown, AddsSound

LEMMA OpenFormStep ==
    ASSUME KeysInv, NEW rows \in 0 .. MaxRows, OpenForm(rows), ListShown, UNCHANGED coverVars
    PROVE  KeysInv'
PROOF
<1>1. rows \in Nat /\ fresh \in Nat  BY EnrollmentAssumption, FormParts
<1>2. /\ ~form.open
      /\ form' = [NoForm EXCEPT !.open = TRUE, !.many = rows > 0, !.entry = fresh + rows + 1]
      /\ bulk' = [NoBulk EXCEPT !.file = Listed(fresh, rows), !.text = Listed(fresh, rows)]
      /\ fresh' = fresh + rows + 1 /\ UNCHANGED <<people, faces, checks, adds, doubts>>
  <2>1. ~form.open  BY DEF OpenForm
  <2>2. form' = [NoForm EXCEPT !.open = TRUE, !.many = rows > 0, !.entry = fresh + rows + 1]  BY DEF OpenForm
  <2>3. bulk' = [NoBulk EXCEPT !.file = Listed(fresh, rows), !.text = Listed(fresh, rows)]  BY DEF OpenForm
  <2>4. fresh' = fresh + rows + 1  BY DEF OpenForm
  <2>5. UNCHANGED <<people, faces, checks, adds, doubts>>  BY DEF OpenForm
  <2> QED  BY <2>1, <2>2, <2>3, <2>4, <2>5, Zenon
<1>3. (rows > 0) \in BOOLEAN /\ fresh + rows + 1 \in Nat  BY <1>1
<1>4. /\ form' \in FormType /\ form'.open /\ form'.entry = fresh + rows + 1
      /\ form'.request = None /\ form'.saved = None /\ form'.photo = None
  <2>1. PICK m \in BOOLEAN : m = (rows > 0)  BY <1>3, Zenon
  <2>2. PICK e \in Nat : e = fresh + rows + 1  BY <1>3, Zenon
  <2>3. form' = [NoForm EXCEPT !.open = TRUE, !.many = m, !.entry = e]  BY <1>2, <2>1, <2>2, Zenon
  <2>4. /\ form' \in FormType /\ form'.open /\ form'.entry = e
        /\ form'.request = None /\ form'.saved = None /\ form'.photo = None
      BY <2>3, NewForm, Zenon
  <2> QED  BY <2>2, <2>4, Zenon
<1>5. fresh' \in Nat /\ fresh <= fresh' /\ form'.entry <= fresh' /\ fresh < form'.entry  BY <1>1, <1>2, <1>4
<1>6. /\ Listed(fresh, rows) \in SUBSET KeyType /\ OneEach(Listed(fresh, rows))
      /\ Entries(Listed(fresh, rows)) \subseteq (fresh + 1) .. (fresh + rows)
    BY <1>1, ListedIs
<1>7. (fresh + 1) .. (fresh + rows) \subseteq ((fresh + 1) .. fresh') \ {form'.entry}  BY <1>1, <1>2, <1>4
<1>8. \A c \in checks' : c \in [of : Nat, latest : BOOLEAN] /\ ~c.latest  BY <1>2, FormParts
<1>9. \A b \in adds' : ~b.latest /\ \E a \in adds : b = a \/ b = [a EXCEPT !.latest = FALSE]
    BY <1>2, FormParts
<1>10. ~photos.open  BY DEF ListShown, Uncovered
<1>11. Entries(Listed(fresh, rows)) \subseteq ((fresh + 1) .. fresh') \ {form'.entry}  BY <1>6, <1>7
<1> HIDE DEF KeysInv
<1> QED  BY <1>2, <1>4, <1>5, <1>6, <1>8, <1>9, <1>10, <1>11, FormAnewStep

\* The form is closed, with what of its requests is left.
LEMMA ResetStep ==
    ASSUME KeysInv, UNCHANGED <<people, faces, fresh>>, UNCHANGED coverVars, doubts \subseteq doubts', ResetForm,
           \A b \in adds' : ~b.latest /\ \E a \in adds : b = a \/ b = [a EXCEPT !.latest = FALSE]
    PROVE  KeysInv'
PROOF
<1>1. form' = NoForm /\ bulk' = [NoBulk EXCEPT !.file = {}, !.text = {}]  BY EmptyList DEF ResetForm
<1>2. \A c \in checks' : c \in [of : Nat, latest : BOOLEAN] /\ ~c.latest
    BY FormParts, SupersededIs DEF ResetForm
<1>3. /\ form' \in FormType /\ form'.entry <= fresh' /\ ~form'.open
      /\ form'.request = None /\ form'.saved = None /\ form'.photo = None
    BY <1>1, EmptyForm, FormParts
<1>4. fresh' \in Nat /\ fresh <= fresh'  BY FormParts
<1>5. Entries({}) \subseteq ((fresh + 1) .. fresh') \ {form'.entry}  BY EmptyList
<1> QED  BY <1>1, <1>2, <1>3, <1>4, <1>5, EmptyList, FormAnewStep

LEMMA CloseFormStep ==
    ASSUME KeysInv, CloseForm, UNCHANGED coverVars
    PROVE  KeysInv'
PROOF
<1>1. \A b \in adds' : ~b.latest /\ \E a \in adds : b = [a EXCEPT !.latest = FALSE]
    BY FormParts, SupersededIs DEF CloseForm
<1>2. ResetForm /\ UNCHANGED <<people, faces, fresh, doubts>>  BY DEF CloseForm
<1> QED  BY <1>1, <1>2, ResetStep

\* The inputs of the form.
LEMMA FormStaysKnown ==
    ASSUME KeysInv, UNCHANGED <<bulk, fresh>>, form.open, form' \in FormType,
           form'.open = form.open, form'.entry = form.entry, form'.photo # None => form'.photo.of = form.entry,
           \A c \in checks' : c \in [of : Nat, latest : BOOLEAN] /\ (c.latest => c.of = form.entry)
    PROVE  FormKnown'
PROOF BY FormParts DEF FormKnown

LEMMA InputStep ==
    ASSUME KeysInv, UNCHANGED coverVars,
           SwitchMode \/ CorrectName \/ OpenSection \/ SkipFace \/ RetakePhoto
    PROVE  KeysInv'
PROOF
<1>1. form \in FormType /\ form.open /\ UNCHANGED <<people, faces, bulk, adds, fresh>> /\ doubts \subseteq doubts'
  <2>1. form.open
      BY DEF SwitchMode, CorrectName, OpenSection, SkipFace, RetakePhoto, Single, FormShown
  <2>2. UNCHANGED <<people, faces, bulk, adds, fresh>> /\ doubts \subseteq doubts'
      BY DEF SwitchMode, CorrectName, OpenSection, SkipFace, RetakePhoto, Untouched
  <2> QED  BY <2>1, <2>2, FormParts
<1>2. checks' = checks \/ checks' = Superseded(checks)
    BY DEF SwitchMode, CorrectName, OpenSection, SkipFace, RetakePhoto
<1>3. \A c \in checks' : c \in [of : Nat, latest : BOOLEAN] /\ (c.latest => c.of = form.entry)
  <2>1. checks \subseteq [of : Nat, latest : BOOLEAN]  BY FormParts
  <2>2. \A c \in checks : c.latest => c.of = form.entry  BY DEF KeysInv, FormSide, FormKnown
  <2>3. \A c \in Superseded(checks) : c \in [of : Nat, latest : BOOLEAN] /\ ~c.latest
      BY <2>1, SupersededIs
  <2>4. CASE checks' = checks  BY <2>1, <2>2, <2>4
  <2>5. CASE checks' = Superseded(checks)  BY <2>3, <2>5
  <2> QED  BY <1>2, <2>4, <2>5
<1>4. /\ form' \in FormType /\ form'.open = form.open /\ form'.busy = form.busy /\ form'.entry = form.entry
      /\ form'.saved = form.saved /\ form'.request = form.request /\ form'.photo \in {form.photo, None}
  <2>1. CASE SwitchMode  BY <1>1, <2>1 DEF SwitchMode, FormType
  <2>2. CASE CorrectName
    <3>1. form.name \in {0, 1}  BY <1>1 DEF FormType, NameType
    <3> DEFINE name == 1 - form.name
    <3>2. name \in NameType  BY <3>1 DEF NameType
    <3>3. form' = [form EXCEPT !.name = name]  BY <2>2 DEF CorrectName
    <3> HIDE DEF name
    <3> QED  BY <1>1, <3>2, <3>3 DEF FormType
  <2>3. CASE OpenSection  BY <1>1, <2>3 DEF OpenSection, FormType
  <2>4. CASE SkipFace  BY <1>1, <2>4 DEF SkipFace, FormType
  <2>5. CASE RetakePhoto  BY <1>1, <2>5 DEF RetakePhoto, FormType
  <2> QED  BY <2>1, <2>2, <2>3, <2>4, <2>5, Zenon
<1>5. form'.photo # None => form'.photo.of = form.entry  BY <1>4 DEF KeysInv, FormSide, FormKnown
<1>6. FormKnown'  BY <1>1, <1>3, <1>4, <1>5, FormStaysKnown
<1>7. Certain' => (form.request # None => form'.name = form.name)
  <2>1. CASE CorrectName  BY <2>1 DEF CorrectName, Certain
  <2>2. CASE ~CorrectName  BY <1>1, <2>2 DEF SwitchMode, OpenSection, SkipFace, RetakePhoto, FormType
  <2> QED  BY <2>1, <2>2
<1> QED  BY <1>1, <1>4, <1>6, <1>7, FormEdited

LEMMA PhotoStep ==
    ASSUME KeysInv, UNCHANGED coverVars,
           (\E uploaded \in BOOLEAN : Photograph(uploaded)) \/ \E c \in checks : AnswerCheck(c)
    PROVE  KeysInv'
PROOF
<1>1. form \in FormType /\ UNCHANGED <<people, faces, bulk, adds, fresh>> /\ doubts \subseteq doubts'
    BY FormParts DEF Photograph, AnswerCheck, Untouched
<1>2. /\ checks \subseteq [of : Nat, latest : BOOLEAN] /\ form.entry \in Nat
      /\ \A c \in checks : c.latest => form.open /\ c.of = form.entry
    BY FormParts DEF KeysInv, FormSide, FormKnown
<1>3. CASE \E uploaded \in BOOLEAN : Photograph(uploaded)
  <2>1. /\ form.open /\ form' = [form EXCEPT !.checking = TRUE]
        /\ checks' = Superseded(checks) \cup {[of |-> form.entry, latest |-> TRUE]}
      BY <1>3 DEF Photograph, Single, FormShown
  <2>2. \A c \in checks' : c \in [of : Nat, latest : BOOLEAN] /\ (c.latest => c.of = form.entry)
    <3>1. \A c \in Superseded(checks) : c \in [of : Nat, latest : BOOLEAN] /\ ~c.latest
        BY <1>2, SupersededIs
    <3> DEFINE d == [of |-> form.entry, latest |-> TRUE]
    <3>2. d \in [of : Nat, latest : BOOLEAN] /\ d.of = form.entry  BY <1>2
    <3>3. checks' = Superseded(checks) \cup {d}  BY <2>1
    <3> HIDE DEF d
    <3> QED  BY <3>1, <3>2, <3>3
  <2>3. /\ form' \in FormType /\ form'.open = form.open /\ form'.busy = form.busy /\ form'.entry = form.entry
        /\ form'.saved = form.saved /\ form'.request = form.request /\ form'.photo = form.photo
        /\ form'.name = form.name
      BY <1>1, <2>1 DEF FormType
  <2>4. form'.photo # None => form'.photo.of = form.entry  BY <2>3 DEF KeysInv, FormSide, FormKnown
  <2>5. FormKnown'  BY <1>1, <2>1, <2>2, <2>3, <2>4, FormStaysKnown
  <2> QED  BY <1>1, <2>3, <2>5, FormEdited
<1>4. ASSUME NEW c \in checks, AnswerCheck(c) PROVE KeysInv'
  <2>1. checks' = checks \ {c}  BY <1>4 DEF AnswerCheck
  <2>2. CASE c.latest
    <3>1. PICK photo \in {None, [of |-> c.of]} : form' = [form EXCEPT !.checking = FALSE, !.photo = photo]
        BY <1>4, <2>2 DEF AnswerCheck, CheckIsCurrent
    <3>2. c.of \in Nat /\ c.of = form.entry /\ form.open  BY <1>2, <2>2
    <3>3. photo \in {None} \cup [of : Nat] /\ (photo # None => photo.of = form.entry)  BY <3>1, <3>2
    <3>4. /\ form' \in FormType /\ form'.open = form.open /\ form'.busy = form.busy /\ form'.entry = form.entry
          /\ form'.saved = form.saved /\ form'.request = form.request /\ form'.photo = photo
          /\ form'.name = form.name
        BY <1>1, <3>1, <3>3 DEF FormType
    <3>5. \A d \in checks' : d \in [of : Nat, latest : BOOLEAN] /\ (d.latest => d.of = form.entry)  BY <1>2, <2>1
    <3>6. FormKnown'  BY <1>1, <3>2, <3>3, <3>4, <3>5, FormStaysKnown
    <3> QED  BY <1>1, <3>4, <3>6, FormEdited
  <2>3. CASE ~c.latest
    <3>1. form' = form  BY <1>4, <2>3 DEF AnswerCheck, CheckIsCurrent
    <3>2. FormKnown'  BY <1>1, <2>1, <3>1 DEF KeysInv, FormSide, FormKnown
    <3> QED  BY <1>1, <3>1, <3>2, FormEdited
  <2> QED  BY <2>2, <2>3
<1> QED  BY <1>3, <1>4

(***************************************************************************)
(* One member: what is asked, and what the service answers.                *)
(***************************************************************************)
LEMMA KeysStep ==
    ASSUME KeysInv, fresh' \in Nat, fresh <= fresh', doubts \subseteq doubts', NEW New, Means' \subseteq Means \cup New,
           \A b \in New : b[1] \in Nat /\ fresh < b[1] /\ b[1] <= fresh' /\ Old(b[2])',
           \A b, c \in New : b[1] = c[1] => b[2] = c[2],
           PeopleKnown', FormSide', CoverSide', OneDialog', Certain' => OneKey' /\ Unused'
    PROVE  KeysInv'
PROOF BY MeansStep DEF KeysInv

LEMMA KeysShrink ==
    ASSUME KeysInv, fresh' \in Nat, fresh <= fresh', doubts \subseteq doubts', Means' \subseteq Means,
           PeopleKnown', FormSide', CoverSide', OneDialog', Certain' => OneKey' /\ Unused'
    PROVE  KeysInv'
PROOF BY MeansShrink DEF KeysInv

LEMMA RowIs == \A a, x : a.rows = {x} => Row(a) = x
PROOF BY DEF Row

\* A request is sent when none that counts is waiting.
LEMMA RequestSent ==
    ASSUME FormSide, form.open, ~form.busy, UNCHANGED <<bulk, checks>>, form.entry <= fresh',
           fresh \in Nat, fresh' \in Nat, fresh <= fresh', doubts \subseteq doubts',
           form' \in FormType, form'.open = form.open, form'.busy, form'.entry = form.entry, form'.photo = form.photo,
           NEW a, AddSound(a), a.latest, a.kind # "rows", Row(a).entry = form.entry, adds' = adds \cup {a}
    PROVE  FormSide'
PROOF
<1>1. \A b \in adds : ~b.latest  BY DEF FormSide, AddsSound
<1>2. FormKnown'  BY DEF FormSide, FormKnown
<1>3. ListKnown'
  <2>1. 1 .. fresh \subseteq 1 .. fresh'  OBVIOUS
  <2>2. \A b \in adds' : ~Sending(b)  BY <1>1 DEF Sending
  <2> QED  BY <2>1, <2>2, SoundAnyTime DEF FormSide, ListKnown
<1>4. ListKept'
  <2>1. \A b \in adds' : ~Sending(b)  BY <1>1 DEF Sending
  <2>2. \A b \in adds : ~Sending(b)  BY <1>1 DEF Sending
  <2> QED  BY <2>1, <2>2, SoundAnyTime DEF FormSide, ListKept, Sent
<1>5. AddsSound'
  <2>1. \A b \in adds' : AddSound(b)'  BY SoundAnyTime DEF FormSide, AddsSound
  <2>2. \A b \in adds' : b.latest => b = a  BY <1>1
  <2>3. Row(a)' = Row(a)  BY SoundAnyTime
  <2> QED  BY <2>1, <2>2, <2>3 DEF AddsSound
<1> QED  BY <1>2, <1>3, <1>4, <1>5 DEF FormSide

LEMMA SentAdd ==
    ASSUME NEW a, a \in AddType, a.kind # "rows", a.got = Unanswered, NEW row \in RowType, a.rows = {row},
           a.photo # None => a.photo.of = row.entry, a.kind = "face" => a.photo # None
    PROVE  AddSound(a) /\ Meant(a.rows) = {<<row.id, row.entry>>} /\ Row(a).entry = row.entry
PROOF
<1>1. Row(a) = row  BY RowIs
<1>2. AddSound(a)  BY <1>1 DEF AddSound, OneEach, Unanswered
<1> QED  BY <1>1, <1>2 DEF Meant

LEMMA SubmitStep ==
    ASSUME KeysInv, Submit, UNCHANGED coverVars, selected \in NoGroupOr
    PROVE  KeysInv'
PROOF
<1>1. /\ form.open /\ ~form.busy /\ form \in FormType /\ fresh \in Nat /\ \A a \in adds : ~a.latest
      /\ UNCHANGED <<people, faces, doubts>> /\ form.entry \in Nat /\ form.entry <= fresh
    BY FormParts DEF Submit, MaySubmit, FormShown
<1>2. form.photo \in {None} \cup [of : Nat] /\ (form.photo # None => form.photo.of = form.entry)
    BY DEF KeysInv, FormSide, FormKnown, FormType
<1>3. form.name \in NameType  BY <1>1 DEF FormType
<1>4. FormSide  BY DEF KeysInv
<1>5. CASE form.saved # None /\ form.photo = None
  <2>1. ResetForm /\ UNCHANGED <<adds, fresh>>  BY <1>5 DEF Submit, CloseSaved
  <2>2. \A b \in adds' : ~b.latest /\ \E a \in adds : b = a \/ b = [a EXCEPT !.latest = FALSE]  BY <1>1, <2>1
  <2> QED  BY <1>1, <2>1, <2>2, ResetStep
<1>6. CASE form.saved # None /\ form.photo # None
  <2> DEFINE a == [kind |-> "face", latest |-> TRUE, created |-> FALSE, group |-> selected, photo |-> form.photo,
                   got |-> Unanswered, rows |-> {[id |-> form.saved, entry |-> form.entry, name |-> form.name]}]
  <2>1. /\ form' = [form EXCEPT !.busy = TRUE] /\ adds' = adds \cup {a} /\ UNCHANGED <<fresh, bulk, checks>>
    <3>1. form' = [form EXCEPT !.busy = TRUE, !.request = form.request]  BY <1>6 DEF Submit
    <3>2. form' = [form EXCEPT !.busy = TRUE]  BY <1>1, <3>1 DEF FormType
    <3>3. adds' = adds \cup {a} /\ UNCHANGED <<fresh, bulk, checks>>  BY <1>6 DEF Submit
    <3> QED  BY <3>2, <3>3
  <2>2. form.saved \in Nat  BY <1>1, <1>6 DEF FormType
  <2>3. AddSound(a) /\ a.latest /\ a.kind = "face" /\ Meant(a.rows) = {<<form.saved, form.entry>>}
        /\ Row(a).entry = form.entry
    <3> DEFINE row == [id |-> form.saved, entry |-> form.entry, name |-> form.name]
    <3>1. row \in RowType /\ row.id = form.saved /\ row.entry = form.entry  BY <1>1, <1>3, <2>2 DEF RowType
    <3>2. a = [kind |-> "face", latest |-> TRUE, created |-> FALSE, group |-> selected, photo |-> form.photo,
               got |-> Unanswered, rows |-> {row}]
        OBVIOUS
    <3> HIDE DEF a, row
    <3>3. Unanswered \in [at : {"waiting", "saved", "failed"}, ids : SUBSET Nat]  BY DEF Unanswered
    <3>4. a \in AddType  BY <1>2, <3>1, <3>2, <3>3 DEF AddType
    <3>5. /\ a.kind = "face" /\ a.latest /\ a.got = Unanswered /\ a.rows = {row}
          /\ a.photo = form.photo
        BY <3>2
    <3>6. a.kind # "rows" /\ (a.photo # None => a.photo.of = row.entry) /\ (a.kind = "face" => a.photo # None)
        BY <1>2, <1>6, <3>1, <3>5
    <3>7. AddSound(a) /\ Meant(a.rows) = {<<row.id, row.entry>>} /\ Row(a).entry = row.entry
        BY <3>1, <3>4, <3>5, <3>6, SentAdd
    <3> QED  BY <3>1, <3>5, <3>7, Zenon
  <2> HIDE DEF a
  <2>4. /\ form' \in FormType /\ form'.open = form.open /\ form'.busy /\ form'.entry = form.entry
        /\ form'.photo = form.photo /\ form'.request = form.request /\ form'.saved = form.saved
        /\ form'.name = form.name
      BY <1>1, <2>1 DEF FormType
  <2>5. FormSide'  BY <1>1, <1>4, <2>1, <2>3, <2>4, RequestSent
  <2>6. FormMeans' = FormMeans /\ ListMeans' = ListMeans  BY <2>1, <2>4, Same DEF FormMeans
  <2>7. <<form.saved, form.entry>> \in FormMeans  BY <1>6, FormsMeanIs
  <2>8. AddsMean' = AddsMean \cup {<<form.saved, form.entry>>}  BY <2>1, <2>3, SoundAnyTime DEF AddsMean
  <2>9. FormsMean' \subseteq FormsMean  BY <2>6, <2>7, <2>8 DEF FormsMean
  <2>10. {b \in adds : Creating(b)}' = {b \in adds : Creating(b)}  BY <2>1, <2>3, SoundAnyTime DEF Creating
  <2>11. FormsAdd' = FormsAdd  BY <2>6, <2>10, SoundAnyTime DEF FormsAdd
  <2>12. Added' = Added  BY <1>1, <2>11, Same DEF Added
  <2>13. Certain' => Unused'
    <3>1. Certain' => Unused  BY <1>1, CertainStays DEF KeysInv
    <3> QED  BY <1>6, <2>1, <2>4, <2>12, <3>1, SoundAnyTime DEF Unused, Sent
  <2>14. OneDialog'  BY <2>4 DEF KeysInv, OneDialog, coverVars
  <2>15. FormsMean' \subseteq Means /\ FormsAdd' \subseteq Added  BY <2>9, <2>11, PartsMean
  <2> QED  BY <1>1, <2>1, <2>5, <2>13, <2>14, <2>15, FormShrinks
<1>7. CASE form.saved = None
  <2> DEFINE request == RequestOf
             a == [kind |-> "member", latest |-> TRUE, created |-> TRUE, group |-> selected, photo |-> form.photo,
                   got |-> Unanswered, rows |-> {[id |-> request.id, entry |-> form.entry, name |-> form.name]}]
  <2>1. /\ form' = [form EXCEPT !.busy = TRUE, !.request = request] /\ adds' = adds \cup {a}
        /\ UNCHANGED <<bulk, checks>> /\ fresh' = IF request.id = fresh + 1 THEN fresh + 1 ELSE fresh
      BY <1>7 DEF Submit
  <2>2. request.id \in Nat /\ request.name = form.name /\ request \in [id : Nat, name : NameType]
    <3>1. form.request # None => form.request \in [id : Nat, name : NameType]  BY <1>1 DEF FormType
    <3> QED  BY <1>1, <1>3, <3>1 DEF RequestOf
  <2>3. \/ request = form.request /\ form.request # None
        \/ request.id = fresh + 1 /\ (form.request # None => form.request.name # form.name)
      BY DEF RequestOf
  <2> HIDE DEF request
  <2>4. AddSound(a) /\ a.latest /\ a.kind = "member" /\ Meant(a.rows) = {<<request.id, form.entry>>}
        /\ Row(a).entry = form.entry
    <3> DEFINE row == [id |-> request.id, entry |-> form.entry, name |-> form.name]
    <3>1. row \in RowType /\ row.id = request.id /\ row.entry = form.entry  BY <1>1, <1>3, <2>2 DEF RowType
    <3>2. a = [kind |-> "member", latest |-> TRUE, created |-> TRUE, group |-> selected, photo |-> form.photo,
               got |-> Unanswered, rows |-> {row}]
        OBVIOUS
    <3> HIDE DEF a, row
    <3>3. Unanswered \in [at : {"waiting", "saved", "failed"}, ids : SUBSET Nat]  BY DEF Unanswered
    <3>4. a \in AddType  BY <1>2, <3>1, <3>2, <3>3 DEF AddType
    <3>5. /\ a.kind = "member" /\ a.latest /\ a.got = Unanswered /\ a.rows = {row}
          /\ a.photo = form.photo
        BY <3>2
    <3>6. a.kind # "rows" /\ (a.photo # None => a.photo.of = row.entry) /\ (a.kind = "face" => a.photo # None)
        BY <1>2, <3>1, <3>5
    <3>7. AddSound(a) /\ Meant(a.rows) = {<<row.id, row.entry>>} /\ Row(a).entry = row.entry
        BY <3>1, <3>4, <3>5, <3>6, SentAdd
    <3> QED  BY <3>1, <3>5, <3>7, Zenon
  <2> HIDE DEF a
  <2>5. request # None
    <3>1. [id : Nat, name : NameType] \subseteq [id : Nat, name : Nat]  BY DEF NameType
    <3> QED  BY <2>2, <3>1, EnrollmentAssumption
  <2>6. fresh' \in Nat /\ fresh <= fresh' /\ form.entry <= fresh'  BY <1>1, <2>1
  <2>7. /\ form' \in FormType /\ form'.open = form.open /\ form'.busy /\ form'.entry = form.entry
        /\ form'.photo = form.photo /\ form'.request = request /\ form'.saved = None
        /\ form'.name = form.name
    <3>1. form' \in FormType /\ form'.busy  BY <1>1, <2>1, <2>2 DEF FormType
    <3> QED  BY <1>1, <1>7, <2>1, <3>1 DEF FormType
  <2>8. FormSide'  BY <1>1, <1>4, <2>1, <2>4, <2>6, <2>7, RequestSent
  <2>9. OneDialog'  BY <2>7 DEF KeysInv, OneDialog, coverVars
  <2>10. FormMeans' = {<<request.id, form.entry>>}  BY <2>2, <2>5, <2>7, EnrollmentAssumption DEF FormMeans
  <2>11. ListMeans' = ListMeans  BY <2>1, Same
  <2>12. AddsMean' = AddsMean \cup {<<request.id, form.entry>>}  BY <2>1, <2>4, SoundAnyTime DEF AddsMean
  <2>13. FormsAdd' \subseteq FormsAdd \cup {<<request.id, form.entry>>}
    <3>1. \A b \in adds' : Creating(b) => b = a \/ (b \in adds /\ Creating(b))  BY <2>1
    <3>2. \A b \in FormsAdd' : \/ b \in FormMeans' \/ b \in ListMeans'
                              \/ \E c \in adds' : Creating(c) /\ b \in Meant(c.rows)
        BY SoundAnyTime DEF FormsAdd
    <3> QED  BY <2>4, <2>10, <2>11, <3>1, <3>2, FormsMeanIs
  <2>14. FormsMean' \subseteq FormsMean \cup {<<request.id, form.entry>>}
      BY <2>10, <2>11, <2>12 DEF FormsMean
  <2>15. CASE request = form.request /\ form.request # None
    <3>1. <<request.id, form.entry>> \in FormMeans  BY <2>2, <2>15, EnrollmentAssumption, FormsMeanIs
    <3>2. FormsMean' \subseteq Means /\ FormsAdd' \subseteq Added
        BY <2>13, <2>14, <3>1, PartsMean DEF FormsMean, FormsAdd
    <3>3. Added' \subseteq Added  BY <1>1, <3>2, Same, PartsMean DEF Added
    <3>4. Certain' => Unused'
      <4>1. Certain' => Unused  BY <1>1, CertainStays DEF KeysInv
      <4> QED  BY <2>1, <2>2, <2>5, <2>7, <3>3, <4>1, SoundAnyTime DEF Unused, Sent
    <3> QED  BY <1>1, <2>6, <2>8, <2>9, <3>2, <3>4, FormShrinks
  <2>16. CASE request.id = fresh + 1 /\ (form.request # None => form.request.name # form.name)
    <3> DEFINE New == {<<request.id, form.entry>>}
    <3>1. FormsMean' \subseteq Means \cup New  BY <2>14, PartsMean
    <3>2. \A b \in New : b[1] \in Nat /\ fresh < b[1] /\ b[1] <= fresh' /\ Old(b[2])'
        BY <1>1, <2>1, <2>6, <2>16 DEF Old
    <3>3. \A b, c \in New : b[1] = c[1] => b[2] = c[2]  OBVIOUS
    <3>4. Added' \subseteq Added \cup New  BY <1>1, <2>13, Same, PartsMean DEF Added
    <3>5. ASSUME Certain' PROVE OneKey' /\ Unused'
      <4>1. OneKey /\ Unused  BY <1>1, <3>5, CertainStays DEF KeysInv
      <4>2. form.request = None  BY <2>16, <4>1 DEF Unused
      <4>3. \A b \in Added : b[2] # form.entry  BY <1>1, <1>7, <4>1, <4>2 DEF Unused
      <4>4. photos.found = {}  BY <1>1 DEF KeysInv, OneDialog, CoverSide, FilesKnown
      <4>5. NewFaces' = {}  BY <4>4 DEF NewFaces, coverVars
      <4>6. OneKey'
        <5>1. \A b, c \in Added' : b[2] = c[2] => b[1] = c[1]  BY <3>4, <4>1, <4>3 DEF OneKey
        <5> QED  BY <4>5, <5>1 DEF OneKey
      <4>7. form.entry \notin Entries(bulk.file)  BY DEF KeysInv, FormSide, ListKnown
      <4>8. Unused'  BY <2>1, <2>2, <2>5, <2>7, <3>4, <4>1, <4>7, SoundAnyTime DEF Unused, Sent
      <4> QED  BY <4>6, <4>8
    <3> HIDE DEF New
    <3> QED  BY <1>1, <2>6, <2>8, <2>9, <3>1, <3>2, <3>3, <3>5, FormComposes
  <2> QED  BY <2>3, <2>15, <2>16
<1> QED  BY <1>5, <1>6, <1>7

\* The service has answered a request, which is what it was.
LEMMA Answered ==
    ASSUME NEW a, AddSound(a), NEW got, got \in [at : {"waiting", "saved", "failed"}, ids : SUBSET Nat],
           got.at # "waiting", got.ids \subseteq {r.id : r \in Chunk(a)}, NEW b, b = [a EXCEPT !.got = got]
    PROVE  /\ AddSound(b) /\ b.rows = a.rows /\ b.kind = a.kind /\ b.latest = a.latest /\ Row(b) = Row(a)
           /\ Creating(b) => Creating(a)
PROOF
<1>1. a \in AddType  BY DEF AddSound
<1>2. b \in AddType  BY <1>1 DEF AddType
<1>3. b.rows = a.rows /\ b.kind = a.kind /\ b.photo = a.photo /\ b.latest = a.latest /\ b.got = got
    BY <1>1 DEF AddType
<1>4. Row(b) = Row(a) /\ Chunk(b) = Chunk(a)  BY <1>3 DEF Row, Chunk
<1>5. AddSound(b)  BY <1>2, <1>3, <1>4 DEF AddSound
<1>6. Creating(b) => Creating(a)  BY <1>3 DEF Creating, Awaited
<1> QED  BY <1>3, <1>4, <1>5, <1>6

LEMMA AnswerGiven ==
    ASSUME FormSide, NEW a \in adds, NEW at, at = "saved" \/ at = "failed",
           NEW ids \in SUBSET {r.id : r \in Chunk(a)}, Answer(a, at, ids),
           UNCHANGED <<form, bulk, checks, fresh>>, doubts \subseteq doubts'
    PROVE  FormSide' /\ FormsMean' \subseteq FormsMean /\ FormsAdd' \subseteq FormsAdd
PROOF
<1> DEFINE got == [at |-> at, ids |-> ids]
           b == [a EXCEPT !.got = got]
<1>1. adds' = (adds \ {a}) \cup {b}  BY DEF Answer
<1>2. AddSound(a)  BY DEF FormSide, AddsSound
<1>3. /\ AddSound(b) /\ b.rows = a.rows /\ b.kind = a.kind /\ b.latest = a.latest /\ Row(b) = Row(a)
      /\ Creating(b) => Creating(a)
  <2>1. ids \subseteq Nat  BY <1>2 DEF AddSound, AddType, Chunk, RowType
  <2>2. got.at # "waiting" /\ got.ids \subseteq {r.id : r \in Chunk(a)}  OBVIOUS
  <2>3. got \in [at : {"waiting", "saved", "failed"}, ids : SUBSET Nat]  BY <2>1
  <2>4. b = [a EXCEPT !.got = got]  OBVIOUS
  <2> HIDE DEF b, got
  <2> QED  BY <1>2, <2>2, <2>3, <2>4, Answered
<1> HIDE DEF b, got
<1>4. \A c \in adds' : c = b \/ c \in adds  BY <1>1
<1>5. FormKnown'  BY DEF FormSide, FormKnown
<1>6. Sending(b) <=> Sending(a)  BY <1>3 DEF Sending
<1>12. ListKnown'
  <2>1. \A c \in adds' : Sending(c) => Entries(c.rows) \subseteq Entries(bulk.file)
      BY <1>3, <1>4, <1>6 DEF FormSide, ListKnown
  <2> QED  BY <2>1, SoundAnyTime DEF FormSide, ListKnown
<1>7. ListKept'
  <2>1. (\A c \in adds' : ~Sending(c)) => \A c \in adds : ~Sending(c)  BY <1>1, <1>6
  <2>2. "removed" \notin doubts' => \A c \in adds' : Sending(c) => c.rows \subseteq bulk.pending
      BY <1>3, <1>4, <1>6 DEF FormSide, ListKept
  <2> QED  BY <2>1, <2>2, SoundAnyTime DEF FormSide, ListKept, Sent
<1>8. AddsSound'
  <2>1. \A c \in adds' : AddSound(c)'  BY <1>3, <1>4, SoundAnyTime DEF FormSide, AddsSound
  <2>2. \A c, d \in adds' : c.latest /\ d.latest => c = d
      BY <1>1, <1>3 DEF FormSide, AddsSound
  <2>3. \A c \in adds' : c.latest => form.open /\ form.busy /\ (c.kind # "rows" => Row(c).entry = form.entry)
      BY <1>3, <1>4 DEF FormSide, AddsSound
  <2> QED  BY <2>1, <2>2, <2>3, SoundAnyTime DEF AddsSound
<1>9. FormMeans' = FormMeans /\ ListMeans' = ListMeans  BY Same
<1>10. AddsMean' \subseteq AddsMean
  <2> SUFFICES ASSUME NEW x \in AddsMean' PROVE x \in AddsMean  OBVIOUS
  <2>1. PICK c \in adds' : x \in Meant(c.rows)  BY SoundAnyTime DEF AddsMean
  <2> QED  BY <1>3, <1>4, <2>1, FormsMeanIs
<1>11. FormsAdd' \subseteq FormsAdd
  <2> SUFFICES ASSUME NEW x \in FormsAdd' PROVE x \in FormsAdd  OBVIOUS
  <2>1. x \in FormMeans' \/ x \in ListMeans' \/ \E c \in adds' : Creating(c) /\ x \in Meant(c.rows)
      BY SoundAnyTime DEF FormsAdd
  <2> QED  BY <1>3, <1>4, <1>9, <2>1, FormsMeanIs
<1> QED  BY <1>5, <1>7, <1>8, <1>9, <1>10, <1>11, <1>12 DEF FormSide, FormsMean

\* What nobody's entries are stays so when nothing is added.
LEMMA UnusedStays ==
    ASSUME Unused, form' = form, bulk' = bulk, Added' \subseteq Added
    PROVE  Unused'
PROOF BY SoundAnyTime DEF Unused, Sent

LEMMA SavedIs ==
    ASSUME NEW a \in adds
    PROVE  /\ people \subseteq Saved(a)
           /\ \A p \in Saved(a) : p \in people
                 \/ \E r \in a.rows : /\ p.id = r.id /\ p.group = a.group /\ p.intent = r.entry /\ p.name = r.name
                                      /\ p = [id |-> r.id, group |-> a.group, intent |-> r.entry, name |-> r.name]
                                      /\ \A q \in people : q.id # r.id
PROOF BY DEF Saved, Accepted, Chunk

LEMMA ServeAddStep ==
    ASSUME KeysInv, NEW a \in adds, ServeAdd(a), UNCHANGED coverVars
    PROVE  KeysInv'
PROOF
<1>1. /\ UNCHANGED <<form, bulk, checks, faces, fresh>> /\ doubts \subseteq doubts' /\ a.kind # "face" /\ Awaited(a)
      /\ people' = people \/ people' = Saved(a)
    BY DEF ServeAdd
<1>2. AddSound(a) /\ fresh \in Nat  BY FormParts
<1>3. FormSide' /\ FormsMean' \subseteq FormsMean /\ FormsAdd' \subseteq FormsAdd
  <2>1. Answer(a, "saved", {r.id : r \in Accepted(a)}) \/ Answer(a, "failed", {})  BY DEF ServeAdd, Fail
  <2>2. {r.id : r \in Accepted(a)} \in SUBSET {r.id : r \in Chunk(a)}  BY DEF Accepted
  <2>3. {} \in SUBSET {r.id : r \in Chunk(a)}  OBVIOUS
  <2>4. FormSide  BY DEF KeysInv
  <2>5. CASE Answer(a, "saved", {r.id : r \in Accepted(a)})
      BY <1>1, <2>2, <2>4, <2>5, AnswerGiven
  <2>6. CASE Answer(a, "failed", {})  BY <1>1, <2>3, <2>4, <2>6, AnswerGiven
  <2> QED  BY <2>1, <2>5, <2>6
<1>4. a.rows \subseteq RowType /\ a.group \in NoGroupOr  BY <1>2 DEF AddSound, AddType
<1>5. Meant(a.rows) \subseteq FormsAdd
  <2>1. Creating(a)  BY <1>1 DEF Creating
  <2> QED  BY <2>1, FormsMeanIs
<1>6. PeopleMean' \subseteq PeopleMean \cup FormsAdd
  <2> SUFFICES ASSUME NEW p \in people' PROVE <<p.id, p.intent>> \in PeopleMean \cup FormsAdd
      BY DEF PeopleMean
  <2>1. CASE p \in people  BY <2>1 DEF PeopleMean
  <2>2. CASE p \notin people
    <3>1. PICK r \in a.rows : p.id = r.id /\ p.intent = r.entry  BY <1>1, <2>2, SavedIs
    <3> QED  BY <1>5, <3>1, MeantIs
  <2> QED  BY <2>1, <2>2
<1>7. FacesMean' = FacesMean /\ CoversMean' = CoversMean  BY <1>1, Same DEF coverVars
<1>8. Means' \subseteq Means  BY <1>3, <1>6, <1>7, PartsMean, MeansParts
<1>9. Added' \subseteq Added  BY <1>3, <1>6 DEF Added
<1>10. PeopleKnown'
  <2>1. people' \subseteq PersonType
    <3> SUFFICES ASSUME NEW p \in people', p \notin people PROVE p \in PersonType  BY DEF KeysInv, PeopleKnown
    <3>1. PICK r \in a.rows : p = [id |-> r.id, group |-> a.group, intent |-> r.entry, name |-> r.name]
        BY <1>1, SavedIs
    <3>2. r.id \in Keys /\ r.entry \in Keys /\ r.name \in NameType  BY <1>4 DEF RowType, Keys
    <3> QED  BY <1>4, <3>1, <3>2 DEF PersonType
  <2>2. ASSUME "removed" \notin doubts', NEW p \in people', NEW q \in people', p.id = q.id PROVE p = q
    <3>1. "removed" \notin doubts  BY <1>1, <2>2
    <3>2. CASE p \in people /\ q \in people  BY <2>2, <3>1, <3>2 DEF KeysInv, PeopleKnown
    <3>3. CASE p \in people /\ q \notin people  BY <1>1, <2>2, <3>3, SavedIs
    <3>4. CASE p \notin people /\ q \in people  BY <1>1, <2>2, <3>4, SavedIs
    <3>5. CASE p \notin people /\ q \notin people
      <4>1. PICK r \in a.rows : p = [id |-> r.id, group |-> a.group, intent |-> r.entry, name |-> r.name]
          BY <1>1, <3>5, SavedIs
      <4>2. PICK s \in a.rows : q = [id |-> s.id, group |-> a.group, intent |-> s.entry, name |-> s.name]
          BY <1>1, <3>5, SavedIs
      <4>3. r.id = s.id  BY <2>2, <4>1, <4>2
      <4>4. <<r.id, r.entry>> \in Means /\ <<s.id, s.entry>> \in Means  BY <1>5, MeantIs, PartsMean
      <4>5. r.entry = s.entry  BY <3>1, <4>3, <4>4 DEF KeysInv, OnePerson
      <4> QED  BY <1>2, <4>1, <4>2, <4>5 DEF AddSound, OneEach
    <3> QED  BY <3>2, <3>3, <3>4, <3>5
  <2> QED  BY <1>1, <2>1, <2>2 DEF KeysInv, PeopleKnown
<1>11. NewFaces' = NewFaces /\ shots' = shots  BY Same DEF coverVars
<1>12. Certain' => OneKey' /\ Unused'
    BY <1>1, <1>9, <1>11, CertainStays, OneKeyShrinks, UnusedStays DEF KeysInv
<1>13. CoverSide'  BY <1>1, <1>2, CoversStay DEF KeysInv
<1>14. OneDialog'  BY <1>1 DEF KeysInv, OneDialog, coverVars
<1> QED  BY <1>1, <1>2, <1>3, <1>8, <1>10, <1>12, <1>13, <1>14, KeysShrink

LEMMA ServeFaceStep ==
    ASSUME KeysInv, NEW a \in adds, ServeFace(a), UNCHANGED coverVars
    PROVE  KeysInv'
PROOF
<1> DEFINE new == [member |-> Row(a).id, of |-> a.photo.of]
<1>1. /\ UNCHANGED <<form, bulk, checks, people, fresh, doubts>> /\ a.kind = "face"
      /\ \A f \in faces' : f \in faces \/ f = new
      /\ Answer(a, "saved", {Row(a).id}) \/ Answer(a, "failed", {})
    BY DEF ServeFace, Fail
<1>2. AddSound(a) /\ fresh \in Nat  BY FormParts
<1>3. a.rows = {Row(a)} /\ a.photo # None /\ a.photo.of = Row(a).entry  BY <1>1, <1>2 DEF AddSound
<1>4. Row(a) \in Chunk(a)  BY <1>1, <1>3 DEF Chunk
<1>5. FormSide' /\ FormsMean' \subseteq FormsMean /\ FormsAdd' \subseteq FormsAdd
  <2>1. {Row(a).id} \in SUBSET {r.id : r \in Chunk(a)}  BY <1>4
  <2>2. {} \in SUBSET {r.id : r \in Chunk(a)}  OBVIOUS
  <2>3. FormSide  BY DEF KeysInv
  <2>4. CASE Answer(a, "saved", {Row(a).id})  BY <1>1, <2>1, <2>3, <2>4, AnswerGiven
  <2>5. CASE Answer(a, "failed", {})  BY <1>1, <2>2, <2>3, <2>5, AnswerGiven
  <2> QED  BY <1>1, <2>4, <2>5
<1>6. Row(a) \in RowType  BY <1>2, <1>3 DEF AddSound, AddType
<1>7. new \in [member : Keys, of : Keys]  BY <1>3, <1>6 DEF RowType, Keys
<1>8. <<new.member, new.of>> \in FormsMean
  <2>1. <<Row(a).id, Row(a).entry>> \in Meant(a.rows)  BY <1>3, MeantIs
  <2> QED  BY <1>3, <2>1, FormsMeanIs DEF FormsMean
<1> HIDE DEF new
<1>9. FacesMean' \subseteq FacesMean \cup FormsMean  BY <1>1, <1>8 DEF FacesMean
<1>10. PeopleMean' = PeopleMean /\ CoversMean' = CoversMean  BY <1>1, Same DEF coverVars
<1>11. Means' \subseteq Means  BY <1>5, <1>9, <1>10, PartsMean, MeansParts
<1>12. Added' \subseteq Added  BY <1>5, <1>10 DEF Added
<1>13. PeopleKnown'  BY <1>1, <1>7 DEF KeysInv, PeopleKnown
<1>14. NewFaces' = NewFaces /\ shots' = shots  BY Same DEF coverVars
<1>15. Certain' => OneKey' /\ Unused'
    BY <1>1, <1>12, <1>14, CertainStays, OneKeyShrinks, UnusedStays DEF KeysInv
<1>16. CoverSide'  BY <1>1, <1>2, CoversStay DEF KeysInv
<1>17. OneDialog'  BY <1>1 DEF KeysInv, OneDialog, coverVars
<1> QED  BY <1>1, <1>2, <1>5, <1>11, <1>13, <1>15, <1>16, <1>17, KeysShrink

\* A request is answered; when it is the form's, another may be made.
LEMMA NotBusy ==
    ASSUME form \in FormType
    PROVE  LET f == [form EXCEPT !.busy = FALSE]
           IN  /\ f \in FormType /\ f.open = form.open /\ f.entry = form.entry /\ f.photo = form.photo
               /\ f.name = form.name /\ f.saved = form.saved /\ f.request = form.request
PROOF BY DEF FormType

LEMMA RequestGone ==
    ASSUME KeysInv, NEW a \in adds, ~Sending(a), adds' = adds \ {a}, doubts \subseteq doubts',
           UNCHANGED <<people, faces, bulk, checks, fresh>>, UNCHANGED coverVars,
           \/ ~a.latest /\ form' = form
           \/ a.latest /\ form' = [form EXCEPT !.busy = FALSE]
    PROVE  KeysInv'
PROOF
<1>1. /\ form \in FormType /\ fresh \in Nat /\ FormSide /\ (a.latest => form.open)
      /\ \A b, c \in adds : b.latest /\ c.latest => b = c
    BY FormParts DEF KeysInv
<1>2. /\ form' \in FormType /\ form'.open = form.open /\ form'.entry = form.entry /\ form'.photo = form.photo
      /\ form'.name = form.name /\ form'.saved = form.saved /\ form'.request = form.request
    BY <1>1, NotBusy
<1>3. FormKnown'
  <2>1. ~form'.open => form' = NoForm /\ bulk' = NoBulk  BY <1>1, <1>2 DEF FormSide, FormKnown
  <2> QED  BY <1>1, <1>2, <2>1 DEF FormSide, FormKnown
<1>4. ListKnown'  BY <1>1, <1>2, SoundAnyTime DEF FormSide, ListKnown
<1>5. ListKept'
  <2>1. (\A c \in adds' : ~Sending(c)) => \A c \in adds : ~Sending(c)  OBVIOUS
  <2> QED  BY <1>1, <2>1, SoundAnyTime DEF FormSide, ListKept, Sent
<1>6. AddsSound'
  <2>1. \A b \in adds' : AddSound(b)'  BY <1>1, SoundAnyTime DEF FormSide, AddsSound
  <2>2. ASSUME NEW b \in adds', b.latest PROVE form'.open /\ form'.busy /\ (b.kind # "rows" => Row(b).entry = form'.entry)
    <3>1. b \in adds /\ b # a  OBVIOUS
    <3>2. ~a.latest  BY <1>1, <2>2, <3>1
    <3>3. form' = form  BY <3>2
    <3> QED  BY <1>1, <2>2, <3>1, <3>3 DEF FormSide, AddsSound
  <2> QED  BY <1>1, <2>1, <2>2, SoundAnyTime DEF AddsSound
<1>7. FormMeans' = FormMeans /\ ListMeans' = ListMeans  BY <1>2, Same DEF FormMeans
<1>8. AddsMean' \subseteq AddsMean  BY DEF AddsMean, Meant
<1>9. FormsAdd' \subseteq FormsAdd
  <2> SUFFICES ASSUME NEW x \in FormsAdd' PROVE x \in FormsAdd  OBVIOUS
  <2>1. x \in FormMeans' \/ x \in ListMeans' \/ \E c \in adds' : Creating(c) /\ x \in Meant(c.rows)
      BY SoundAnyTime DEF FormsAdd
  <2> QED  BY <1>7, <2>1, FormsMeanIs
<1>10. Added' \subseteq Added  BY <1>9, Same DEF Added
<1>11. Certain' => Unused'
  <2>1. Certain' => Unused  BY CertainStays DEF KeysInv
  <2> QED  BY <1>2, <1>10, <2>1, SoundAnyTime DEF Unused, Sent
<1>12. OneDialog'  BY <1>2 DEF KeysInv, OneDialog, coverVars
<1>13. FormsMean' \subseteq Means /\ FormsAdd' \subseteq Added  BY <1>7, <1>8, <1>9, PartsMean DEF FormsMean
<1>14. FormSide'  BY <1>3, <1>4, <1>5, <1>6 DEF FormSide
<1> QED  BY <1>1, <1>11, <1>12, <1>13, <1>14, FormShrinks

\* The form closes with its request.
LEMMA RequestCloses ==
    ASSUME KeysInv, NEW a \in adds, a.latest, adds' = adds \ {a}, doubts \subseteq doubts', ResetForm,
           UNCHANGED <<people, faces, fresh>>, UNCHANGED coverVars
    PROVE  KeysInv'
PROOF
<1>1. \A b \in adds' : ~b.latest /\ \E c \in adds : b = c \/ b = [c EXCEPT !.latest = FALSE]
    BY FormParts
<1> QED  BY <1>1, ResetStep

\* The member is added, its face is stored next.
LEMMA FaceNext ==
    ASSUME KeysInv, NEW a \in adds, a.latest, a.kind = "member", a.photo # None,
           form' = [form EXCEPT !.saved = Row(a).id],
           adds' = (adds \ {a}) \cup {[a EXCEPT !.kind = "face", !.got = Unanswered]},
           doubts \subseteq doubts', UNCHANGED <<people, faces, bulk, checks, fresh>>, UNCHANGED coverVars
    PROVE  KeysInv'
PROOF
<1> DEFINE b == [a EXCEPT !.kind = "face", !.got = Unanswered]
<1>1. /\ form \in FormType /\ fresh \in Nat /\ FormSide /\ form.open /\ form.busy /\ AddSound(a)
      /\ \A c, d \in adds : c.latest /\ d.latest => c = d
    BY FormParts DEF KeysInv
<1>2. a \in AddType /\ a.rows = {Row(a)} /\ a.photo.of = Row(a).entry  BY <1>1 DEF AddSound
<1>3. Row(a) \in RowType /\ Row(a).entry = form.entry  BY <1>1, <1>2 DEF AddType, FormSide, AddsSound
<1>4. Row(a).id \in Nat  BY <1>3 DEF RowType
<1>5. Unanswered \in [at : {"waiting", "saved", "failed"}, ids : SUBSET Nat] /\ Unanswered.ids = {}
    BY DEF Unanswered
<1>6. b \in AddType  BY <1>2, <1>5 DEF AddType
<1>7. b.kind = "face" /\ b.rows = a.rows /\ b.photo = a.photo /\ b.latest = a.latest /\ b.got = Unanswered
    BY <1>2 DEF AddType
<1>8. adds' = (adds \ {a}) \cup {b}  OBVIOUS
<1> HIDE DEF b
<1>9. Row(b) = Row(a)  BY <1>7 DEF Row
<1>10. AddSound(b)  BY <1>1, <1>2, <1>5, <1>6, <1>7, <1>9 DEF AddSound
<1>11. /\ form' \in FormType /\ form'.open = form.open /\ form'.busy = form.busy /\ form'.entry = form.entry
       /\ form'.photo = form.photo /\ form'.request = form.request /\ form'.name = form.name
       /\ form'.saved = Row(a).id
    BY <1>1, <1>4 DEF FormType
<1>12. FormKnown'  BY <1>1, <1>11 DEF FormSide, FormKnown
<1>14. \A c \in adds' : c = b \/ c \in adds  BY <1>8
<1>13. ListKnown'
  <2>1. \A c \in adds' : Sending(c) => c \in adds  BY <1>7, <1>14 DEF Sending
  <2> QED  BY <1>1, <1>11, <2>1, SoundAnyTime DEF FormSide, ListKnown
<1>15. ListKept'
  <2>1. ~Sending(a) /\ ~Sending(b)  BY <1>7 DEF Sending
  <2>2. (\A c \in adds' : ~Sending(c)) => \A c \in adds : ~Sending(c)  BY <1>8, <2>1
  <2>3. \A c \in adds' : Sending(c) => c \in adds  BY <1>14, <2>1
  <2> QED  BY <1>1, <2>2, <2>3, SoundAnyTime DEF FormSide, ListKept, Sent
<1>16. AddsSound'
  <2>1. \A c \in adds' : AddSound(c)'  BY <1>1, <1>10, <1>14, SoundAnyTime DEF FormSide, AddsSound
  <2>2. \A c \in adds' : c.latest => c = b  BY <1>1, <1>8
  <2>3. form'.busy  BY <1>1, <1>11
  <2>4. Row(b)' = Row(a)  BY <1>9, SoundAnyTime
  <2> QED  BY <1>1, <1>3, <1>11, <2>1, <2>2, <2>3, <2>4 DEF AddsSound
<1>17. <<Row(a).id, Row(a).entry>> \in FormsAdd
  <2>1. Creating(a)  BY DEF Creating
  <2>2. <<Row(a).id, Row(a).entry>> \in Meant(a.rows)  BY <1>2, MeantIs
  <2> QED  BY <2>1, <2>2, FormsMeanIs
<1>18. FormMeans' \subseteq FormMeans \cup {<<Row(a).id, Row(a).entry>>}  BY <1>3, <1>11 DEF FormMeans
<1>19. FormMeans' \subseteq FormMeans \cup FormsAdd  BY <1>17, <1>18
<1>20. ListMeans' = ListMeans  BY Same
<1>21. AddsMean' \subseteq AddsMean
  <2> SUFFICES ASSUME NEW x \in AddsMean' PROVE x \in AddsMean  OBVIOUS
  <2>1. PICK c \in adds' : x \in Meant(c.rows)  BY SoundAnyTime DEF AddsMean
  <2> QED  BY <1>7, <1>14, <2>1, FormsMeanIs
<1>22. FormsAdd' \subseteq FormsAdd
  <2> SUFFICES ASSUME NEW x \in FormsAdd' PROVE x \in FormsAdd  OBVIOUS
  <2>1. ~Creating(b)  BY <1>7 DEF Creating
  <2>2. x \in FormMeans' \/ x \in ListMeans' \/ \E c \in adds' : Creating(c) /\ x \in Meant(c.rows)
      BY SoundAnyTime DEF FormsAdd
  <2> QED  BY <1>14, <1>19, <1>20, <2>1, <2>2, FormsMeanIs
<1>23. Added' \subseteq Added  BY <1>22, Same DEF Added
<1>24. Certain' => Unused'
  <2>1. Certain' => Unused  BY CertainStays DEF KeysInv
  <2>2. form'.saved # None  BY <1>4, <1>11, EnrollmentAssumption
  <2> QED  BY <1>11, <1>23, <2>1, <2>2, SoundAnyTime DEF Unused, Sent
<1>25. OneDialog'  BY <1>11 DEF KeysInv, OneDialog, coverVars
<1>26. FormsMean' \subseteq Means /\ FormsAdd' \subseteq Added  BY <1>19, <1>20, <1>21, <1>22, PartsMean DEF FormsMean
<1>27. FormSide'  BY <1>12, <1>13, <1>15, <1>16 DEF FormSide
<1> QED  BY <1>1, <1>24, <1>25, <1>26, <1>27, FormShrinks

LEMMA AnswerAddStep ==
    ASSUME KeysInv, NEW a \in adds, AnswerAdd(a), UNCHANGED coverVars
    PROVE  KeysInv'
PROOF
<1>1. a.kind = "member" /\ UNCHANGED <<people, faces, fresh>> /\ doubts \subseteq doubts'  BY DEF AnswerAdd
<1>2. CASE IsCurrentForm(a) /\ Succeeded(a)
  <2>1. a.latest /\ MemberAdded(a)  BY <1>2 DEF AnswerAdd, IsCurrentForm
  <2>2. CASE a.photo = None
    <3>1. ResetForm /\ adds' = adds \ {a}  BY <2>1, <2>2 DEF MemberAdded
    <3> QED  BY <1>1, <2>1, <3>1, RequestCloses
  <2>3. CASE a.photo # None
    <3>1. /\ form' = [form EXCEPT !.saved = Row(a).id]
          /\ adds' = (adds \ {a}) \cup {[a EXCEPT !.kind = "face", !.got = Unanswered]}
          /\ UNCHANGED <<bulk, checks>>
        BY <2>1, <2>3 DEF MemberAdded
    <3> QED  BY <1>1, <2>1, <2>3, <3>1, FaceNext
  <2> QED  BY <2>2, <2>3
<1>3. CASE ~(IsCurrentForm(a) /\ Succeeded(a))
  <2>1. adds' = adds \ {a} /\ UNCHANGED <<bulk, checks>>  BY <1>3 DEF AnswerAdd
  <2>2. \/ ~a.latest /\ form' = form
        \/ a.latest /\ form' = [form EXCEPT !.busy = FALSE]
      BY <1>3 DEF AnswerAdd, IsCurrentForm
  <2>3. ~Sending(a)  BY <1>1 DEF Sending
  <2> QED  BY <1>1, <2>1, <2>2, <2>3, RequestGone
<1> QED  BY <1>2, <1>3

LEMMA AnswerFaceStep ==
    ASSUME KeysInv, NEW a \in adds, AnswerFace(a), UNCHANGED coverVars
    PROVE  KeysInv'
PROOF
<1>1. a.kind = "face" /\ UNCHANGED <<people, faces, fresh>> /\ doubts \subseteq doubts' /\ adds' = adds \ {a}
    BY DEF AnswerFace
<1>2. CASE IsCurrentForm(a) /\ Succeeded(a)
  <2>1. a.latest /\ ResetForm  BY <1>2 DEF AnswerFace, IsCurrentForm, CloseSaved
  <2> QED  BY <1>1, <2>1, RequestCloses
<1>3. CASE ~(IsCurrentForm(a) /\ Succeeded(a))
  <2>1. UNCHANGED <<bulk, checks>>  BY <1>3 DEF AnswerFace
  <2>2. \/ ~a.latest /\ form' = form
        \/ a.latest /\ form' = [form EXCEPT !.busy = FALSE]
      BY <1>3 DEF AnswerFace, IsCurrentForm
  <2>3. ~Sending(a)  BY <1>1 DEF Sending
  <2> QED  BY <1>1, <2>1, <2>2, <2>3, RequestGone
<1> QED  BY <1>2, <1>3

(***************************************************************************)
(* The list: its rows and the text of them.                                *)
(***************************************************************************)
\* The order of rows: a place belongs to one entry.
LEMMA PlaceIs ==
    ASSUME NEW rows, Entries(rows) \subseteq Nat, IsFiniteSet(Entries(rows))
    PROVE  /\ Cardinality(Entries(rows)) \in Nat
           /\ \A e \in Entries(rows) : /\ Place(e, rows) \in Nat /\ 1 <= Place(e, rows)
                                       /\ Place(e, rows) <= Cardinality(Entries(rows))
           /\ \A e, f \in Entries(rows) : Place(e, rows) = Place(f, rows) => e = f
PROOF
<1> DEFINE S == Entries(rows)
           Upto(e) == {x \in S : x <= e}
<1>1. \A e : Place(e, rows) = Cardinality(Upto(e))  BY DEF Place
<1> HIDE DEF S
<1>2. S \subseteq Nat /\ IsFiniteSet(S)  BY DEF S
<1>3. Cardinality(S) \in Nat  BY <1>2, FS_CardinalityType
<1>4. \A e : IsFiniteSet(Upto(e)) /\ Cardinality(Upto(e)) \in Nat /\ Cardinality(Upto(e)) <= Cardinality(S)
  <2> TAKE e
  <2>1. Upto(e) \in SUBSET S  OBVIOUS
  <2> HIDE DEF Upto
  <2> QED  BY <1>2, <2>1, FS_Subset, FS_CardinalityType
<1>5. \A e \in S : Cardinality(Upto(e)) # 0
  <2> TAKE e \in S
  <2>1. e \in Upto(e)  BY <1>2
  <2> HIDE DEF Upto
  <2> QED  BY <1>4, <2>1, FS_EmptySet
<1>6. ASSUME NEW e \in S, NEW f \in S, e < f PROVE Cardinality(Upto(e)) # Cardinality(Upto(f))
  <2>1. Upto(e) \in SUBSET Upto(f)
    <3>1. e \in Nat /\ f \in Nat  BY <1>2
    <3>2. \A x \in Nat : x <= e => x <= f  BY <1>6, <3>1
    <3> QED  BY <1>2, <3>2
  <2>2. f \in Upto(f) /\ f \notin Upto(e)  BY <1>2, <1>6
  <2> HIDE DEF Upto
  <2> QED  BY <1>4, <2>1, <2>2, FS_Subset
<1>7. \A e, f \in S : Cardinality(Upto(e)) = Cardinality(Upto(f)) => e = f
  <2>1. \A e, f \in S : e = f \/ e < f \/ f < e  BY <1>2
  <2> QED  BY <1>6, <2>1
<1>8. \A e \in S : 1 <= Cardinality(Upto(e))  BY <1>4, <1>5
<1> HIDE DEF Upto
<1> QED  BY <1>1, <1>3, <1>4, <1>7, <1>8 DEF S

\* The text of the list, with the rows of it that are saved or not.
LEMMA ListWith ==
    ASSUME bulk \in ListType, NEW T \in SUBSET KeyType
    PROVE  LET b == [bulk EXCEPT !.text = T]
           IN  /\ b \in ListType /\ b.text = T /\ b.includes = bulk.includes
               /\ b.file = bulk.file /\ b.pending = bulk.pending /\ b.completed = bulk.completed
PROOF BY DEF ListType

LEMMA ListEdited ==
    ASSUME KeysInv, form.open, ~form.busy, UNCHANGED <<people, faces, form, checks, adds, fresh>>, UNCHANGED coverVars,
           doubts \subseteq doubts', bulk' \in ListType,
           bulk'.file = bulk.file, bulk'.pending = bulk.pending, bulk'.completed = bulk.completed,
           OneEach(bulk'.text), Entries(bulk'.text) \subseteq Entries(bulk.file),
           bulk'.includes => bulk.completed # {},
           "removed" \notin doubts' =>
              Entries(bulk'.text) = IF bulk'.includes \/ Sent = {} THEN Entries(bulk.file) ELSE Entries(bulk.pending)
    PROVE  KeysInv'
PROOF
<1>1. /\ form \in FormType /\ fresh \in Nat /\ FormSide /\ \A a \in adds : ~a.latest
    BY FormParts DEF KeysInv
<1>2. FormKnown'  BY <1>1 DEF FormSide, FormKnown
<1>3. ListKnown'  BY <1>1, SoundAnyTime DEF FormSide, ListKnown
<1>4. ListKept'  BY <1>1, SoundAnyTime DEF FormSide, ListKept, Sent
<1>5. AddsSound'  BY <1>1, SoundAnyTime DEF FormSide, AddsSound
<1>6. FormMeans' = FormMeans /\ ListMeans' = ListMeans /\ AddsMean' = AddsMean  BY Same, SoundAnyTime DEF ListMeans
<1>7. FormsMean' = FormsMean /\ FormsAdd' = FormsAdd
    BY <1>6, SoundAnyTime DEF FormsMean, FormsAdd
<1>8. Added' = Added  BY <1>7, Same DEF Added
<1>9. Certain' => Unused'
  <2>1. Certain' => Unused  BY CertainStays DEF KeysInv
  <2> QED  BY <1>8, <2>1, SoundAnyTime DEF Unused, Sent
<1>10. OneDialog'  BY DEF KeysInv, OneDialog, coverVars
<1>11. FormsMean' \subseteq Means /\ FormsAdd' \subseteq Added  BY <1>7, PartsMean
<1>12. FormSide'  BY <1>2, <1>3, <1>4, <1>5 DEF FormSide
<1> QED  BY <1>1, <1>9, <1>10, <1>11, <1>12, FormShrinks

LEMMA ListParts ==
    ASSUME KeysInv
    PROVE  /\ bulk \in ListType /\ OneEach(bulk.text) /\ OneEach(bulk.file) /\ OneEach(bulk.pending)
           /\ Entries(bulk.text) \subseteq Entries(bulk.file) /\ Entries(bulk.pending) \subseteq Entries(bulk.file)
           /\ Entries(bulk.completed) \subseteq Entries(bulk.file) /\ Entries(bulk.file) \subseteq Nat
           /\ \A e \in Entries(bulk.file) : e <= fresh /\ e # form.entry
           /\ bulk.text \subseteq KeyType /\ bulk.file \subseteq KeyType
           /\ bulk.pending \subseteq RowType /\ bulk.completed \subseteq RowType
           /\ bulk.includes => bulk.completed # {}
           /\ "removed" \notin doubts => OneEach(Sent) /\ bulk.pending \cap bulk.completed = {}
           /\ "removed" \notin doubts /\ ~form.busy =>
                 Entries(bulk.text) = IF bulk.includes \/ Sent = {} THEN Entries(bulk.file) ELSE Entries(bulk.pending)
           /\ "removed" \notin doubts /\ Sent # {} =>
                 Entries(bulk.file) = Entries(bulk.pending) \cup Entries(bulk.completed)
PROOF
<1>1. ListKnown /\ ListKept /\ AddsSound /\ fresh \in Nat  BY FormParts DEF KeysInv, FormSide
<1>2. ~form.busy => \A a \in adds : ~Sending(a)  BY <1>1 DEF AddsSound, Sending
<1>3. bulk.text \subseteq KeyType /\ bulk.file \subseteq KeyType
      /\ bulk.pending \subseteq RowType /\ bulk.completed \subseteq RowType
    BY <1>1 DEF ListKnown, ListType
<1>4. Entries(bulk.file) \subseteq Nat /\ \A e \in Entries(bulk.file) : e <= fresh /\ e # form.entry
  <2>1. Entries(bulk.file) \subseteq (1 .. fresh) \ {form.entry}  BY <1>1 DEF ListKnown
  <2> QED  BY <1>1, <2>1
<1> QED  BY <1>1, <1>2, <1>3, <1>4 DEF ListKnown, ListKept

LEMMA EditRowStep ==
    ASSUME KeysInv, NEW row \in bulk.text, EditRow(row), UNCHANGED coverVars
    PROVE  KeysInv'
PROOF
<1>1. /\ form.open /\ ~form.busy /\ UNCHANGED <<people, faces, form, checks, adds, fresh>>
      /\ doubts \subseteq doubts'
    BY DEF EditRow, FormShown
<1>2. row \in KeyType /\ row.entry \in Nat /\ row.name \in {0, 1}  BY ListParts DEF KeyType, NameType
<1> DEFINE name == 1 - row.name
           new == [row EXCEPT !.name = name]
<1>3. name \in {0, 1}  BY <1>2
<1> HIDE DEF name
<1>4. new \in KeyType /\ new.entry = row.entry  BY <1>2, <1>3 DEF KeyType, NameType
<1>5. CASE bulk' = [bulk EXCEPT !.text = (bulk.text \ {row}) \cup {new}]
  <2> DEFINE T == (bulk.text \ {row}) \cup {new}
  <2> HIDE DEF new
  <2>1. T \in SUBSET KeyType  BY <1>4, ListParts
  <2>2. Entries(T) = Entries(bulk.text)  BY <1>4 DEF Entries
  <2>3. OneEach(T)  BY <1>4, ListParts DEF OneEach
  <2>4. bulk' = [bulk EXCEPT !.text = T]  BY <1>5
  <2> HIDE DEF T
  <2>5. /\ bulk' \in ListType /\ bulk'.text = T /\ bulk'.file = bulk.file /\ bulk'.pending = bulk.pending
        /\ bulk'.completed = bulk.completed /\ bulk'.includes = bulk.includes
      BY <2>1, <2>4, ListParts, ListWith
  <2> QED  BY <1>1, <2>2, <2>3, <2>5, ListParts, ListEdited
<1>6. CASE bulk' = [bulk EXCEPT !.text = bulk.text \ {row}] /\ doubts' = doubts \cup {"removed"}
  <2> DEFINE T == bulk.text \ {row}
  <2>1. T \in SUBSET KeyType  BY ListParts
  <2>2. Entries(T) \subseteq Entries(bulk.text)  BY DEF Entries
  <2>3. OneEach(T)  BY ListParts DEF OneEach
  <2>4. bulk' = [bulk EXCEPT !.text = T]  BY <1>6
  <2> HIDE DEF T
  <2>5. /\ bulk' \in ListType /\ bulk'.text = T /\ bulk'.file = bulk.file /\ bulk'.pending = bulk.pending
        /\ bulk'.completed = bulk.completed /\ bulk'.includes = bulk.includes
      BY <2>1, <2>4, ListParts, ListWith
  <2> QED  BY <1>1, <1>6, <2>2, <2>3, <2>5, ListParts, ListEdited
<1> QED  BY <1>5, <1>6 DEF EditRow, name, new

LEMMA ReimportStep ==
    ASSUME KeysInv, ReimportFile, UNCHANGED coverVars
    PROVE  KeysInv'
PROOF
<1>1. /\ form.open /\ ~form.busy /\ UNCHANGED <<people, faces, form, checks, adds, fresh, doubts>>
    BY DEF ReimportFile, FormShown
<1> DEFINE i == (bulk.completed # {})
<1>2. bulk' = [bulk EXCEPT !.text = bulk.file, !.includes = i]  BY DEF ReimportFile
<1>3. i \in BOOLEAN /\ bulk.file \in SUBSET KeyType  BY ListParts
<1>4. i <=> bulk.completed # {}  OBVIOUS
<1> HIDE DEF i
<1>5. /\ bulk' \in ListType /\ bulk'.text = bulk.file /\ bulk'.file = bulk.file /\ bulk'.pending = bulk.pending
      /\ bulk'.completed = bulk.completed /\ bulk'.includes = i
  <2>1. bulk \in ListType  BY ListParts
  <2> QED  BY <1>2, <1>3, <2>1 DEF ListType
<1>6. "removed" \notin doubts /\ ~i /\ Sent # {} => Entries(bulk.file) = Entries(bulk.pending)
  <2>1. ~i => Entries(bulk.completed) = {}  BY <1>4, MeantIs
  <2> QED  BY <2>1, ListParts
<1> QED  BY <1>1, <1>4, <1>5, <1>6, ListParts, ListEdited

(***************************************************************************)
(* The list: what the service has saved of it.                             *)
(***************************************************************************)
LEMMA Checkpoints ==
    ASSUME KeysInv, NEW a \in adds, Sending(a), NEW b, b = Checkpointed(a)
    PROVE  /\ b \in ListType /\ b.file = bulk.file /\ b.text = bulk.text /\ b.includes = bulk.includes
           /\ bulk.completed \subseteq b.completed /\ OneEach(b.pending)
           /\ Entries(b.pending) \subseteq Entries(bulk.file) /\ Entries(b.completed) \subseteq Entries(bulk.file)
           /\ Meant(b.pending \cup b.completed) \subseteq ListMeans \cup Meant(a.rows)
           /\ "removed" \notin doubts =>
                 /\ b.pending \cup b.completed = Sent /\ b.pending \cap b.completed = {}
                 /\ a.rows \ Chunk(a) \subseteq b.pending /\ Sent # {}
PROOF
<1> DEFINE P == {k \in bulk.pending : k.id \notin a.got.ids}
           C == bulk.completed \cup {k \in Chunk(a) : k.id \in a.got.ids}
<1>1. /\ bulk \in ListType /\ bulk.pending \subseteq RowType /\ bulk.completed \subseteq RowType
      /\ OneEach(bulk.pending) /\ Entries(bulk.pending) \subseteq Entries(bulk.file)
      /\ Entries(bulk.completed) \subseteq Entries(bulk.file)
    BY ListParts
<1>2. AddSound(a) /\ Entries(a.rows) \subseteq Entries(bulk.file)
    BY FormParts DEF KeysInv, FormSide, ListKnown
<1>3. /\ a.rows \subseteq RowType /\ a.rows # {} /\ OneEach(a.rows) /\ a.got.ids \subseteq {r.id : r \in Chunk(a)}
    BY <1>2 DEF AddSound, AddType
<1>4. Chunk(a) \subseteq a.rows  BY DEF Chunk
<1>5. b = [bulk EXCEPT !.completed = C, !.pending = P]  BY DEF Checkpointed
<1>6. P \in SUBSET RowType /\ C \in SUBSET RowType  BY <1>1, <1>3, <1>4
<1>7. P \subseteq bulk.pending /\ \A k \in C : k \in bulk.completed \/ k \in a.rows  BY <1>4
<1>8. "removed" \notin doubts => P \cup C = Sent /\ P \cap C = {} /\ a.rows \ Chunk(a) \subseteq P
  <2> SUFFICES ASSUME "removed" \notin doubts
               PROVE  P \cup C = Sent /\ P \cap C = {} /\ a.rows \ Chunk(a) \subseteq P
      OBVIOUS
  <2>1. a.rows \subseteq bulk.pending /\ bulk.pending \cap bulk.completed = {}
      BY DEF KeysInv, FormSide, ListKept
  <2>2. \A k \in bulk.pending, r \in a.rows : k.id = r.id => k = r
    <3> SUFFICES ASSUME NEW k \in bulk.pending, NEW r \in a.rows, k.id = r.id PROVE k = r  OBVIOUS
    <3>1. <<k.id, k.entry>> \in ListMeans /\ <<r.id, r.entry>> \in ListMeans  BY <2>1, MeantIs DEF ListMeans
    <3>2. k.entry = r.entry  BY <3>1, PartsMean DEF KeysInv, OnePerson, FormsMean
    <3> QED  BY <1>1, <2>1, <3>2 DEF OneEach
  <2>3. \A k \in bulk.pending : k.id \in a.got.ids => k \in Chunk(a)
    <3> SUFFICES ASSUME NEW k \in bulk.pending, k.id \in a.got.ids PROVE k \in Chunk(a)  OBVIOUS
    <3>1. PICK r \in Chunk(a) : k.id = r.id  BY <1>3
    <3> QED  BY <1>4, <2>2, <3>1
  <2>4. \A k \in a.rows : k.id \in a.got.ids => k \in Chunk(a)  BY <2>1, <2>3
  <2>5. P \cup C = Sent  BY <1>4, <2>1, <2>3 DEF Sent
  <2>6. P \cap C = {}  BY <2>1
  <2>7. a.rows \ Chunk(a) \subseteq P  BY <2>1, <2>4
  <2> QED  BY <2>5, <2>6, <2>7
<1>9. "removed" \notin doubts => Sent # {}  BY <1>3 DEF KeysInv, FormSide, ListKept, Sent
<1>10. bulk.completed \subseteq C  OBVIOUS
<1> HIDE DEF P, C
<1>11. /\ b \in ListType /\ b.file = bulk.file /\ b.text = bulk.text /\ b.includes = bulk.includes
       /\ b.completed = C /\ b.pending = P
    BY <1>1, <1>5, <1>6 DEF ListType
<1>12. OneEach(P)  BY <1>1, <1>7 DEF OneEach
<1>13. Entries(P) \subseteq Entries(bulk.file) /\ Entries(C) \subseteq Entries(bulk.file)
  <2>1. Entries(P) \subseteq Entries(bulk.pending)  BY <1>7 DEF Entries
  <2>2. Entries(C) \subseteq Entries(bulk.completed) \cup Entries(a.rows)  BY <1>7 DEF Entries
  <2> QED  BY <1>1, <1>2, <2>1, <2>2
<1>14. Meant(P \cup C) \subseteq ListMeans \cup Meant(a.rows)  BY <1>7 DEF Meant, ListMeans
<1> QED  BY <1>8, <1>9, <1>10, <1>11, <1>12, <1>13, <1>14

\* What is sent and what is asked for after an answer holds no other key.
LEMMA RowsStep ==
    ASSUME KeysInv, NEW a \in adds, Sending(a), UNCHANGED <<people, faces, checks, fresh>>, UNCHANGED coverVars,
           doubts \subseteq doubts', form' = form \/ form' = [form EXCEPT !.busy = FALSE], FormSide',
           bulk'.file = bulk.file, Meant(bulk'.pending \cup bulk'.completed) \subseteq ListMeans \cup Meant(a.rows),
           "removed" \notin doubts => bulk'.pending \cup bulk'.completed = Sent,
           \A b \in adds' : b \in adds \/ b.rows \subseteq a.rows
    PROVE  KeysInv'
PROOF
<1>1. form \in FormType /\ fresh \in Nat  BY FormParts
<1>2. /\ form'.open = form.open /\ form'.entry = form.entry /\ form'.name = form.name
      /\ form'.saved = form.saved /\ form'.request = form.request
    BY <1>1, NotBusy
<1>3. FormMeans' = FormMeans  BY <1>2 DEF FormMeans
<1>4. ListMeans' \subseteq ListMeans \cup Meant(a.rows)  BY SoundAnyTime DEF ListMeans
<1>5. Meant(a.rows) \subseteq FormsAdd
  <2>1. Creating(a)  BY DEF Creating, Sending
  <2> QED  BY <2>1, FormsMeanIs
<1>6. \A b : b.rows \subseteq a.rows => Meant(b.rows) \subseteq Meant(a.rows)  BY DEF Meant
<1>7. AddsMean' \subseteq AddsMean
  <2> SUFFICES ASSUME NEW x \in AddsMean' PROVE x \in AddsMean  OBVIOUS
  <2>1. PICK c \in adds' : x \in Meant(c.rows)  BY SoundAnyTime DEF AddsMean
  <2> QED  BY <1>6, <2>1, FormsMeanIs
<1>8. FormsAdd' \subseteq FormsAdd
  <2> SUFFICES ASSUME NEW x \in FormsAdd' PROVE x \in FormsAdd  OBVIOUS
  <2>1. x \in FormMeans' \/ x \in ListMeans' \/ \E c \in adds' : Creating(c) /\ x \in Meant(c.rows)
      BY SoundAnyTime DEF FormsAdd
  <2> QED  BY <1>3, <1>4, <1>5, <1>6, <2>1, FormsMeanIs
<1>9. Added' \subseteq Added  BY <1>8, Same DEF Added
<1>10. Certain' => Unused'
  <2>1. Certain' => Unused /\ Certain  BY CertainStays DEF KeysInv
  <2>2. Certain => "removed" \notin doubts  BY DEF Certain
  <2>3. Certain' => Sent' = Sent  BY <2>1, <2>2 DEF Sent
  <2> QED  BY <1>2, <1>9, <2>1, <2>3, SoundAnyTime DEF Unused
<1>11. OneDialog'  BY <1>2 DEF KeysInv, OneDialog, coverVars
<1>12. FormsMean' \subseteq Means /\ FormsAdd' \subseteq Added
    BY <1>3, <1>4, <1>5, <1>7, <1>8, PartsMean DEF FormsMean
<1> QED  BY <1>1, <1>10, <1>11, <1>12, FormShrinks

\* The next rows are asked for.
LEMMA RowsGoOn ==
    ASSUME KeysInv, NEW a \in adds, Sending(a), NEW rest, rest = a.rows \ Chunk(a), rest # {},
           UNCHANGED <<people, faces, form, checks, fresh>>, UNCHANGED coverVars, doubts \subseteq doubts',
           NEW grew \in BOOLEAN, bulk' = Checkpointed(a),
           adds' = (adds \ {a}) \cup {[a EXCEPT !.rows = rest, !.created = grew, !.got = Unanswered]}
    PROVE  KeysInv'
PROOF
<1> DEFINE b == [a EXCEPT !.rows = rest, !.created = grew, !.got = Unanswered]
<1>1. /\ FormSide /\ AddSound(a) /\ a.latest /\ form.open /\ form.busy /\ a.kind = "rows"
      /\ \A c, d \in adds : c.latest /\ d.latest => c = d
    BY FormParts DEF KeysInv, Sending
<1>2. a \in AddType /\ OneEach(a.rows)  BY <1>1 DEF AddSound
<1>3. Unanswered \in [at : {"waiting", "saved", "failed"}, ids : SUBSET Nat] /\ Unanswered.ids = {}
    BY DEF Unanswered
<1>4. rest \in SUBSET RowType /\ rest \subseteq a.rows  BY <1>2 DEF AddType
<1>5. b \in AddType  BY <1>2, <1>3, <1>4 DEF AddType
<1>6. b.kind = "rows" /\ b.rows = rest /\ b.latest = a.latest /\ b.got = Unanswered
    BY <1>1, <1>2 DEF AddType
<1>7. adds' = (adds \ {a}) \cup {b}  OBVIOUS
<1> HIDE DEF b
<1>8. AddSound(b)  BY <1>2, <1>3, <1>4, <1>5, <1>6 DEF AddSound, OneEach
<1>9. /\ bulk' \in ListType /\ bulk'.file = bulk.file /\ bulk'.text = bulk.text /\ bulk'.includes = bulk.includes
      /\ bulk.completed \subseteq bulk'.completed /\ OneEach(bulk'.pending)
      /\ Entries(bulk'.pending) \subseteq Entries(bulk.file) /\ Entries(bulk'.completed) \subseteq Entries(bulk.file)
      /\ Meant(bulk'.pending \cup bulk'.completed) \subseteq ListMeans \cup Meant(a.rows)
      /\ "removed" \notin doubts =>
            /\ bulk'.pending \cup bulk'.completed = Sent /\ bulk'.pending \cap bulk'.completed = {}
            /\ rest \subseteq bulk'.pending /\ Sent # {}
    BY Checkpoints
<1>10. Sending(b)  BY <1>1, <1>6 DEF Sending
<1>11. \A c \in adds' : Sending(c) => c = b  BY <1>1, <1>7 DEF Sending
<1>12. FormKnown'  BY <1>1 DEF FormSide, FormKnown
<1>13. ListKnown'
  <2>1. Entries(rest) \subseteq Entries(a.rows)  BY <1>4 DEF Entries
  <2>2. Entries(a.rows) \subseteq Entries(bulk.file)  BY <1>1 DEF FormSide, ListKnown
  <2>3. \A c \in adds' : Sending(c) => Entries(c.rows) \subseteq Entries(bulk'.file)
      BY <1>6, <1>9, <1>11, <2>1, <2>2
  <2>4. bulk'.includes => bulk'.completed # {}  BY <1>1, <1>9 DEF FormSide, ListKnown
  <2> QED  BY <1>1, <1>9, <2>3, <2>4, SoundAnyTime DEF FormSide, ListKnown
<1>14. ListKept'
  <2> SUFFICES ASSUME "removed" \notin doubts' PROVE ListKept'  BY DEF ListKept
  <2>1. "removed" \notin doubts  OBVIOUS
  <2>2. Sent' = Sent  BY <1>9, <2>1 DEF Sent
  <2>3. Entries(bulk'.pending) \cup Entries(bulk'.completed) = Entries(Sent)  BY <2>2 DEF Sent, Entries
  <2>4. Entries(bulk.pending) \cup Entries(bulk.completed) = Entries(Sent)  BY DEF Sent, Entries
  <2>5. Entries(bulk'.file) = Entries(bulk'.pending) \cup Entries(bulk'.completed)
      BY <1>1, <1>9, <2>1, <2>3, <2>4 DEF FormSide, ListKept
  <2>6. \A c \in adds' : Sending(c) => c.rows \subseteq bulk'.pending  BY <1>6, <1>9, <1>11, <2>1
  <2>7. ~ \A c \in adds' : ~Sending(c)  BY <1>7, <1>10
  <2>8. OneEach(Sent)  BY <2>1, ListParts
  <2> QED  BY <1>9, <2>1, <2>2, <2>5, <2>6, <2>7, <2>8, SoundAnyTime DEF ListKept
<1>15. AddsSound'
  <2>1. \A c \in adds' : AddSound(c)'  BY <1>1, <1>7, <1>8, SoundAnyTime DEF FormSide, AddsSound
  <2>2. \A c \in adds' : c.latest => c = b  BY <1>1, <1>7
  <2> QED  BY <1>1, <1>6, <2>1, <2>2 DEF AddsSound
<1>16. \A c \in adds' : c \in adds \/ c.rows \subseteq a.rows  BY <1>4, <1>6, <1>7
<1>17. FormSide'  BY <1>12, <1>13, <1>14, <1>15 DEF FormSide
<1> QED  BY <1>9, <1>16, <1>17, RowsStep

\* The form has the rows that are left, to be sent again.
LEMMA RowsRest ==
    ASSUME KeysInv, NEW a \in adds, Sending(a), adds' = adds \ {a}, form' = [form EXCEPT !.busy = FALSE],
           UNCHANGED <<people, faces, checks, fresh>>, UNCHANGED coverVars, doubts \subseteq doubts',
           bulk' = WithRemainingText(Checkpointed(a))
    PROVE  KeysInv'
PROOF
<1>1. /\ FormSide /\ AddSound(a) /\ a.latest /\ form.open /\ form \in FormType
      /\ \A c, d \in adds : c.latest /\ d.latest => c = d
    BY FormParts DEF KeysInv, Sending
<1> DEFINE b == Checkpointed(a)
           T == {Key(k) : k \in b.pending}
<1>2. /\ b \in ListType /\ b.file = bulk.file /\ b.text = bulk.text /\ b.includes = bulk.includes
      /\ bulk.completed \subseteq b.completed /\ OneEach(b.pending)
      /\ Entries(b.pending) \subseteq Entries(bulk.file) /\ Entries(b.completed) \subseteq Entries(bulk.file)
      /\ Meant(b.pending \cup b.completed) \subseteq ListMeans \cup Meant(a.rows)
      /\ "removed" \notin doubts =>
            b.pending \cup b.completed = Sent /\ b.pending \cap b.completed = {} /\ Sent # {}
    BY Checkpoints
<1>3. bulk' = [b EXCEPT !.includes = FALSE, !.text = T]  BY DEF WithRemainingText
<1> HIDE DEF b
<1>4. b.pending \subseteq RowType  BY <1>2 DEF ListType
<1>5. T \in SUBSET KeyType  BY <1>4 DEF Key, RowType, KeyType
<1>6. Entries(T) = Entries(b.pending)
  <2>1. \A k : Key(k).entry = k.entry  BY DEF Key
  <2> QED  BY <2>1 DEF Entries
<1>7. OneEach(T)  BY <1>2 DEF OneEach, Key
<1> HIDE DEF T
<1>8. /\ bulk' \in ListType /\ bulk'.file = bulk.file /\ bulk'.text = T /\ bulk'.includes = FALSE
      /\ bulk'.pending = b.pending /\ bulk'.completed = b.completed
    BY <1>2, <1>3, <1>5 DEF ListType
<1>9. /\ form' \in FormType /\ form'.open = form.open /\ form'.entry = form.entry /\ form'.photo = form.photo
    BY <1>1, NotBusy
<1>10. \A c \in adds' : c \in adds /\ ~c.latest /\ ~Sending(c)  BY <1>1 DEF Sending
<1>11. FormKnown'  BY <1>1, <1>9 DEF FormSide, FormKnown
<1>12. ListKnown'  BY <1>1, <1>2, <1>6, <1>7, <1>8, <1>9, <1>10, SoundAnyTime DEF FormSide, ListKnown
<1>13. ListKept'
  <2> SUFFICES ASSUME "removed" \notin doubts' PROVE ListKept'  BY DEF ListKept
  <2>1. "removed" \notin doubts  OBVIOUS
  <2>2. Sent' = Sent /\ Sent # {}  BY <1>2, <1>8, <2>1 DEF Sent
  <2>3. Entries(bulk'.pending) \cup Entries(bulk'.completed) = Entries(Sent)  BY <2>2 DEF Sent, Entries
  <2>4. Entries(bulk.pending) \cup Entries(bulk.completed) = Entries(Sent)  BY DEF Sent, Entries
  <2>5. Entries(bulk'.file) = Entries(bulk'.pending) \cup Entries(bulk'.completed)
      BY <1>1, <1>8, <2>1, <2>2, <2>3, <2>4 DEF FormSide, ListKept
  <2>6. OneEach(Sent)  BY <2>1, ListParts
  <2> QED  BY <1>2, <1>6, <1>8, <1>10, <2>1, <2>2, <2>5, <2>6, SoundAnyTime DEF ListKept
<1>14. AddsSound'  BY <1>1, <1>10, SoundAnyTime DEF FormSide, AddsSound
<1>15. FormSide'  BY <1>11, <1>12, <1>13, <1>14 DEF FormSide
<1> QED  BY <1>2, <1>8, <1>10, <1>15, RowsStep

LEMMA AnswerRowsStep ==
    ASSUME KeysInv, NEW a \in adds, AnswerRows(a), UNCHANGED coverVars
    PROVE  KeysInv'
PROOF
<1> DEFINE rest == a.rows \ Chunk(a)
           grew == (a.created \/ a.got.ids # {})
<1>1. a.kind = "rows" /\ UNCHANGED <<people, faces, fresh>> /\ doubts \subseteq doubts'  BY DEF AnswerRows
<1>2. CASE ~a.latest
  <2>1. adds' = adds \ {a} /\ UNCHANGED <<form, bulk, checks>>  BY <1>2 DEF AnswerRows, IsCurrentForm
  <2>2. ~Sending(a)  BY <1>2 DEF Sending
  <2> QED  BY <1>1, <1>2, <2>1, <2>2, RequestGone
<1>3. CASE a.latest
  <2>1. Sending(a)  BY <1>1, <1>3 DEF Sending
  <2>2. \/ /\ rest # {} /\ bulk' = Checkpointed(a) /\ UNCHANGED <<form, checks>>
           /\ adds' = (adds \ {a}) \cup {[a EXCEPT !.rows = rest, !.created = grew, !.got = Unanswered]}
        \/ ResetForm /\ adds' = adds \ {a}
        \/ /\ adds' = adds \ {a} /\ form' = [form EXCEPT !.busy = FALSE] /\ UNCHANGED checks
           /\ bulk' = WithRemainingText(Checkpointed(a))
      BY <1>3 DEF AnswerRows, IsCurrentForm
  <2>3. grew \in BOOLEAN  OBVIOUS
  <2>4. rest = a.rows \ Chunk(a)  OBVIOUS
  <2> HIDE DEF rest, grew
  <2>5. CASE /\ rest # {} /\ bulk' = Checkpointed(a) /\ UNCHANGED <<form, checks>>
             /\ adds' = (adds \ {a}) \cup {[a EXCEPT !.rows = rest, !.created = grew, !.got = Unanswered]}
      BY <1>1, <2>1, <2>3, <2>4, <2>5, RowsGoOn
  <2>6. CASE ResetForm /\ adds' = adds \ {a}  BY <1>1, <1>3, <2>6, RequestCloses
  <2>7. CASE /\ adds' = adds \ {a} /\ form' = [form EXCEPT !.busy = FALSE] /\ UNCHANGED checks
             /\ bulk' = WithRemainingText(Checkpointed(a))
      BY <1>1, <2>1, <2>7, RowsRest
  <2> QED  BY <2>2, <2>5, <2>6, <2>7
<1> QED  BY <1>2, <1>3

(***************************************************************************)
(* The list is sent, or sent again: the token of each row.                 *)
(***************************************************************************)
LEMMA KnownIs ==
    ASSUME KeysInv
    PROVE  /\ Known \subseteq Sent /\ bulk.pending \subseteq Known /\ Sent \subseteq RowType
           /\ bulk.includes => Known = Sent
           /\ ~bulk.includes => Known = bulk.pending
           /\ \A k \in Sent : k.id \in Nat /\ k.id # None /\ k.id <= fresh /\ <<k.id, k.entry>> \in ListMeans
PROOF
<1>1. bulk.pending \subseteq RowType /\ bulk.completed \subseteq RowType /\ fresh \in Nat  BY FormParts, ListParts
<1>2. Known \subseteq Sent /\ bulk.pending \subseteq Known  BY DEF Known, Sent
<1>3. (bulk.includes => Known = Sent) /\ (~bulk.includes => Known = bulk.pending)  BY DEF Known, Sent
<1>4. Sent \subseteq RowType  BY <1>1 DEF Sent
<1>5. ASSUME NEW k \in Sent PROVE k.id \in Nat /\ k.id # None /\ k.id <= fresh /\ <<k.id, k.entry>> \in ListMeans
  <2>1. k.id \in Nat  BY <1>4 DEF RowType
  <2>2. <<k.id, k.entry>> \in ListMeans  BY MeantIs DEF ListMeans, Sent
  <2>3. Old(k.id)  BY <2>2, PartsMean DEF KeysInv, MeansOld, FormsMean
  <2>4. k.id <= fresh  BY <2>1, <2>3, EnrollmentAssumption DEF Old
  <2> QED  BY <2>1, <2>2, <2>4, EnrollmentAssumption
<1> QED  BY <1>2, <1>3, <1>4, <1>5

\* A row that is known has the token of the one it is.
LEMMA TokenOfIs ==
    ASSUME KeysInv, NEW row
    PROVE  /\ TokenOf(row, Known) # None => \E k \in Known : Key(k) = row /\ TokenOf(row, Known) = k.id
           /\ TokenOf(row, Known) = None => \A k \in Known : Key(k) # row
PROOF
<1> DEFINE same == {k \in Known : Key(k) = row}
<1>1. TokenOf(row, Known) = IF same = {} THEN None ELSE (CHOOSE k \in same : TRUE).id  BY DEF TokenOf
<1>2. same # {} => (CHOOSE k \in same : TRUE) \in same  OBVIOUS
<1>3. same # {} => \E k \in same : TokenOf(row, Known) = k.id  BY <1>1, <1>2
<1>4. \A k \in same : k.id # None  BY KnownIs
<1> QED  BY <1>1, <1>3, <1>4

LEMMA RowsPlaced ==
    ASSUME KeysInv
    PROVE  /\ Entries(Unmatched) \subseteq Entries(bulk.text) /\ Entries(Unmatched) \subseteq Nat
           /\ IsFiniteSet(Entries(Unmatched)) /\ Entries(Remaining) \subseteq Entries(bulk.pending)
           /\ Entries(Remaining) \subseteq Nat /\ IsFiniteSet(Entries(Remaining))
PROOF
<1>1. fresh \in Nat  BY FormParts
<1>2. Entries(Unmatched) \subseteq Entries(bulk.text)  BY DEF Entries, Unmatched
<1>3. Entries(Remaining) \subseteq Entries(bulk.pending)  BY DEF Entries, Remaining
<1>4. ASSUME NEW S \in SUBSET Entries(bulk.file) PROVE S \subseteq Nat /\ IsFiniteSet(S)
  <2>1. S \in SUBSET Nat /\ \A s \in S : s <= fresh  BY ListParts
  <2> QED  BY <1>1, <2>1, FS_BoundedSetOfNaturals
<1> QED  BY <1>2, <1>3, <1>4, ListParts

\* Nothing was sent yet: every row takes a new token.
LEMMA TokensNew ==
    ASSUME KeysInv, Sent = {}
    PROVE  /\ Unmatched = bulk.text /\ bulk.completed = {}
           /\ \A row \in bulk.text : Token(row) = fresh + Place(row.entry, Unmatched)
PROOF
<1>1. Known = {} /\ bulk.pending = {} /\ bulk.completed = {}  BY KnownIs DEF Sent
<1>2. Unmatched = bulk.text
  <2>1. \A row : TokenOf(row, Known) = None  BY <1>1, TokenOfIs
  <2> QED  BY <2>1 DEF Unmatched
<1>3. Remaining = {}  BY <1>1 DEF Remaining
<1>4. \A row : TokenAt(row) = fresh + Place(row.entry, Unmatched)  BY <1>3 DEF TokenAt
<1> QED  BY <1>1, <1>2, <1>4 DEF Token

\* A token is one that was used, or one of the next.
LEMMA TokenBound ==
    ASSUME KeysInv, NEW row \in bulk.text
    PROVE  /\ Cardinality(Entries(Unmatched)) \in Nat
           /\ Token(row) \in Nat /\ Token(row) <= fresh + Cardinality(Entries(Unmatched))
PROOF
<1>1. fresh \in Nat /\ Cardinality(Entries(Unmatched)) \in Nat  BY FormParts, RowsPlaced, PlaceIs
<1>2. \A k \in Sent : k.id \in Nat /\ k.id <= fresh + Cardinality(Entries(Unmatched))
  <2>1. \A n \in Nat : n <= fresh => n <= fresh + Cardinality(Entries(Unmatched))  BY <1>1
  <2> QED  BY <2>1, KnownIs
<1>3. CASE row \notin Unmatched
  <2>1. TokenOf(row, Known) # None  BY <1>3 DEF Unmatched
  <2>2. \E k \in Known : TokenOf(row, Known) = k.id  BY <2>1, TokenOfIs
  <2> QED  BY <1>1, <1>2, <1>3, <2>2, KnownIs DEF Token
<1>4. CASE row \in Unmatched
  <2> DEFINE nth == Place(row.entry, Unmatched)
             same == {k \in Remaining : Place(k.entry, Remaining) = nth}
  <2>1. Token(row) = IF same = {} THEN fresh + nth ELSE (CHOOSE k \in same : TRUE).id
      BY <1>4 DEF Token, TokenAt
  <2>2. row.entry \in Entries(Unmatched)  BY <1>4, MeantIs
  <2>3. nth \in Nat /\ nth <= Cardinality(Entries(Unmatched))  BY <2>2, RowsPlaced, PlaceIs
  <2>4. \A k \in same : k \in Sent  BY DEF Remaining, Sent
  <2>5. same # {} => \E k \in same : Token(row) = k.id  BY <2>1
  <2>6. same = {} => Token(row) = fresh + nth  BY <2>1
  <2> HIDE DEF nth, same
  <2> QED  BY <1>1, <1>2, <2>3, <2>4, <2>5, <2>6
<1> QED  BY <1>1, <1>3, <1>4

\* A list that was sent is of the rows that were: every row has the token of its entry.
LEMMA RowsMatch ==
    ASSUME KeysInv, ~form.busy, "removed" \notin doubts, Sent # {}
    PROVE  /\ OneEach(Known) /\ Entries(bulk.text) = Entries(Known)
           /\ \A k, l \in Sent : k.id = l.id => k = l
PROOF
<1>1. /\ OneEach(Sent) /\ Known \subseteq Sent
      /\ Entries(bulk.text) = IF bulk.includes THEN Entries(bulk.file) ELSE Entries(bulk.pending)
      /\ Entries(bulk.file) = Entries(bulk.pending) \cup Entries(bulk.completed)
    BY KnownIs, ListParts
<1>2. Entries(Sent) = Entries(bulk.pending) \cup Entries(bulk.completed)  BY DEF Entries, Sent
<1>3. Entries(bulk.text) = Entries(Known)  BY <1>1, <1>2, KnownIs
<1>4. OneEach(Known)  BY <1>1 DEF OneEach
<1>5. ASSUME NEW k \in Sent, NEW l \in Sent, k.id = l.id PROVE k = l
  <2>1. <<k.id, k.entry>> \in ListMeans /\ <<l.id, l.entry>> \in ListMeans  BY KnownIs
  <2>2. k.entry = l.entry  BY <1>5, <2>1, PartsMean DEF KeysInv, OnePerson, FormsMean
  <2> QED  BY <1>1, <2>2 DEF OneEach
<1> QED  BY <1>3, <1>4, <1>5

\* The rows that are not known are those that remain, when the list can be resumed.
LEMMA RowsRemain ==
    ASSUME KeysInv, ~form.busy, "removed" \notin doubts, Sent # {}, ~CannotResume
    PROVE  Entries(Unmatched) = Entries(Remaining)
PROOF
<1>1. /\ OneEach(Known) /\ Entries(bulk.text) = Entries(Known) /\ OneEach(bulk.text)
      /\ \A k, l \in Sent : k.id = l.id => k = l
    BY RowsMatch, ListParts
<1>2. bulk.text \subseteq KeyType /\ Known \subseteq Sent /\ bulk.pending \subseteq Known  BY ListParts, KnownIs
<1>3. \A k : Key(k).entry = k.entry  BY DEF Key
<1>4. \A k \in Remaining : k \in bulk.pending /\ \A row \in bulk.text : TokenOf(row, Known) # k.id
    BY DEF Remaining
<1>5. \A row : row \in Unmatched <=> row \in bulk.text /\ TokenOf(row, Known) = None  BY DEF Unmatched
<1>6. Entries(Remaining) \subseteq Entries(Unmatched)
  <2> SUFFICES ASSUME NEW k \in Remaining PROVE k.entry \in Entries(Unmatched)  BY MeantIs
  <2>1. k \in Known /\ k.entry \in Entries(bulk.text)  BY <1>1, <1>2, <1>4, MeantIs
  <2>2. PICK row \in bulk.text : row.entry = k.entry  BY <2>1, MeantIs
  <2>3. CASE TokenOf(row, Known) = None  BY <1>5, <2>2, <2>3, MeantIs
  <2>4. CASE TokenOf(row, Known) # None
    <3>1. PICK l \in Known : Key(l) = row /\ TokenOf(row, Known) = l.id  BY <2>4, TokenOfIs
    <3>2. l.entry = k.entry  BY <1>3, <2>2, <3>1
    <3>3. l = k  BY <1>1, <2>1, <3>2 DEF OneEach
    <3> QED  BY <1>4, <3>1, <3>3
  <2> QED  BY <2>3, <2>4
<1>7. \A row \in Unmatched : row.entry \in Entries(bulk.pending) => row.entry \in Entries(Remaining)
  <2> SUFFICES ASSUME NEW row \in Unmatched, NEW k \in bulk.pending, k.entry = row.entry
               PROVE  k \in Remaining
      BY MeantIs
  <2>1. row \in bulk.text /\ \A l \in Known : Key(l) # row  BY <1>5, TokenOfIs
  <2>2. ASSUME NEW s \in bulk.text, TokenOf(s, Known) = k.id PROVE FALSE
    <3>1. k \in Sent /\ k.id # None  BY <1>2, KnownIs
    <3>2. PICK l \in Known : Key(l) = s /\ TokenOf(s, Known) = l.id  BY <2>2, <3>1, TokenOfIs
    <3>3. l = k  BY <1>1, <1>2, <2>2, <3>1, <3>2
    <3>4. s.entry = row.entry  BY <1>3, <3>2, <3>3
    <3>5. s = row  BY <1>1, <2>1, <3>4 DEF OneEach
    <3> QED  BY <2>1, <3>2, <3>5
  <2> QED  BY <2>2 DEF Remaining
<1>8. CASE ~bulk.includes
  <2>1. Known = bulk.pending  BY <1>8, KnownIs
  <2>2. \A row \in Unmatched : row.entry \in Entries(bulk.pending)  BY <1>1, <1>5, <2>1, MeantIs
  <2>3. \A row \in Unmatched : row.entry \in Entries(Remaining)  BY <1>7, <2>2
  <2>4. Entries(Unmatched) \subseteq Entries(Remaining)  BY <2>3 DEF Entries
  <2> QED  BY <1>6, <2>4
<1>9. CASE bulk.includes
  <2>1. ~(Cardinality(Entries(Unmatched)) > Cardinality(Entries(Remaining)))
      BY <1>9, ListParts DEF CannotResume
  <2>2. Cardinality(Entries(Unmatched)) \in Nat /\ Cardinality(Entries(Remaining)) \in Nat
      BY RowsPlaced, PlaceIs
  <2>3. Cardinality(Entries(Remaining)) <= Cardinality(Entries(Unmatched))
      BY <1>6, RowsPlaced, FS_Subset
  <2>4. Cardinality(Entries(Remaining)) = Cardinality(Entries(Unmatched))  BY <2>1, <2>2, <2>3
  <2> QED  BY <1>6, <2>4, RowsPlaced, FS_Subset
<1> QED  BY <1>8, <1>9

LEMMA TokensKept ==
    ASSUME KeysInv, ~form.busy, "removed" \notin doubts, Sent # {}, ~CannotResume, NEW row \in bulk.text
    PROVE  \E k \in Known : k.entry = row.entry /\ Token(row) = k.id
PROOF
<1>1. CASE row \notin Unmatched
  <2>1. TokenOf(row, Known) # None  BY <1>1 DEF Unmatched
  <2>2. PICK k \in Known : Key(k) = row /\ TokenOf(row, Known) = k.id  BY <2>1, TokenOfIs
  <2>3. k.entry = row.entry  BY <2>2 DEF Key
  <2> QED  BY <1>1, <2>2, <2>3 DEF Token
<1>2. CASE row \in Unmatched
  <2> DEFINE nth == Place(row.entry, Unmatched)
             same == {k \in Remaining : Place(k.entry, Remaining) = nth}
  <2>1. Entries(Unmatched) = Entries(Remaining)  BY RowsRemain
  <2>2. row.entry \in Entries(Remaining)  BY <1>2, <2>1, MeantIs
  <2>3. nth = Place(row.entry, Remaining)  BY <2>1 DEF Place
  <2>4. PICK l \in Remaining : l.entry = row.entry  BY <2>2, MeantIs
  <2>5. l \in same  BY <2>3, <2>4
  <2>6. Token(row) = IF same = {} THEN fresh + nth ELSE (CHOOSE k \in same : TRUE).id
      BY <1>2 DEF Token, TokenAt
  <2>7. PICK k \in same : Token(row) = k.id  BY <2>5, <2>6
  <2>8. k \in Remaining /\ Place(k.entry, Remaining) = Place(row.entry, Remaining)  BY <2>3, <2>7
  <2>9. k.entry \in Entries(Remaining)  BY <2>8, MeantIs
  <2> HIDE DEF nth, same
  <2>10. k.entry = row.entry  BY <2>2, <2>8, <2>9, RowsPlaced, PlaceIs
  <2>11. k \in Known  BY <2>8, KnownIs DEF Remaining
  <2> QED  BY <2>7, <2>10, <2>11
<1> QED  BY <1>1, <1>2

LEMMA ReconciledIs ==
    ASSUME KeysInv
    PROVE  /\ \A k \in Reconciled : /\ \E row \in bulk.text : k.entry = row.entry /\ k.id = Token(row)
                                    /\ \A c \in bulk.completed : c.id # k.id
           /\ \A row \in bulk.text : (\A c \in bulk.completed : c.id # Token(row)) =>
                 row.entry \in Entries(Reconciled)
           /\ Reconciled \subseteq RowType /\ OneEach(Reconciled) /\ Entries(Reconciled) \subseteq Entries(bulk.text)
PROOF
<1> DEFINE R(row) == [id |-> Token(row), entry |-> row.entry, name |-> row.name]
<1>1. \A k : k \in Reconciled <=> /\ \E row \in bulk.text : k = R(row)
                                  /\ \A c \in bulk.completed : c.id # k.id
    BY DEF Reconciled
<1>2. \A row : R(row).id = Token(row) /\ R(row).entry = row.entry  OBVIOUS
<1>3. \A row \in bulk.text : R(row) \in RowType
  <2> TAKE row \in bulk.text
  <2>1. Token(row) \in Nat  BY TokenBound
  <2>2. row.entry \in Nat /\ row.name \in NameType  BY ListParts DEF KeyType
  <2> QED  BY <2>1, <2>2 DEF RowType
<1> HIDE DEF R
<1>4. Reconciled \subseteq RowType  BY <1>1, <1>3
<1>5. ASSUME NEW k \in Reconciled, NEW l \in Reconciled, k.entry = l.entry PROVE k = l
  <2>1. PICK r \in bulk.text : k = R(r)  BY <1>1
  <2>2. PICK s \in bulk.text : l = R(s)  BY <1>1
  <2>3. r.entry = s.entry  BY <1>2, <1>5, <2>1, <2>2
  <2> QED  BY <2>1, <2>2, <2>3, ListParts DEF OneEach
<1>6. \A k \in Reconciled : /\ \E row \in bulk.text : k.entry = row.entry /\ k.id = Token(row)
                            /\ \A c \in bulk.completed : c.id # k.id
    BY <1>1, <1>2
<1>7. \A row \in bulk.text : (\A c \in bulk.completed : c.id # Token(row)) => row.entry \in Entries(Reconciled)
  <2> SUFFICES ASSUME NEW row \in bulk.text, \A c \in bulk.completed : c.id # Token(row)
               PROVE  row.entry \in Entries(Reconciled)
      OBVIOUS
  <2>1. R(row) \in Reconciled /\ R(row).entry = row.entry  BY <1>1, <1>2
  <2> QED  BY <2>1, MeantIs
<1>8. Entries(Reconciled) \subseteq Entries(bulk.text)
  <2>1. \A k \in Reconciled : k.entry \in Entries(bulk.text)  BY <1>6, MeantIs
  <2> QED  BY <2>1 DEF Entries
<1> QED  BY <1>4, <1>5, <1>6, <1>7, <1>8 DEF OneEach

\* What is sent is, with what is saved already, the rows of the file.
LEMMA RowsKept ==
    ASSUME KeysInv, ~form.busy, "removed" \notin doubts, ~CannotResume
    PROVE  /\ OneEach(Reconciled \cup bulk.completed) /\ Reconciled \cap bulk.completed = {}
           /\ Entries(bulk.file) = Entries(Reconciled) \cup Entries(bulk.completed)
PROOF
<1>1. /\ OneEach(Reconciled) /\ Entries(Reconciled) \subseteq Entries(bulk.file) /\ OneEach(Sent)
      /\ Entries(bulk.completed) \subseteq Entries(bulk.file)
    BY ReconciledIs, ListParts
<1>2. CASE Sent = {}
  <2>1. bulk.completed = {} /\ Entries(bulk.text) = Entries(bulk.file)  BY <1>2, TokensNew, ListParts
  <2>2. \A row \in bulk.text : row.entry \in Entries(Reconciled)  BY <2>1, ReconciledIs
  <2>3. Entries(bulk.text) \subseteq Entries(Reconciled)  BY <2>2 DEF Entries
  <2> QED  BY <1>1, <2>1, <2>3, MeantIs
<1>3. CASE Sent # {}
  <2>1. \A k, l \in Sent : k.id = l.id => k = l  BY <1>3, RowsMatch
  <2>2. ASSUME NEW r \in Reconciled, NEW c \in bulk.completed, r.entry = c.entry PROVE FALSE
    <3>1. PICK row \in bulk.text : r.entry = row.entry /\ r.id = Token(row)  BY ReconciledIs
    <3>2. PICK k \in Known : k.entry = row.entry /\ Token(row) = k.id  BY <1>3, TokensKept
    <3>3. k \in Sent /\ c \in Sent  BY KnownIs DEF Sent
    <3>4. k = c  BY <1>1, <2>2, <3>1, <3>2, <3>3 DEF OneEach
    <3> QED  BY <3>1, <3>2, <3>4, ReconciledIs
  <2>3. OneEach(bulk.completed)  BY <1>1 DEF OneEach, Sent
  <2>4. OneEach(Reconciled \cup bulk.completed)  BY <1>1, <2>2, <2>3 DEF OneEach
  <2>5. Reconciled \cap bulk.completed = {}  BY <2>2
  <2>6. /\ Entries(bulk.file) = Entries(bulk.pending) \cup Entries(bulk.completed)
        /\ Entries(bulk.pending) \subseteq Entries(bulk.text)
    <3>1. Entries(bulk.text) = IF bulk.includes THEN Entries(bulk.file) ELSE Entries(bulk.pending)
        BY <1>3, ListParts
    <3>2. Entries(bulk.file) = Entries(bulk.pending) \cup Entries(bulk.completed)  BY <1>3, ListParts
    <3> QED  BY <3>1, <3>2
  <2>7. ASSUME NEW row \in bulk.text PROVE row.entry \in Entries(Reconciled) \cup Entries(bulk.completed)
    <3>1. PICK k \in Known : k.entry = row.entry /\ Token(row) = k.id  BY <1>3, TokensKept
    <3>2. CASE \A c \in bulk.completed : c.id # Token(row)  BY <3>2, ReconciledIs
    <3>3. CASE \E c \in bulk.completed : c.id = Token(row)
      <4>1. PICK c \in bulk.completed : c.id = k.id  BY <3>1, <3>3
      <4>2. c = k  BY <2>1, <4>1, KnownIs DEF Sent
      <4> QED  BY <3>1, <4>2, MeantIs
    <3> QED  BY <3>2, <3>3
  <2>8. Entries(bulk.text) \subseteq Entries(Reconciled) \cup Entries(bulk.completed)  BY <2>7, MeantIs
  <2>9. Entries(bulk.file) = Entries(Reconciled) \cup Entries(bulk.completed)  BY <1>1, <2>6, <2>8
  <2> QED  BY <2>4, <2>5, <2>9
<1> QED  BY <1>2, <1>3

\* The keys of the rows that are sent: those they had, or new ones.
LEMMA RowsMean ==
    ASSUME KeysInv, ~form.busy, "removed" \notin doubts, ~CannotResume
    PROVE  /\ Sent # {} => Meant(Reconciled) \subseteq ListMeans
           /\ Sent = {} => \A b \in Meant(Reconciled) : /\ b[2] \in Entries(Unmatched)
                                                        /\ b[1] = fresh + Place(b[2], Unmatched)
PROOF
<1>1. ASSUME NEW b \in Meant(Reconciled)
      PROVE  \E row \in bulk.text : b[2] = row.entry /\ b[1] = Token(row) /\ b = <<b[1], b[2]>>
  <2>1. PICK r \in Reconciled : b = <<r.id, r.entry>>  BY MeantIs
  <2>2. PICK row \in bulk.text : r.entry = row.entry /\ r.id = Token(row)  BY ReconciledIs
  <2> QED  BY <2>1, <2>2
<1>2. ASSUME Sent # {}, NEW b \in Meant(Reconciled) PROVE b \in ListMeans
  <2>1. PICK row \in bulk.text : b[2] = row.entry /\ b[1] = Token(row) /\ b = <<b[1], b[2]>>  BY <1>1
  <2>2. PICK k \in Known : k.entry = row.entry /\ Token(row) = k.id  BY <1>2, TokensKept
  <2>3. <<k.id, k.entry>> \in ListMeans  BY KnownIs
  <2> QED  BY <2>1, <2>2, <2>3
<1>3. ASSUME Sent = {}, NEW b \in Meant(Reconciled)
      PROVE  b[2] \in Entries(Unmatched) /\ b[1] = fresh + Place(b[2], Unmatched)
  <2>1. PICK row \in bulk.text : b[2] = row.entry /\ b[1] = Token(row) /\ b = <<b[1], b[2]>>  BY <1>1
  <2> QED  BY <1>3, <2>1, TokensNew, MeantIs
<1> QED  BY <1>2, <1>3

LEMMA SentRows ==
    ASSUME NEW group \in NoGroupOr, NEW rows \in SUBSET RowType, OneEach(rows), rows # {},
           NEW a, a = [kind |-> "rows", latest |-> TRUE, created |-> FALSE, group |-> group,
                       photo |-> None, got |-> Unanswered, rows |-> rows]
    PROVE  AddSound(a) /\ Sending(a) /\ a.latest /\ a.rows = rows /\ a.kind = "rows"
PROOF
<1>1. Unanswered \in [at : {"waiting", "saved", "failed"}, ids : SUBSET Nat] /\ Unanswered.ids = {}
    BY DEF Unanswered
<1>2. a \in AddType  BY <1>1 DEF AddType
<1>3. a.latest /\ a.rows = rows /\ a.kind = "rows" /\ a.got = Unanswered  OBVIOUS
<1>4. AddSound(a)  BY <1>1, <1>2, <1>3 DEF AddSound
<1> QED  BY <1>3, <1>4 DEF Sending

LEMMA RowsSent ==
    ASSUME KeysInv, form.open, ~form.busy, ~CannotResume, Reconciled # {}, selected \in NoGroupOr,
           UNCHANGED <<people, faces, checks, doubts>>, UNCHANGED coverVars,
           bulk' = [bulk EXCEPT !.pending = Reconciled], form' = [form EXCEPT !.busy = TRUE],
           NEW a, a = [kind |-> "rows", latest |-> TRUE, created |-> FALSE, group |-> selected,
                       photo |-> None, got |-> Unanswered, rows |-> Reconciled],
           adds' = adds \cup {a}, fresh' = fresh + Cardinality(Entries(Unmatched))
    PROVE  KeysInv'
PROOF
<1> DEFINE N == Cardinality(Entries(Unmatched))
           New == IF Sent = {} THEN {<<fresh + Place(e, Unmatched), e>> : e \in Entries(Unmatched)} ELSE {}
<1>1. /\ form \in FormType /\ fresh \in Nat /\ FormSide /\ bulk \in ListType /\ form.entry \in Nat
      /\ form.entry <= fresh /\ \A b \in adds : ~b.latest
    BY FormParts DEF KeysInv
<1>2. N \in Nat /\ fresh' = fresh + N  BY RowsPlaced, PlaceIs
<1>3. fresh' \in Nat /\ fresh <= fresh'  BY <1>1, <1>2
<1>4. /\ Reconciled \subseteq RowType /\ OneEach(Reconciled) /\ Entries(Reconciled) \subseteq Entries(bulk.text)
    BY ReconciledIs
<1>5. AddSound(a) /\ Sending(a) /\ a.latest /\ a.rows = Reconciled /\ a.kind = "rows"  BY <1>4, SentRows
<1>6. /\ bulk' \in ListType /\ bulk'.file = bulk.file /\ bulk'.text = bulk.text /\ bulk'.includes = bulk.includes
      /\ bulk'.completed = bulk.completed /\ bulk'.pending = Reconciled
    BY <1>1, <1>4 DEF ListType
<1>7. /\ form' \in FormType /\ form'.open = form.open /\ form'.busy /\ form'.entry = form.entry
      /\ form'.photo = form.photo /\ form'.request = form.request /\ form'.saved = form.saved
      /\ form'.name = form.name
    BY <1>1 DEF FormType
<1>8. \A b \in adds' : b.latest => b = a  BY <1>1
<1>9. FormSide'
  <2>1. FormKnown'  BY <1>1, <1>3, <1>7 DEF FormSide, FormKnown
  <2>2. ListKnown'
    <3>1. Entries(Reconciled) \subseteq Entries(bulk.file)  BY <1>4, ListParts
    <3>2. 1 .. fresh \subseteq 1 .. fresh'  BY <1>1, <1>3
    <3>3. \A b \in adds' : Sending(b) => Entries(b.rows) \subseteq Entries(bulk.file)  BY <1>5, <1>8, <3>1 DEF Sending
    <3> QED  BY <1>1, <1>4, <1>6, <1>7, <3>1, <3>2, <3>3, SoundAnyTime DEF FormSide, ListKnown
  <2>3. ListKept'
    <3> SUFFICES ASSUME "removed" \notin doubts' PROVE ListKept'  BY DEF ListKept
    <3>1. "removed" \notin doubts  OBVIOUS
    <3>2. /\ OneEach(Reconciled \cup bulk.completed) /\ Reconciled \cap bulk.completed = {}
          /\ Entries(bulk.file) = Entries(Reconciled) \cup Entries(bulk.completed)
        BY <3>1, RowsKept
    <3>3. Sent' = Reconciled \cup bulk.completed  BY <1>6 DEF Sent
    <3>4. \A b \in adds' : Sending(b) => b.rows \subseteq bulk'.pending  BY <1>5, <1>6, <1>8 DEF Sending
    <3>5. ~ \A b \in adds' : ~Sending(b)  BY <1>5
    <3> QED  BY <1>6, <3>2, <3>3, <3>4, <3>5, SoundAnyTime DEF ListKept
  <2>4. AddsSound'
    <3>1. \A b \in adds' : AddSound(b)'  BY <1>1, <1>5, SoundAnyTime DEF FormSide, AddsSound
    <3> QED  BY <1>5, <1>7, <1>8, <3>1 DEF AddsSound
  <2> QED  BY <2>1, <2>2, <2>3, <2>4 DEF FormSide
<1>10. \A b \in New : /\ b[2] \in Entries(Unmatched) /\ b[1] = fresh + Place(b[2], Unmatched)
                      /\ b[1] \in Nat /\ fresh < b[1] /\ b[1] <= fresh'
  <2>1. \A e \in Entries(Unmatched) : Place(e, Unmatched) \in Nat /\ 1 <= Place(e, Unmatched) /\ Place(e, Unmatched) <= N
      BY RowsPlaced, PlaceIs
  <2>2. \A n \in Nat : 1 <= n /\ n <= N => fresh + n \in Nat /\ fresh < fresh + n /\ fresh + n <= fresh'
      BY <1>1, <1>2
  <2> HIDE DEF N
  <2> QED  BY <2>1, <2>2
<1>11. \A b \in New : Sent = {} /\ b[2] \in Entries(bulk.file) /\ b[2] # form.entry /\ Old(b[2])'
  <2>1. \A b \in New : Sent = {} /\ b[2] \in Entries(bulk.file)  BY <1>10, RowsPlaced, ListParts
  <2>2. \A e \in Entries(bulk.file) : e \in Nat /\ e <= fresh' /\ e # form.entry
    <3>1. \A e \in Entries(bulk.file) : e \in Nat /\ e <= fresh /\ e # form.entry  BY ListParts
    <3> QED  BY <1>1, <1>3, <3>1
  <2> QED  BY <2>1, <2>2 DEF Old
<1>12. \A b, c \in New : (b[1] = c[1] <=> b[2] = c[2])
  <2>1. \A e, f \in Entries(Unmatched) : Place(e, Unmatched) = Place(f, Unmatched) => e = f  BY RowsPlaced, PlaceIs
  <2>2. \A e \in Entries(Unmatched) : Place(e, Unmatched) \in Nat  BY RowsPlaced, PlaceIs
  <2>3. \A m, n \in Nat : fresh + m = fresh + n => m = n  BY <1>1
  <2>4. \A b \in New : b[2] \in Entries(Unmatched) /\ b[1] = fresh + Place(b[2], Unmatched)  BY <1>10
  <2> HIDE DEF New
  <2> QED  BY <2>1, <2>2, <2>3, <2>4
<1>13. "removed" \notin doubts => Meant(Reconciled) \subseteq ListMeans \cup New
  <2> SUFFICES ASSUME "removed" \notin doubts, NEW b \in Meant(Reconciled), Sent = {} PROVE b \in New
      BY RowsMean
  <2>1. b[2] \in Entries(Unmatched) /\ b[1] = fresh + Place(b[2], Unmatched)  BY RowsMean
  <2>2. b = <<b[1], b[2]>>  BY DEF Meant
  <2> QED  BY <2>1, <2>2
<1> HIDE DEF New, N
<1>14. FormMeans' = FormMeans  BY <1>7 DEF FormMeans
<1>15. ListMeans' \subseteq Meant(Reconciled) \cup ListMeans  BY <1>6, SoundAnyTime DEF ListMeans, Meant
<1>16. AddsMean' \subseteq AddsMean \cup Meant(Reconciled)  BY <1>5, SoundAnyTime DEF AddsMean
<1>17. FormsMean' \subseteq FormsMean \cup Meant(Reconciled)  BY <1>14, <1>15, <1>16 DEF FormsMean
<1>18. /\ PeopleMean' = PeopleMean /\ FacesMean' = FacesMean /\ CoversMean' = CoversMean
       /\ NewFaces' = NewFaces /\ shots' = shots
    BY Same DEF coverVars
<1>19. Means' \subseteq Means \cup Meant(Reconciled)  BY <1>17, <1>18, PartsMean, MeansParts
<1>20. MeansOld'
  <2>1. \A b \in Means : Old(b[1])' /\ Old(b[2])'  BY <1>1, <1>3, StaysOld DEF KeysInv, MeansOld
  <2>2. ASSUME NEW b \in Meant(Reconciled) PROVE Old(b[1])' /\ Old(b[2])'
    <3>1. PICK k \in Reconciled : b = <<k.id, k.entry>>  BY MeantIs
    <3>2. PICK row \in bulk.text : k.entry = row.entry /\ k.id = Token(row)  BY ReconciledIs
    <3>3. k.id \in Nat /\ k.id <= fresh'  BY <1>2, <3>2, TokenBound DEF N
    <3>4. k.entry \in Entries(bulk.file)  BY <3>2, ListParts, MeantIs
    <3>5. k.entry \in Nat /\ k.entry <= fresh  BY <3>4, ListParts
    <3>6. k.entry <= fresh'  BY <1>1, <1>3, <3>5
    <3> QED  BY <3>1, <3>3, <3>5, <3>6 DEF Old
  <2> QED  BY <1>3, <1>19, <2>1, <2>2 DEF MeansOld
<1>21. OnePerson'
  <2> SUFFICES ASSUME "removed" \notin doubts' PROVE OnePerson'  BY DEF OnePerson
  <2>1. "removed" \notin doubts  OBVIOUS
  <2>2. Means' \subseteq Means \cup New  BY <1>13, <1>19, <2>1, PartsMean DEF FormsMean
  <2>3. \A b \in New : b[1] \in Nat /\ fresh < b[1] /\ b[1] <= fresh' /\ Old(b[2])'  BY <1>10, <1>11
  <2>4. \A b, c \in New : b[1] = c[1] => b[2] = c[2]  BY <1>12
  <2> QED  BY <1>3, <2>2, <2>3, <2>4, MeansStep DEF KeysInv
<1>22. ASSUME Certain' PROVE OneKey' /\ Unused'
  <2>1. OneKey /\ Unused /\ "removed" \notin doubts  BY <1>22, CertainStays DEF KeysInv, Certain
  <2>2. Meant(Reconciled) \subseteq ListMeans \cup New  BY <1>13, <2>1
  <2>3. \A b \in adds' : Creating(b) => b = a \/ (b \in adds /\ Creating(b))  OBVIOUS
  <2>4. FormsAdd' \subseteq FormsAdd \cup New
    <3> SUFFICES ASSUME NEW x \in FormsAdd' PROVE x \in FormsAdd \cup New  OBVIOUS
    <3>1. x \in FormMeans' \/ x \in ListMeans' \/ \E c \in adds' : Creating(c) /\ x \in Meant(c.rows)
        BY SoundAnyTime DEF FormsAdd
    <3> QED  BY <1>5, <1>14, <1>15, <2>2, <2>3, <3>1, FormsMeanIs
  <2>5. Added' \subseteq Added \cup New  BY <1>18, <2>4, PartsMean DEF Added
  <2>6. \A b \in New, c \in Added : b[2] # c[2]  BY <1>11, <2>1 DEF Unused
  <2>7. photos.found = {}  BY DEF KeysInv, OneDialog, CoverSide, FilesKnown
  <2>8. NewFaces' = {}  BY <1>18, <2>7 DEF NewFaces
  <2>9. \A b, c \in Added' : b[2] = c[2] => b[1] = c[1]  BY <1>12, <2>1, <2>5, <2>6 DEF OneKey
  <2>10. OneKey'  BY <2>8, <2>9 DEF OneKey
  <2>11. Sent' # {}  BY <1>6 DEF Sent
  <2>12. Unused'  BY <1>7, <1>11, <2>1, <2>5, <2>11 DEF Unused
  <2> QED  BY <2>10, <2>12
<1>23. PeopleKnown'  BY DEF KeysInv, PeopleKnown
<1>24. CoverSide'  BY <1>1, <1>3, CoversStay DEF KeysInv
<1>25. OneDialog'  BY <1>7 DEF KeysInv, OneDialog, coverVars
<1> QED  BY <1>9, <1>20, <1>21, <1>22, <1>23, <1>24, <1>25 DEF KeysInv

LEMMA SubmitRowsStep ==
    ASSUME KeysInv, SubmitRows, UNCHANGED coverVars, selected \in NoGroupOr
    PROVE  KeysInv'
PROOF
<1>1. /\ form.open /\ ~form.busy /\ UNCHANGED <<people, faces, doubts>> /\ \A b \in adds : ~b.latest
    BY FormParts DEF SubmitRows, MaySubmit, FormShown
<1>2. CASE CannotResume
  <2> DEFINE T == {Key(k) : k \in bulk.pending}
  <2>1. bulk' = [bulk EXCEPT !.includes = FALSE, !.text = T] /\ UNCHANGED <<form, checks, adds, fresh>>
      BY <1>2 DEF SubmitRows, WithRemainingText
  <2>2. bulk \in ListType /\ bulk.pending \subseteq RowType /\ OneEach(bulk.pending)  BY ListParts
  <2>3. \A k : Key(k).entry = k.entry  BY DEF Key
  <2>4. T \in SUBSET KeyType  BY <2>2 DEF Key, RowType, KeyType
  <2>5. Entries(T) = Entries(bulk.pending)  BY <2>3 DEF Entries
  <2>6. OneEach(T)  BY <2>2 DEF OneEach, Key
  <2> HIDE DEF T
  <2>7. /\ bulk' \in ListType /\ bulk'.file = bulk.file /\ bulk'.text = T /\ bulk'.includes = FALSE
        /\ bulk'.pending = bulk.pending /\ bulk'.completed = bulk.completed
      BY <2>1, <2>2, <2>4 DEF ListType
  <2>8. Sent # {}  BY <1>2 DEF CannotResume, Sent
  <2> QED  BY <1>1, <2>1, <2>5, <2>6, <2>7, <2>8, ListParts, ListEdited
<1>3. CASE ~CannotResume /\ Reconciled = {}
  <2>1. ResetForm /\ UNCHANGED <<adds, fresh>>  BY <1>3 DEF SubmitRows, CloseSaved
  <2>2. \A b \in adds' : ~b.latest /\ \E a \in adds : b = a \/ b = [a EXCEPT !.latest = FALSE]  BY <1>1, <2>1
  <2> QED  BY <1>1, <2>1, <2>2, ResetStep
<1>4. CASE ~CannotResume /\ Reconciled # {}
  <2> DEFINE a == [kind |-> "rows", latest |-> TRUE, created |-> FALSE, group |-> selected,
                   photo |-> None, got |-> Unanswered, rows |-> Reconciled]
  <2>1. /\ bulk' = [bulk EXCEPT !.pending = Reconciled] /\ form' = [form EXCEPT !.busy = TRUE]
        /\ adds' = adds \cup {a} /\ fresh' = fresh + Cardinality(Entries(Unmatched)) /\ UNCHANGED checks
      BY <1>4 DEF SubmitRows
  <2>2. a = [kind |-> "rows", latest |-> TRUE, created |-> FALSE, group |-> selected,
             photo |-> None, got |-> Unanswered, rows |-> Reconciled]
      OBVIOUS
  <2> HIDE DEF a
  <2> QED  BY <1>1, <1>4, <2>1, <2>2, RowsSent
<1> QED  BY <1>2, <1>3, <1>4

\* What the form does.
LEMMA EnrollKeeps ==
    ASSUME KeysInv, EnrollNext, form'.open /\ ~form.open => ListShown, UNCHANGED coverVars, selected \in NoGroupOr
    PROVE  KeysInv'
PROOF
<1>1. ASSUME NEW rows \in 0 .. MaxRows, OpenForm(rows) PROVE KeysInv'
  <2>1. form'.open /\ ~form.open
    <3>1. rows \in Nat /\ fresh \in Nat  BY EnrollmentAssumption, FormParts
    <3>2. (rows > 0) \in BOOLEAN /\ fresh + rows + 1 \in Nat  BY <3>1
    <3> QED  BY <1>1, <3>2, NewForm DEF OpenForm
  <2> QED  BY <1>1, <2>1, OpenFormStep
<1>2. CASE CloseForm  BY <1>2, CloseFormStep
<1>3. CASE SwitchMode \/ CorrectName \/ OpenSection \/ SkipFace \/ RetakePhoto  BY <1>3, InputStep
<1>4. CASE (\E uploaded \in BOOLEAN : Photograph(uploaded)) \/ \E c \in checks : AnswerCheck(c)  BY <1>4, PhotoStep
<1>5. CASE Submit  BY <1>5, SubmitStep
<1>6. CASE SubmitRows  BY <1>6, SubmitRowsStep
<1>7. CASE ReimportFile  BY <1>7, ReimportStep
<1>8. CASE \E row \in bulk.text : EditRow(row)  BY <1>8, EditRowStep
<1>9. CASE \E a \in adds : ServeAdd(a) \/ ServeFace(a) \/ AnswerAdd(a) \/ AnswerFace(a) \/ AnswerRows(a)
    BY <1>9, ServeAddStep, ServeFaceStep, AnswerAddStep, AnswerFaceStep, AnswerRowsStep
<1> QED  BY <1>1, <1>2, <1>3, <1>4, <1>5, <1>6, <1>7, <1>8, <1>9 DEF EnrollNext

(***************************************************************************)
(* The covers.                                                             *)
(***************************************************************************)
LEMMA FormStays ==
    ASSUME FormSide, UNCHANGED <<form, bulk, checks, adds>>, fresh \in Nat, fresh' \in Nat, fresh <= fresh',
           doubts \subseteq doubts'
    PROVE  FormSide'
PROOF
<1>1. FormKnown'
  <2>1. form.entry \in Nat  BY DEF FormSide, FormKnown, FormType
  <2>2. form.entry <= fresh'  BY <2>1 DEF FormSide, FormKnown
  <2> QED  BY <2>2 DEF FormSide, FormKnown
<1>2. ListKnown'
  <2>1. 1 .. fresh \subseteq 1 .. fresh'  OBVIOUS
  <2> QED  BY <2>1, SoundAnyTime DEF FormSide, ListKnown
<1>3. ListKept'  BY SoundAnyTime DEF FormSide, ListKept, Sent
<1>4. AddsSound'  BY SoundAnyTime DEF FormSide, AddsSound
<1> QED  BY <1>1, <1>2, <1>3, <1>4 DEF FormSide

\* A step of a cover, or of the service for one.
LEMMA CoverComposes ==
    ASSUME KeysInv, UNCHANGED <<form, bulk, checks, adds>>, fresh' \in Nat, fresh <= fresh', doubts \subseteq doubts',
           PeopleKnown', CoverSide', OneDialog', NEW New, PeopleMean' \subseteq Means \cup New,
           FacesMean' \subseteq Means \cup New, CoversMean' \subseteq Means \cup New,
           \A b \in New : b[1] \in Nat /\ fresh < b[1] /\ b[1] <= fresh' /\ Old(b[2])',
           \A b, c \in New : b[1] = c[1] => b[2] = c[2],
           Certain' => OneKey' /\ Unused'
    PROVE  KeysInv'
PROOF
<1>1. FormsMean' = FormsMean  BY Same
<1>2. Means' \subseteq Means \cup New  BY <1>1, PartsMean, MeansParts
<1>3. FormSide'  BY FormStays DEF KeysInv, MeansOld
<1> QED  BY <1>2, <1>3, KeysStep

LEMMA CoverShrinks ==
    ASSUME KeysInv, UNCHANGED <<form, bulk, checks, adds>>, fresh' \in Nat, fresh <= fresh', doubts \subseteq doubts',
           PeopleKnown', CoverSide', OneDialog', PeopleMean' \subseteq PeopleMean,
           FacesMean' \subseteq Means, CoversMean' \subseteq Means, NewFaces' \subseteq NewFaces,
           \A q \in shots' : Detecting(q) => q \in shots
    PROVE  KeysInv'
PROOF
<1>1. FormsMean' = FormsMean /\ FormsAdd' = FormsAdd  BY Same
<1>2. Means' \subseteq Means  BY <1>1, PartsMean, MeansParts
<1>3. FormSide'  BY FormStays DEF KeysInv, MeansOld
<1>4. Added' \subseteq Added  BY <1>1 DEF Added
<1>5. Certain' => OneKey' /\ Unused'  BY <1>4, CertainStays, OneKeyShrinks, UnusedStays DEF KeysInv
<1> QED  BY <1>2, <1>3, <1>5, KeysShrink

\* The service loses members and faces.
LEMMA PeopleLeave ==
    ASSUME KeysInv, UNCHANGED <<form, bulk, checks, adds, fresh, queue, capture, photos, shots>>,
           doubts \subseteq doubts', people' \subseteq people, faces' \subseteq faces
    PROVE  KeysInv'
PROOF
<1>1. fresh \in Nat  BY FormParts
<1>2. PeopleKnown'  BY DEF KeysInv, PeopleKnown
<1>3. PeopleMean' \subseteq PeopleMean /\ FacesMean' \subseteq FacesMean  BY DEF PeopleMean, FacesMean
<1>4. CoversMean' = CoversMean /\ NewFaces' = NewFaces  BY Same
<1>5. CoverSide'
  <2>1. QueueKnown' /\ CaptureKnown'  BY DEF KeysInv, CoverSide, QueueKnown, CaptureKnown, Fields
  <2>2. FilesKnown'
    <3>1. \A f \in photos.found : Old(f.of)'  BY <1>1, StaysOld DEF KeysInv, CoverSide, FilesKnown
    <3> QED  BY <3>1, SoundAnyTime DEF KeysInv, CoverSide, FilesKnown, Fields
  <2>3. ShotsSound'  BY <1>1, ShotStaysSound DEF KeysInv, CoverSide, ShotsSound
  <2> QED  BY <2>1, <2>2, <2>3 DEF CoverSide
<1>6. OneDialog'  BY DEF KeysInv, OneDialog
<1> QED  BY <1>1, <1>2, <1>3, <1>4, <1>5, <1>6, PartsMean, CoverShrinks

\* What a cover has asked for stays what it is.
LEMMA ShotStays ==
    ASSUME NEW q, ShotSound(q), NEW r, NEW x,
           \/ r = q
           \/ r = [q EXCEPT !.latest = FALSE]
           \/ r = [q EXCEPT !.got = x] /\ q.kind # "detect"
           \/ r = [q EXCEPT !.at = x] /\ q.kind # "detect"
    PROVE  /\ ShotSound(r) /\ ShotMeans(r) = ShotMeans(q) /\ r.kind = q.kind
           /\ Detecting(r) => r = q
           /\ r.kind = "queue" => r.status = q.status
           /\ r.latest /\ r.kind = "queue" => q.latest
PROOF
<1>1. /\ Fields(q, {"kind", "latest"}) /\ q.kind \in {"queue", "frame", "single", "detect", "photos"}
      /\ q.kind \in {"queue", "single"} => Fields(q, {"at", "member", "of", "got"})
      /\ q.kind = "queue" => Fields(q, {"index", "status"}) /\ q.index \in DOMAIN q.status
      /\ q.kind = "detect" => Fields(q, {"of", "file"}) /\ q.of \in Keys /\ Old(q.of)
      /\ q.kind = "photos" =>
            /\ Fields(q, {"at", "faces", "tried", "files", "created", "got"})
            /\ \A f \in q.faces : f \in FaceType /\ q.files[f.file] = f.of /\ Old(f.of)
    BY DEF ShotSound
<1>2. DOMAIN r = DOMAIN q  OBVIOUS
<1>3. \A f \in DOMAIN q : f \notin {"latest", "got", "at"} => r[f] = q[f]  OBVIOUS
<1>4. r.kind = q.kind  BY <1>1, <1>3 DEF Fields
<1>5. q.kind \in {"queue", "single"} => r.member = q.member /\ r.of = q.of  BY <1>1, <1>3 DEF Fields
<1>6. q.kind = "queue" => r.index = q.index /\ r.status = q.status  BY <1>1, <1>3 DEF Fields
<1>7. q.kind = "detect" => r.of = q.of /\ r.file = q.file  BY <1>1, <1>3 DEF Fields
<1>8. q.kind = "photos" => r.faces = q.faces /\ r.files = q.files  BY <1>1, <1>3 DEF Fields
<1>9. ShotMeans(r) = ShotMeans(q)  BY <1>4, <1>5, <1>8 DEF ShotMeans
<1>10. \A S : Fields(r, S) <=> Fields(q, S)  BY <1>2 DEF Fields
<1>11. ShotSound(r)  BY <1>1, <1>4, <1>5, <1>6, <1>7, <1>8, <1>10 DEF ShotSound
<1>12. r = q \/ r.latest = FALSE \/ (q.kind # "detect" /\ r.latest = q.latest)
  <2>1. "latest" \in DOMAIN q  BY <1>1 DEF Fields
  <2> QED  BY <2>1
<1>13. Detecting(r) => r = q  BY <1>4, <1>12 DEF Detecting
<1> QED  BY <1>4, <1>6, <1>9, <1>11, <1>12, <1>13

\* A step of the queue or the camera.
LEMMA ShotsStep ==
    ASSUME KeysInv, UNCHANGED <<people, form, bulk, checks, adds, photos>>, fresh' \in Nat, fresh <= fresh',
           doubts \subseteq doubts', faces' \subseteq [member : Keys, of : Keys], FacesMean' \subseteq Means,
           QueueMeans' \subseteq Means, CaptureMeans' \subseteq Means, QueueKnown', CaptureKnown',
           \A q \in shots' : ShotSound(q) /\ ShotMeans(q) \subseteq Means /\ (Detecting(q) => q \in shots)
    PROVE  KeysInv'
PROOF
<1>1. fresh \in Nat  BY FormParts
<1>2. PeopleKnown' /\ PeopleMean' = PeopleMean  BY Same DEF KeysInv, PeopleKnown
<1>3. PhotosMean' = PhotosMean /\ NewFaces' = NewFaces  BY Same
<1>4. ShotsMean' \subseteq Means  BY SoundAnyTime DEF ShotsMean
<1>5. CoversMean' \subseteq Means  BY <1>3, <1>4, PartsMean DEF CoversMean
<1>6. FilesKnown'
  <2>1. \A f \in photos.found : Old(f.of)'  BY <1>1, StaysOld DEF KeysInv, CoverSide, FilesKnown
  <2> QED  BY <2>1, SoundAnyTime DEF KeysInv, CoverSide, FilesKnown, Fields
<1>7. ShotsSound'  BY <1>1, ShotStaysSound DEF ShotsSound
<1>8. CoverSide'  BY <1>6, <1>7 DEF CoverSide
<1>9. OneDialog'  BY DEF KeysInv, OneDialog
<1>10. UNCHANGED <<form, bulk, checks, adds>>  OBVIOUS
<1>11. \A q \in shots' : Detecting(q) => q \in shots  OBVIOUS
<1>12. PeopleMean' \subseteq PeopleMean /\ NewFaces' \subseteq NewFaces  BY <1>2, <1>3
<1>13. FacesMean' \subseteq Means  OBVIOUS
<1> QED  BY <1>2, <1>5, <1>8, <1>9, <1>10, <1>11, <1>12, <1>13, CoverShrinks

\* What a cover has asked for, when the queue is what it is now.
ShotGood(r) ==
    /\ ShotSound(r) /\ ShotMeans(r) \subseteq Means /\ (Detecting(r) => r \in shots)
    /\ r.kind = "queue" /\ r.latest => queue.open /\ DOMAIN r.status = DOMAIN queue.members

LEMMA ShotsGood ==
    ASSUME KeysInv
    PROVE  \A q \in shots : ShotGood(q)
PROOF
<1> SUFFICES ASSUME NEW q \in shots PROVE ShotGood(q)  OBVIOUS
<1>1. ShotMeans(q) \subseteq ShotsMean  BY DEF ShotsMean
<1>2. ShotSound(q)  BY DEF KeysInv, CoverSide, ShotsSound
<1> QED  BY <1>1, <1>2, PartsMean DEF ShotGood, KeysInv, CoverSide, QueueKnown, CoversMean

\* It stays so when it is answered, goes on or is left behind.
LEMMA ShotChanges ==
    ASSUME KeysInv, NEW q \in shots, NEW x
    PROVE  /\ ShotGood([q EXCEPT !.latest = FALSE]) /\ ~[q EXCEPT !.latest = FALSE].latest
           /\ q.kind # "detect" => ShotGood([q EXCEPT !.got = x]) /\ ShotGood([q EXCEPT !.at = x])
PROOF
<1>1. ShotGood(q) /\ ShotSound(q)  BY ShotsGood DEF ShotGood
<1>2. ASSUME NEW r, \/ r = [q EXCEPT !.latest = FALSE]
                    \/ r = [q EXCEPT !.got = x] /\ q.kind # "detect"
                    \/ r = [q EXCEPT !.at = x] /\ q.kind # "detect"
      PROVE  ShotGood(r)
  <2>1. /\ ShotSound(r) /\ ShotMeans(r) = ShotMeans(q) /\ r.kind = q.kind
        /\ Detecting(r) => r = q
        /\ r.kind = "queue" => r.status = q.status
        /\ r.latest /\ r.kind = "queue" => q.latest
      BY <1>1, <1>2, ShotStays
  <2> QED  BY <1>1, <2>1 DEF ShotGood
<1>3. "latest" \in DOMAIN q  BY <1>1 DEF ShotSound, Fields
<1>4. ~[q EXCEPT !.latest = FALSE].latest  BY <1>3
<1> QED  BY <1>2, <1>4

LEMMA SupersededShots ==
    ASSUME KeysInv
    PROVE  \A r \in Superseded(shots) : ShotGood(r) /\ ~r.latest
PROOF BY ShotChanges DEF Superseded

\* A step of the queue, whose members stay.
LEMMA QueueStep ==
    ASSUME KeysInv, Covering, UNCHANGED <<capture, photos, fresh>>,
           Fields(queue', {"open", "members", "persons", "status", "index", "busy", "jumps", "done"}),
           queue'.members = queue.members, queue'.persons = queue.persons, queue'.open = queue.open,
           DOMAIN queue'.status = DOMAIN queue.members, queue'.jumps \subseteq DOMAIN queue.members,
           queue'.open => queue'.index \in DOMAIN queue.members,
           \A r \in shots' : ShotGood(r)
    PROVE  KeysInv'
PROOF
<1>1. UNCHANGED <<people, form, bulk, checks, adds, faces, doubts>>  BY DEF Covering
<1>2. fresh \in Nat  BY FormParts
<1>3. QueueMeans' = QueueMeans  BY DEF QueueMeans
<1>4. CaptureMeans' = CaptureMeans /\ FacesMean' = FacesMean  BY <1>1, Same
<1>5. QueueKnown'  BY DEF QueueKnown, KeysInv, CoverSide, ShotGood, Fields
<1>6. CaptureKnown'  BY DEF CaptureKnown, KeysInv, CoverSide, Fields
<1>7. faces' \subseteq [member : Keys, of : Keys]  BY <1>1 DEF KeysInv, PeopleKnown
<1>8. QueueMeans \subseteq Means /\ CaptureMeans \subseteq Means /\ FacesMean \subseteq Means
    BY PartsMean DEF CoversMean
<1>9. \A q \in shots' : ShotSound(q) /\ ShotMeans(q) \subseteq Means /\ (Detecting(q) => q \in shots)  BY DEF ShotGood
<1> QED  BY <1>1, <1>2, <1>3, <1>4, <1>5, <1>6, <1>7, <1>8, <1>9, ShotsStep

QueueFields == {"open", "members", "persons", "status", "index", "busy", "jumps", "done"}

LEMMA QueueIs ==
    ASSUME KeysInv
    PROVE  /\ Fields(queue, QueueFields) /\ DOMAIN queue.members \subseteq Nat
           /\ DOMAIN queue.status = DOMAIN queue.members /\ queue.jumps \subseteq DOMAIN queue.members
           /\ queue.open => queue.index \in DOMAIN queue.members
PROOF BY DEF KeysInv, CoverSide, QueueKnown, QueueFields

\* A place of the queue has another status, and the queue is busy or not.
LEMMA WithStatusIs ==
    ASSUME NEW q, Fields(q, QueueFields), NEW s
    PROVE  LET w == WithStatus(q, s)
           IN  /\ Fields(w, QueueFields) /\ w.status = s /\ w.open = q.open /\ w.members = q.members
               /\ w.persons = q.persons /\ w.index = q.index /\ w.jumps = q.jumps
PROOF
<1> DEFINE d == q.done /\ Finished([q EXCEPT !.status = s])
<1> DEFINE w == [q EXCEPT !.status = s, !.done = d]
<1>1. WithStatus(q, s) = w  BY DEF WithStatus, Fields, QueueFields
<1> HIDE DEF d
<1>2. DOMAIN w = DOMAIN q  OBVIOUS
<1>3. w.status = s  BY DEF Fields, QueueFields
<1>4. \A f \in DOMAIN q : f \notin {"status", "done"} => w[f] = q[f]  OBVIOUS
<1> HIDE DEF w
<1> QED  BY <1>1, <1>2, <1>3, <1>4 DEF Fields, QueueFields

\* findNextPendingIndex finds a place of the queue, or none.
LEMMA NextPendingIs ==
    ASSUME NEW s, DOMAIN s \subseteq Nat, NEW i
    PROVE  NextPending(s, i) # 0 => NextPending(s, i) \in DOMAIN s
PROOF
<1>1. ASSUME NEW T \in SUBSET Nat, T # {} PROVE Min(T) \in T
  <2>1. \E m \in T : \A n \in T : m <= n  BY <1>1, LeastExists
  <2> QED  BY <2>1 DEF Min
<1>2. {j \in DOMAIN s : j > i /\ s[j] = "pending"} \in SUBSET Nat  OBVIOUS
<1>3. {j \in DOMAIN s : j < i /\ s[j] = "pending"} \in SUBSET Nat  OBVIOUS
<1> QED  BY <1>1, <1>2, <1>3 DEF NextPending

LEMMA CaptureFromQueueStep == ASSUME KeysInv, CaptureFromQueue PROVE KeysInv'
PROOF
<1> DEFINE s == [queue.status EXCEPT ![queue.index] = "capturing"]
<1> DEFINE w == WithStatus(queue, s)
<1> DEFINE r == [kind |-> "queue", at |-> "check", latest |-> TRUE, group |-> selected,
                 member |-> queue.members[queue.index], of |-> queue.persons[queue.index],
                 index |-> queue.index, status |-> queue.status, got |-> None]
<1>1. /\ queue.open /\ queue' = [w EXCEPT !.busy = TRUE] /\ shots' = shots \cup {r}
      /\ UNCHANGED <<capture, photos, fresh>> /\ Covering
    BY DEF CaptureFromQueue, Ask
<1>2. /\ Fields(queue, QueueFields) /\ DOMAIN queue.status = DOMAIN queue.members
      /\ queue.jumps \subseteq DOMAIN queue.members /\ queue.index \in DOMAIN queue.members
    BY <1>1, QueueIs
<1>3. DOMAIN s = DOMAIN queue.status  OBVIOUS
<1>4. /\ Fields(w, QueueFields) /\ w.status = s /\ w.open = queue.open /\ w.members = queue.members
      /\ w.persons = queue.persons /\ w.index = queue.index /\ w.jumps = queue.jumps
    BY <1>2, WithStatusIs
<1>5. ShotGood(r)
  <2>1. ShotMeans(r) = {<<queue.members[queue.index], queue.persons[queue.index]>>}  BY DEF ShotMeans
  <2>2. ShotMeans(r) \subseteq Means  BY <1>2, <2>1, PartsMean DEF CoversMean, QueueMeans
  <2>3. ShotSound(r)  BY <1>2 DEF ShotSound, Fields
  <2> QED  BY <1>1, <1>2, <2>2, <2>3 DEF ShotGood, Detecting
<1> HIDE DEF r, s, w
<1>6. \A q \in shots' : ShotGood(q)  BY <1>1, <1>5, ShotsGood
<1>7. /\ Fields(queue', QueueFields) /\ queue'.status = s /\ queue'.open = queue.open /\ queue'.members = queue.members
      /\ queue'.persons = queue.persons /\ queue'.index = queue.index /\ queue'.jumps = queue.jumps
    BY <1>1, <1>4 DEF Fields, QueueFields
<1> QED  BY <1>1, <1>2, <1>3, <1>6, <1>7, QueueStep DEF QueueFields

LEMMA CaptureCheckedStep == ASSUME KeysInv, NEW q \in shots, NEW found, CaptureChecked(q, found) PROVE KeysInv'
PROOF
<1>1. /\ q.kind = "queue" /\ UNCHANGED <<capture, photos, fresh>> /\ Covering
      /\ \A r \in shots' : r \in shots \/ r = [q EXCEPT !.at = "enroll"]
    BY DEF CaptureChecked, Replied
<1>2. \A r \in shots' : ShotGood(r)  BY <1>1, ShotsGood, ShotChanges
<1>3. /\ Fields(queue, QueueFields) /\ DOMAIN queue.status = DOMAIN queue.members
      /\ queue.jumps \subseteq DOMAIN queue.members /\ (queue.open => queue.index \in DOMAIN queue.members)
    BY QueueIs
<1>4. \E b \in {queue, [queue EXCEPT !.busy = FALSE]}, v \in {"processing", "pending"} :
         queue' = queue \/ queue' = WithStatus(b, [queue.status EXCEPT ![q.index] = v])
    BY DEF CaptureChecked
<1>5. PICK b \in {queue, [queue EXCEPT !.busy = FALSE]}, v \in {"processing", "pending"} :
         queue' = queue \/ queue' = WithStatus(b, [queue.status EXCEPT ![q.index] = v])
    BY <1>4
<1> DEFINE s == [queue.status EXCEPT ![q.index] = v]
<1>6. DOMAIN s = DOMAIN queue.status  OBVIOUS
<1>7. queue' = queue \/ queue' = WithStatus(b, s)  BY <1>5
<1> HIDE DEF s
<1>8. /\ Fields(b, QueueFields) /\ b.open = queue.open /\ b.members = queue.members
      /\ b.persons = queue.persons /\ b.index = queue.index /\ b.jumps = queue.jumps
    BY <1>3 DEF Fields, QueueFields
<1>9. /\ Fields(queue', QueueFields) /\ queue'.status \in {queue.status, s} /\ queue'.open = queue.open
      /\ queue'.members = queue.members
      /\ queue'.persons = queue.persons /\ queue'.index = queue.index /\ queue'.jumps = queue.jumps
    BY <1>3, <1>7, <1>8, WithStatusIs
<1> QED  BY <1>1, <1>2, <1>3, <1>6, <1>9, QueueStep DEF QueueFields

LEMMA QueueEnrolledStep == ASSUME KeysInv, NEW q \in shots, QueueEnrolled(q) PROVE KeysInv'
PROOF
<1> DEFINE done == [q.status EXCEPT ![q.index] = "completed"]
           next == NextPending(done, q.index)
           failed == [queue.status EXCEPT ![q.index] = "pending"]
<1>1. /\ q.kind = "queue" /\ UNCHANGED <<capture, photos, fresh>> /\ Covering /\ shots' \subseteq shots
    BY DEF QueueEnrolled, Replied
<1>2. \A r \in shots' : ShotGood(r)  BY <1>1, ShotsGood
<1>3. /\ Fields(queue, QueueFields) /\ DOMAIN queue.status = DOMAIN queue.members /\ DOMAIN queue.members \subseteq Nat
      /\ queue.jumps \subseteq DOMAIN queue.members /\ (queue.open => queue.index \in DOMAIN queue.members)
    BY QueueIs
<1>4. CASE ~q.latest
  <2>1. queue' = queue  BY <1>4 DEF QueueEnrolled
  <2> QED  BY <1>1, <1>2, <1>3, <2>1, QueueStep DEF QueueFields
<1>5. CASE q.latest /\ q.got = "ok"
  <2> DEFINE w == WithStatus(queue, done)
             j == IF next = 0 THEN w.jumps ELSE w.jumps \cup {next}
  <2>1. queue' = [w EXCEPT !.busy = FALSE, !.jumps = IF next = 0 THEN @ ELSE @ \cup {next}]
      BY <1>5 DEF QueueEnrolled
  <2>2. DOMAIN done = DOMAIN q.status /\ DOMAIN q.status = DOMAIN queue.members  BY <1>1, <1>5, ShotsGood DEF ShotGood
  <2> HIDE DEF done
  <2>3. next # 0 => next \in DOMAIN done  BY <1>3, <2>2, NextPendingIs
  <2>4. /\ Fields(w, QueueFields) /\ w.status = done /\ w.open = queue.open /\ w.members = queue.members
        /\ w.persons = queue.persons /\ w.index = queue.index /\ w.jumps = queue.jumps
      BY <1>3, WithStatusIs
  <2> HIDE DEF next, w
  <2>5. queue' = [w EXCEPT !.busy = FALSE, !.jumps = j]  BY <2>1, <2>4 DEF Fields, QueueFields
  <2>6. j \subseteq DOMAIN queue.members  BY <1>3, <2>2, <2>3, <2>4
  <2> HIDE DEF j
  <2>7. /\ Fields(queue', QueueFields) /\ queue'.status = done /\ queue'.open = queue.open
        /\ queue'.members = queue.members
        /\ queue'.persons = queue.persons /\ queue'.index = queue.index /\ queue'.jumps = j
      BY <2>4, <2>5 DEF Fields, QueueFields
  <2> QED  BY <1>1, <1>2, <1>3, <2>2, <2>6, <2>7, QueueStep DEF QueueFields
<1>6. CASE q.latest /\ q.got # "ok"
  <2> DEFINE b == [queue EXCEPT !.busy = FALSE]
  <2>1. queue' = WithStatus(b, failed)  BY <1>6 DEF QueueEnrolled
  <2>2. DOMAIN failed = DOMAIN queue.status  OBVIOUS
  <2>3. /\ Fields(b, QueueFields) /\ b.open = queue.open /\ b.members = queue.members
        /\ b.persons = queue.persons /\ b.index = queue.index /\ b.jumps = queue.jumps
      BY <1>3 DEF Fields, QueueFields
  <2> HIDE DEF b, failed
  <2>4. /\ Fields(queue', QueueFields) /\ queue'.status = failed /\ queue'.open = queue.open
        /\ queue'.members = queue.members
        /\ queue'.persons = queue.persons /\ queue'.index = queue.index /\ queue'.jumps = queue.jumps
      BY <2>1, <2>3, WithStatusIs
  <2> QED  BY <1>1, <1>2, <1>3, <2>2, <2>4, QueueStep DEF QueueFields
<1> QED  BY <1>4, <1>5, <1>6

\* The steps that send nothing: the arrows, "r", "s", the jump and the last page.
LEMMA QueueMoves ==
    ASSUME KeysInv, \/ MoveQueue \/ RetryInQueue \/ SkipInQueue \/ ShowCompletion
                    \/ \E i \in queue.jumps : JumpToNext(i)
    PROVE  KeysInv'
PROOF
<1>1. /\ Covering /\ UNCHANGED <<capture, photos, fresh, shots>>
  <2>1. CASE MoveQueue \/ RetryInQueue \/ SkipInQueue  BY <2>1 DEF MoveQueue, RetryInQueue, SkipInQueue
  <2>2. CASE ShowCompletion  BY <2>2 DEF ShowCompletion
  <2>3. CASE \E i \in queue.jumps : JumpToNext(i)  BY <2>3, Zenon DEF JumpToNext
  <2> QED  BY <2>1, <2>2, <2>3
<1>2. \A r \in shots' : ShotGood(r)  BY <1>1, ShotsGood
<1>3. /\ Fields(queue, QueueFields) /\ DOMAIN queue.status = DOMAIN queue.members /\ DOMAIN queue.members \subseteq Nat
      /\ queue.jumps \subseteq DOMAIN queue.members /\ (queue.open => queue.index \in DOMAIN queue.members)
    BY QueueIs
<1>4. CASE MoveQueue
  <2>1. PICK i \in DOMAIN queue.members : queue' = [queue EXCEPT !.index = i]  BY <1>4 DEF MoveQueue
  <2>2. /\ Fields(queue', QueueFields) /\ queue'.status = queue.status /\ queue'.open = queue.open
        /\ queue'.members = queue.members /\ queue'.persons = queue.persons
        /\ queue'.index = i /\ queue'.jumps = queue.jumps
      BY <1>3, <2>1 DEF Fields, QueueFields
  <2> QED  BY <1>1, <1>2, <1>3, <2>2, QueueStep DEF QueueFields
<1>5. CASE ShowCompletion
  <2>1. queue.open /\ queue' = [queue EXCEPT !.done = TRUE]  BY <1>5 DEF ShowCompletion
  <2>2. /\ Fields(queue', QueueFields) /\ queue'.status = queue.status /\ queue'.open = queue.open
        /\ queue'.members = queue.members /\ queue'.persons = queue.persons
        /\ queue'.index = queue.index /\ queue'.jumps = queue.jumps
      BY <1>3, <2>1 DEF Fields, QueueFields
  <2> QED  BY <1>1, <1>2, <1>3, <2>2, QueueStep DEF QueueFields
<1>6. CASE \E i \in queue.jumps : JumpToNext(i)
  <2>1. PICK i \in queue.jumps : JumpToNext(i)  BY <1>6
  <2> DEFINE J == queue.jumps \ {i}
             b == [queue EXCEPT !.index = i]
  <2>2. queue' = [queue EXCEPT !.index = i, !.jumps = @ \ {i}]  BY <2>1, Zenon DEF JumpToNext
  <2>3. b.jumps = queue.jumps  OBVIOUS
  <2>4. queue' = [b EXCEPT !.jumps = J]  BY <2>2, <2>3
  <2>5. J \subseteq DOMAIN queue.members /\ i \in DOMAIN queue.members  BY <1>3
  <2> HIDE DEF J
  <2>6. /\ Fields(b, QueueFields) /\ b.status = queue.status /\ b.open = queue.open
        /\ b.members = queue.members /\ b.persons = queue.persons /\ b.index = i
      BY <1>3 DEF Fields, QueueFields
  <2> HIDE DEF b
  <2>7. /\ Fields(queue', QueueFields) /\ queue'.status = queue.status /\ queue'.open = queue.open
        /\ queue'.members = queue.members /\ queue'.persons = queue.persons
        /\ queue'.index = i /\ queue'.jumps = J
      BY <2>4, <2>6 DEF Fields, QueueFields
  <2> QED  BY <1>1, <1>2, <1>3, <2>5, <2>7, QueueStep DEF QueueFields
<1>7. CASE RetryInQueue
  <2> DEFINE s == [queue.status EXCEPT ![queue.index] = "pending"]
  <2>1. queue' = WithStatus(queue, s)  BY <1>7 DEF RetryInQueue
  <2>2. DOMAIN s = DOMAIN queue.status  OBVIOUS
  <2> HIDE DEF s
  <2>3. /\ Fields(queue', QueueFields) /\ queue'.status = s /\ queue'.open = queue.open
        /\ queue'.members = queue.members
        /\ queue'.persons = queue.persons /\ queue'.index = queue.index /\ queue'.jumps = queue.jumps
      BY <1>3, <2>1, WithStatusIs
  <2> QED  BY <1>1, <1>2, <1>3, <2>2, <2>3, QueueStep DEF QueueFields
<1>8. CASE SkipInQueue
  <2> DEFINE s == [queue.status EXCEPT ![queue.index] = "skipped"]
             next == NextPending(s, queue.index)
             w == WithStatus(queue, s)
             i == IF next = 0 THEN queue.index ELSE next
  <2>1. queue.open /\ queue' = [w EXCEPT !.index = IF next = 0 THEN @ ELSE next]  BY <1>8 DEF SkipInQueue
  <2>2. DOMAIN s = DOMAIN queue.status  OBVIOUS
  <2> HIDE DEF s
  <2>3. next # 0 => next \in DOMAIN s  BY <1>3, <2>2, NextPendingIs
  <2>4. /\ Fields(w, QueueFields) /\ w.status = s /\ w.open = queue.open /\ w.members = queue.members
        /\ w.persons = queue.persons /\ w.index = queue.index /\ w.jumps = queue.jumps
      BY <1>3, WithStatusIs
  <2> HIDE DEF next, w
  <2>5. queue' = [w EXCEPT !.index = i]  BY <2>1, <2>4 DEF Fields, QueueFields
  <2>6. i \in DOMAIN queue.members  BY <1>3, <2>1, <2>2, <2>3
  <2> HIDE DEF i
  <2>7. /\ Fields(queue', QueueFields) /\ queue'.status = s /\ queue'.open = queue.open
        /\ queue'.members = queue.members
        /\ queue'.persons = queue.persons /\ queue'.index = i /\ queue'.jumps = queue.jumps
      BY <2>4, <2>5 DEF Fields, QueueFields
  <2> QED  BY <1>1, <1>2, <1>3, <2>2, <2>6, <2>7, QueueStep DEF QueueFields
<1> QED  BY <1>4, <1>5, <1>6, <1>7, <1>8

\* The members are finitely many, so that there is an order of them.
LEMMA MembersFinite ==
    ASSUME KeysInv, NEW g
    PROVE  /\ IsFiniteSet(MembersOf(g))
           /\ \A m \in MembersOf(g) : <<m, PersonOf(m)>> \in Means
PROOF
<1>1. \A p \in people : <<p.id, p.intent>> \in Means  BY PartsMean DEF PeopleMean
<1>2. ASSUME NEW m \in MembersOf(g) PROVE <<m, PersonOf(m)>> \in Means /\ Old(m)
  <2>1. \E p \in people : p.id = m  BY DEF MembersOf
  <2>2. PICK p \in people : p.id = m /\ PersonOf(m) = p.intent  BY <2>1 DEF PersonOf
  <2>3. <<m, PersonOf(m)>> \in Means  BY <1>1, <2>2
  <2>4. Old(<<m, PersonOf(m)>>[1])  BY <2>3 DEF KeysInv, MeansOld
  <2> QED  BY <2>3, <2>4
<1>3. fresh \in Nat  BY FormParts
<1>4. MembersOf(g) \subseteq Members \cup 0 .. fresh
  <2> SUFFICES ASSUME NEW m \in MembersOf(g) PROVE m \in Members \/ m \in 0 .. fresh  OBVIOUS
  <2>1. m \in Members \/ (m \in Nat /\ m <= fresh)  BY <1>2 DEF Old
  <2> QED  BY <1>3, <2>1
<1>5. IsFiniteSet(0 .. fresh)  BY <1>3, FS_Interval
<1>6. IsFiniteSet(Members \cup 0 .. fresh)  BY <1>5, FS_Union, PanelAssumption
<1> QED  BY <1>2, <1>4, <1>6, FS_Subset

LEMMA OpenQueueStep == ASSUME KeysInv, NEW members, OpenQueue(members) PROVE KeysInv'
PROOF
<1>1. /\ members \subseteq MembersOf(selected) /\ Cardinality(members) > 1 /\ ~queue.open
      /\ UNCHANGED <<capture, photos, shots, fresh>> /\ Covering
    BY DEF OpenQueue, ShownMembers, ListShown, Uncovered
<1>2. PICK order \in SetToSeqs(members) : queue' = Queue(order)  BY DEF OpenQueue
<1>3. Cardinality(members) \in Nat
  <2>1. IsFiniteSet(members)  BY <1>1, MembersFinite, FS_Subset
  <2> QED  BY <2>1, FS_CardinalityType
<1>4. DOMAIN order = 1 .. Cardinality(members) /\ \A i \in DOMAIN order : order[i] \in members  BY DEF SetToSeqs
<1>5. DOMAIN order \subseteq Nat /\ 1 \in DOMAIN order  BY <1>1, <1>3, <1>4
<1> DEFINE persons == [i \in DOMAIN order |-> PersonOf(order[i])]
           s == [i \in DOMAIN order |-> "pending"]
<1>6. queue' = [NoQueue EXCEPT !.open = TRUE, !.members = order, !.persons = persons, !.status = s]
    BY <1>2 DEF Queue
<1>7. DOMAIN s = DOMAIN order /\ \A i \in DOMAIN order : persons[i] = PersonOf(order[i])  OBVIOUS
<1> HIDE DEF persons, s
<1>8. /\ Fields(queue', QueueFields) /\ queue'.open = TRUE /\ queue'.members = order /\ queue'.persons = persons
      /\ queue'.status = s /\ queue'.index = 1 /\ queue'.jumps = {}
    BY <1>6 DEF Fields, QueueFields, NoQueue
<1>9. QueueMeans' \subseteq Means
  <2>1. \A i \in DOMAIN order : <<order[i], persons[i]>> \in Means  BY <1>1, <1>4, <1>7, MembersFinite
  <2> QED  BY <1>8, <2>1 DEF QueueMeans
<1>10. QueueKnown'
  <2>1. \A q \in shots' : ~(q.kind = "queue" /\ q.latest)  BY <1>1, ShotsGood DEF ShotGood
  <2> QED  BY <1>5, <1>7, <1>8, <2>1 DEF QueueKnown, QueueFields, Fields
<1>11. UNCHANGED <<people, form, bulk, checks, adds, faces, doubts>>  BY <1>1 DEF Covering
<1>12. CaptureMeans' = CaptureMeans /\ FacesMean' = FacesMean  BY <1>1, <1>11, Same
<1>13. CaptureKnown'  BY <1>1 DEF CaptureKnown, KeysInv, CoverSide, Fields
<1>14. faces' \subseteq [member : Keys, of : Keys]  BY <1>11 DEF KeysInv, PeopleKnown
<1>15. CaptureMeans \subseteq Means /\ FacesMean \subseteq Means  BY PartsMean DEF CoversMean
<1>16. \A q \in shots' : ShotSound(q) /\ ShotMeans(q) \subseteq Means /\ (Detecting(q) => q \in shots)
    BY <1>1, ShotsGood DEF ShotGood
<1>17. fresh \in Nat  BY FormParts
<1> QED  BY <1>1, <1>9, <1>10, <1>11, <1>12, <1>13, <1>14, <1>15, <1>16, <1>17, ShotsStep

LEMMA CloseQueueStep == ASSUME KeysInv, CloseQueue PROVE KeysInv'
PROOF
<1>1. /\ queue' = NoQueue /\ shots' = Superseded(shots) /\ UNCHANGED <<capture, photos, fresh>> /\ Covering
    BY DEF CloseQueue
<1>2. \A r \in shots' : ShotGood(r) /\ ~r.latest  BY <1>1, SupersededShots
<1>3. /\ Fields(queue', QueueFields) /\ ~queue'.open /\ DOMAIN queue'.members = {} /\ DOMAIN queue'.status = {}
      /\ queue'.jumps = {}
    BY <1>1 DEF NoQueue, Fields, QueueFields
<1>4. QueueMeans' \subseteq Means  BY <1>3 DEF QueueMeans
<1>5. QueueKnown'  BY <1>2, <1>3 DEF QueueKnown, QueueFields, Fields
<1>6. UNCHANGED <<people, form, bulk, checks, adds, faces, doubts>>  BY <1>1 DEF Covering
<1>7. CaptureMeans' = CaptureMeans /\ FacesMean' = FacesMean  BY <1>1, <1>6, Same
<1>8. CaptureKnown'  BY <1>1 DEF CaptureKnown, KeysInv, CoverSide, Fields
<1>9. faces' \subseteq [member : Keys, of : Keys]  BY <1>6 DEF KeysInv, PeopleKnown
<1>10. CaptureMeans \subseteq Means /\ FacesMean \subseteq Means  BY PartsMean DEF CoversMean
<1>11. \A q \in shots' : ShotSound(q) /\ ShotMeans(q) \subseteq Means /\ (Detecting(q) => q \in shots)
    BY <1>2 DEF ShotGood
<1>12. fresh \in Nat  BY FormParts
<1> QED  BY <1>1, <1>4, <1>5, <1>6, <1>7, <1>8, <1>9, <1>10, <1>11, <1>12, ShotsStep

\* A face is stored for the member an enrollment is for.
LEMMA ServeShotStep == ASSUME KeysInv, NEW q \in shots, ServeShot(q) PROVE KeysInv'
PROOF
<1> DEFINE stored == {f \in faces : f.member # q.member} \cup {[member |-> q.member, of |-> q.of]}
<1>1. /\ q.kind \in {"queue", "single"} /\ faces' \in {faces, stored}
      /\ UNCHANGED <<people, form, bulk, checks, adds, fresh, doubts, queue, capture, photos>>
      /\ \A r \in shots' : r \in shots \/ \E x : r = [q EXCEPT !.got = x]
    BY DEF ServeShot, Got, MemberOf, Trouble
<1>2. \A r \in shots' : ShotGood(r)
  <2> SUFFICES ASSUME NEW r \in shots' PROVE ShotGood(r)  OBVIOUS
  <2>1. CASE r \in shots  BY <2>1, ShotsGood
  <2>2. CASE \E x : r = [q EXCEPT !.got = x]
    <3>1. PICK x : r = [q EXCEPT !.got = x]  BY <2>2
    <3> QED  BY <1>1, <3>1, ShotChanges
  <2> QED  BY <1>1, <2>1, <2>2
<1>3. <<q.member, q.of>> \in Means  BY <1>1, ShotsGood DEF ShotGood, ShotMeans
<1>4. q.member \in Keys /\ q.of \in Keys
  <2>1. Old(<<q.member, q.of>>[1]) /\ Old(<<q.member, q.of>>[2])  BY <1>3 DEF KeysInv, MeansOld
  <2> QED  BY <2>1 DEF Old, Keys
<1>5. \A f \in faces' : f \in faces \/ f = [member |-> q.member, of |-> q.of]  BY <1>1
<1>6. faces' \subseteq [member : Keys, of : Keys]  BY <1>4, <1>5 DEF KeysInv, PeopleKnown
<1>7. FacesMean' \subseteq Means
  <2>1. \A f \in faces : <<f.member, f.of>> \in Means  BY PartsMean DEF FacesMean
  <2>2. ASSUME NEW f \in faces' PROVE <<f.member, f.of>> \in Means
    <3>1. CASE f \in faces  BY <2>1, <3>1
    <3>2. CASE f = [member |-> q.member, of |-> q.of]
      <4>1. f.member = q.member /\ f.of = q.of  BY <3>2
      <4> QED  BY <1>3, <4>1
    <3> QED  BY <1>5, <3>1, <3>2
  <2> QED  BY <2>2 DEF FacesMean
<1>8. QueueMeans' = QueueMeans /\ CaptureMeans' = CaptureMeans  BY <1>1, Same
<1>9. QueueMeans \subseteq Means /\ CaptureMeans \subseteq Means  BY PartsMean DEF CoversMean
<1>10. QueueKnown'  BY <1>1, <1>2, QueueIs DEF QueueKnown, ShotGood, Fields, QueueFields
<1>11. CaptureKnown'  BY <1>1 DEF CaptureKnown, KeysInv, CoverSide, Fields
<1>12. \A r \in shots' : ShotSound(r) /\ ShotMeans(r) \subseteq Means /\ (Detecting(r) => r \in shots)
    BY <1>2 DEF ShotGood
<1>13. fresh \in Nat  BY FormParts
<1> QED  BY <1>1, <1>6, <1>7, <1>8, <1>9, <1>10, <1>11, <1>12, <1>13, ShotsStep

\* A step of the camera.
CaptureFields == {"member", "person", "frame", "busy"}
FrameFields == {"id", "of", "at"}

LEMMA CaptureIs ==
    ASSUME KeysInv
    PROVE  /\ Fields(capture, CaptureFields)
           /\ capture.frame # None => Fields(capture.frame, FrameFields) /\ capture.frame.of = capture.person
           /\ capture.member # None => <<capture.member, capture.person>> \in Means
PROOF
<1>1. capture.member # None => <<capture.member, capture.person>> \in Means
    BY PartsMean DEF CoversMean, CaptureMeans
<1> QED  BY <1>1 DEF KeysInv, CoverSide, CaptureKnown, CaptureFields, FrameFields

LEMMA CaptureSteps ==
    ASSUME KeysInv, Covering, UNCHANGED <<queue, photos>>, fresh' \in Nat, fresh <= fresh',
           Fields(capture', CaptureFields),
           capture'.frame # None => Fields(capture'.frame, FrameFields) /\ capture'.frame.of = capture'.person,
           capture'.member # None => <<capture'.member, capture'.person>> \in Means,
           \A r \in shots' : ShotGood(r)
    PROVE  KeysInv'
PROOF
<1>1. UNCHANGED <<people, form, bulk, checks, adds, faces, doubts>>  BY DEF Covering
<1>2. CaptureMeans' \subseteq Means  BY DEF CaptureMeans
<1>3. CaptureKnown'  BY DEF CaptureKnown, CaptureFields, FrameFields, Fields
<1>4. QueueMeans' = QueueMeans /\ FacesMean' = FacesMean  BY <1>1, Same
<1>5. QueueKnown'  BY QueueIs DEF QueueKnown, ShotGood, Fields, QueueFields
<1>6. faces' \subseteq [member : Keys, of : Keys]  BY <1>1 DEF KeysInv, PeopleKnown
<1>7. QueueMeans \subseteq Means /\ FacesMean \subseteq Means  BY PartsMean DEF CoversMean
<1>8. \A r \in shots' : ShotSound(r) /\ ShotMeans(r) \subseteq Means /\ (Detecting(r) => r \in shots)  BY DEF ShotGood
<1> QED  BY <1>1, <1>2, <1>3, <1>4, <1>5, <1>6, <1>7, <1>8, ShotsStep

LEMMA NoCaptureIs ==
    /\ Fields(NoCapture, CaptureFields) /\ NoCapture.member = None /\ NoCapture.person = None /\ NoCapture.frame = None
PROOF BY DEF NoCapture, Fields, CaptureFields

LEMMA JumpStep == ASSUME KeysInv, NEW m \in ShownMembers, JumpToEnrollment(m) PROVE KeysInv'
PROOF
<1>1. /\ capture' = [NoCapture EXCEPT !.member = m, !.person = PersonOf(m)]
      /\ UNCHANGED <<queue, photos, shots, fresh>> /\ Covering
    BY DEF JumpToEnrollment
<1>2. <<m, PersonOf(m)>> \in Means  BY MembersFinite DEF ShownMembers
<1>3. /\ Fields(capture', CaptureFields) /\ capture'.member = m /\ capture'.person = PersonOf(m)
      /\ capture'.frame = None
    BY <1>1, NoCaptureIs DEF Fields, CaptureFields
<1>4. fresh \in Nat  BY FormParts
<1> QED  BY <1>1, <1>2, <1>3, <1>4, ShotsGood, CaptureSteps

LEMMA CloseCaptureStep == ASSUME KeysInv, CloseCapture PROVE KeysInv'
PROOF
<1>1. capture' = NoCapture /\ shots' = Superseded(shots) /\ UNCHANGED <<queue, photos, fresh>> /\ Covering
    BY DEF CloseCapture
<1>2. fresh \in Nat  BY FormParts
<1> QED  BY <1>1, <1>2, NoCaptureIs, SupersededShots, CaptureSteps

LEMMA CaptureFrameStep == ASSUME KeysInv, CaptureFrame PROVE KeysInv'
PROOF
<1> DEFINE frame == [id |-> fresh + 1, of |-> capture.person, at |-> "processing"]
           r == [kind |-> "frame", at |-> "check", latest |-> TRUE, id |-> fresh + 1, got |-> None]
<1>1. /\ capture' = [capture EXCEPT !.frame = frame] /\ fresh' = fresh + 1 /\ shots' = shots \cup {r}
      /\ UNCHANGED <<queue, photos>> /\ Covering
    BY DEF CaptureFrame, Ask
<1>2. Fields(frame, FrameFields) /\ frame.of = capture.person  BY DEF Fields, FrameFields
<1>3. ShotGood(r)
  <2>1. ShotSound(r)  BY DEF ShotSound, Fields
  <2>2. ShotMeans(r) = {}  BY DEF ShotMeans
  <2> QED  BY <2>1, <2>2 DEF ShotGood, Detecting
<1> HIDE DEF frame, r
<1>4. /\ Fields(capture', CaptureFields) /\ capture'.member = capture.member /\ capture'.person = capture.person
      /\ capture'.frame = frame
    BY <1>1, CaptureIs DEF Fields, CaptureFields
<1>5. fresh \in Nat  BY FormParts
<1>6. fresh' \in Nat /\ fresh <= fresh'  BY <1>1, <1>5
<1>7. \A q \in shots' : ShotGood(q)  BY <1>1, <1>3, ShotsGood
<1> QED  BY <1>1, <1>2, <1>4, <1>6, <1>7, CaptureIs, CaptureSteps

\* The answers, the other photo and the button, after which the camera is for the same member.
LEMMA FrameStep ==
    ASSUME KeysInv, Covering, UNCHANGED <<queue, photos, fresh>>, Fields(capture', CaptureFields),
           capture'.member = capture.member, capture'.person = capture.person,
           \/ capture'.frame \in {capture.frame, None}
           \/ capture.frame # None /\ \E at : capture'.frame = [capture.frame EXCEPT !.at = at],
           \A r \in shots' : ShotGood(r)
    PROVE  KeysInv'
PROOF
<1>1. fresh \in Nat  BY FormParts
<1>2. capture'.frame # None => Fields(capture'.frame, FrameFields) /\ capture'.frame.of = capture'.person
  <2>1. CASE capture'.frame \in {capture.frame, None}  BY <2>1, CaptureIs
  <2>2. CASE capture.frame # None /\ \E at : capture'.frame = [capture.frame EXCEPT !.at = at]
    <3>1. PICK at : capture'.frame = [capture.frame EXCEPT !.at = at]  BY <2>2
    <3> QED  BY <2>2, <3>1, CaptureIs DEF Fields, FrameFields
  <2> QED  BY <2>1, <2>2
<1> QED  BY <1>1, <1>2, CaptureIs, CaptureSteps

LEMMA FrameCheckedStep == ASSUME KeysInv, NEW q \in shots, NEW found, FrameChecked(q, found) PROVE KeysInv'
PROOF
<1>1. shots' \subseteq shots /\ UNCHANGED <<queue, photos, fresh>> /\ Covering  BY DEF FrameChecked, Replied
<1>2. \/ capture' = capture
      \/ capture' = [capture EXCEPT !.frame = None]
      \/ capture.frame # None /\ capture' = [capture EXCEPT !.frame = [@ EXCEPT !.at = "ready"]]
    BY DEF FrameChecked
<1>3. Fields(capture, CaptureFields)  BY CaptureIs
<1>4. CASE capture' = capture  BY <1>1, <1>3, <1>4, ShotsGood, FrameStep
<1>5. CASE capture' = [capture EXCEPT !.frame = None]
  <2>1. /\ Fields(capture', CaptureFields) /\ capture'.member = capture.member /\ capture'.person = capture.person
        /\ capture'.frame = None
      BY <1>3, <1>5 DEF Fields, CaptureFields
  <2> QED  BY <1>1, <2>1, ShotsGood, FrameStep
<1>6. CASE capture.frame # None /\ capture' = [capture EXCEPT !.frame = [@ EXCEPT !.at = "ready"]]
  <2>1. /\ Fields(capture', CaptureFields) /\ capture'.member = capture.member /\ capture'.person = capture.person
        /\ capture'.frame = [capture.frame EXCEPT !.at = "ready"]
      BY <1>3, <1>6 DEF Fields, CaptureFields
  <2> QED  BY <1>1, <1>6, <2>1, ShotsGood, FrameStep
<1> QED  BY <1>2, <1>4, <1>5, <1>6

LEMMA RetakeStep == ASSUME KeysInv, RetakeFrame PROVE KeysInv'
PROOF
<1>1. capture' = [capture EXCEPT !.frame = None] /\ UNCHANGED <<queue, photos, shots, fresh>> /\ Covering
    BY DEF RetakeFrame
<1>2. /\ Fields(capture', CaptureFields) /\ capture'.member = capture.member /\ capture'.person = capture.person
      /\ capture'.frame = None
    BY <1>1, CaptureIs DEF Fields, CaptureFields
<1> QED  BY <1>1, <1>2, ShotsGood, FrameStep

LEMMA HandleEnrollStep == ASSUME KeysInv, HandleEnroll PROVE KeysInv'
PROOF
<1> DEFINE r == [kind |-> "single", at |-> "enroll", latest |-> TRUE, group |-> selected, member |-> capture.member,
                 of |-> capture.frame.of, id |-> capture.frame.id, got |-> None]
<1>1. /\ capture.member # None /\ capture.frame # None
      /\ capture' = [capture EXCEPT !.busy = TRUE] /\ shots' = shots \cup {r}
      /\ UNCHANGED <<queue, photos, fresh>> /\ Covering
    BY DEF HandleEnroll, Framed, Ask
<1>2. ShotGood(r)
  <2>1. ShotSound(r)  BY DEF ShotSound, Fields
  <2>2. ShotMeans(r) = {<<capture.member, capture.frame.of>>}  BY DEF ShotMeans
  <2>3. ShotMeans(r) \subseteq Means  BY <1>1, <2>2, CaptureIs
  <2> QED  BY <2>1, <2>3 DEF ShotGood, Detecting
<1> HIDE DEF r
<1>3. /\ Fields(capture', CaptureFields) /\ capture'.member = capture.member /\ capture'.person = capture.person
      /\ capture'.frame = capture.frame
    BY <1>1, CaptureIs DEF Fields, CaptureFields
<1>4. \A q \in shots' : ShotGood(q)  BY <1>1, <1>2, ShotsGood
<1> QED  BY <1>1, <1>3, <1>4, FrameStep

LEMMA FrameEnrolledStep == ASSUME KeysInv, NEW q \in shots, FrameEnrolled(q) PROVE KeysInv'
PROOF
<1>1. shots' \subseteq shots /\ UNCHANGED <<queue, photos, fresh>> /\ Covering  BY DEF FrameEnrolled, Replied
<1>2. \/ capture' = capture
      \/ capture' = [capture EXCEPT !.busy = FALSE]
      \/ capture.frame # None /\ capture' = [capture EXCEPT !.busy = FALSE, !.frame.at = "enrolled"]
    BY DEF FrameEnrolled
<1>3. Fields(capture, CaptureFields)  BY CaptureIs
<1>4. CASE capture' = capture  BY <1>1, <1>3, <1>4, ShotsGood, FrameStep
<1>5. CASE capture' = [capture EXCEPT !.busy = FALSE]
  <2>1. /\ Fields(capture', CaptureFields) /\ capture'.member = capture.member /\ capture'.person = capture.person
        /\ capture'.frame = capture.frame
      BY <1>3, <1>5 DEF Fields, CaptureFields
  <2> QED  BY <1>1, <2>1, ShotsGood, FrameStep
<1>6. CASE capture.frame # None /\ capture' = [capture EXCEPT !.busy = FALSE, !.frame.at = "enrolled"]
  <2> DEFINE b == [capture EXCEPT !.busy = FALSE]
  <2>1. capture' = [b EXCEPT !.frame.at = "enrolled"]  BY <1>6
  <2>2. /\ Fields(b, CaptureFields) /\ b.member = capture.member /\ b.person = capture.person
        /\ b.frame = capture.frame
      BY <1>3 DEF Fields, CaptureFields
  <2> HIDE DEF b
  <2>3. /\ Fields(capture', CaptureFields) /\ capture'.member = b.member /\ capture'.person = b.person
        /\ capture'.frame = [b.frame EXCEPT !.at = "enrolled"]
      BY <2>1, <2>2 DEF Fields, CaptureFields
  <2> QED  BY <1>1, <1>6, <2>2, <2>3, ShotsGood, FrameStep
<1> QED  BY <1>2, <1>4, <1>5, <1>6

(***************************************************************************)
(* Photos of many.                                                         *)
(***************************************************************************)
PhotosFields == {"open", "among", "files", "found", "detecting", "enrolling", "results"}

LEMMA PhotosAre ==
    ASSUME KeysInv
    PROVE  /\ Fields(photos, PhotosFields) /\ photos.found \subseteq FaceType /\ photos.files \in Seq(Keys)
           /\ \A f \in photos.found : f.file \in DOMAIN photos.files /\ photos.files[f.file] = f.of /\ Old(f.of)
           /\ photos.found # {} => photos.open
           /\ photos.open => ~form.open
           /\ \A q \in shots : Detecting(q) =>
                 photos.open /\ photos.detecting /\ q.file \in DOMAIN photos.files /\ photos.files[q.file] = q.of
           /\ \A q, r \in shots : Detecting(q) /\ Detecting(r) => q = r
           /\ OfFaces(photos.found) \subseteq Means
PROOF
<1>1. OfFaces(photos.found) \subseteq Means  BY PartsMean DEF CoversMean, PhotosMean
<1> QED  BY <1>1 DEF KeysInv, CoverSide, FilesKnown, PhotosFields, OneDialog

LEMMA OfFacesIs == \A found, b : b \in OfFaces(found) <=> \E f \in found : f.member # None /\ b = <<f.member, f.of>>
PROOF BY DEF OfFaces

\* A closed form holds nothing.
LEMMA FormClosed ==
    ASSUME KeysInv, ~form.open
    PROVE  /\ form.request = None /\ FormMeans = {} /\ ListMeans = {} /\ Sent = {} /\ Entries(bulk.file) = {}
           /\ \A a \in adds : ~a.latest
PROOF
<1>1. form = NoForm /\ bulk = NoBulk /\ \A a \in adds : ~a.latest
    BY DEF KeysInv, FormSide, FormKnown, AddsSound
<1>2. form.request = None /\ form.saved = None  BY <1>1 DEF NoForm
<1>3. bulk.file = {} /\ bulk.pending = {} /\ bulk.completed = {}  BY <1>1 DEF NoBulk
<1> QED  BY <1>1, <1>2, <1>3 DEF FormMeans, ListMeans, Meant, Sent, Entries

\* What is new of the keys is among the photos and what they ask for.
LEMMA PhotosCompose ==
    ASSUME KeysInv, UNCHANGED <<people, form, bulk, checks, adds, queue, capture>>, fresh' \in Nat, fresh <= fresh',
           doubts \subseteq doubts', faces' \subseteq [member : Keys, of : Keys], FacesMean' \subseteq Means,
           FilesKnown', ShotsSound', OneDialog', PhotosMean' \subseteq Means, ShotsMean' \subseteq Means,
           \A r \in shots' : r.kind = "queue" /\ r.latest => queue.open /\ DOMAIN r.status = DOMAIN queue.members,
           Certain' => OneKey'
    PROVE  KeysInv'
PROOF
<1>1. PeopleKnown' /\ PeopleMean' = PeopleMean /\ FormsAdd' = FormsAdd  BY Same DEF KeysInv, PeopleKnown
<1>2. QueueMeans' = QueueMeans /\ CaptureMeans' = CaptureMeans  BY Same
<1>3. CoversMean' \subseteq Means  BY <1>2, PartsMean DEF CoversMean
<1>4. QueueKnown'  BY QueueIs DEF QueueKnown, Fields, QueueFields
<1>5. CaptureKnown'  BY DEF CaptureKnown, KeysInv, CoverSide, Fields
<1>6. CoverSide'  BY <1>4, <1>5 DEF CoverSide
<1>7. Added' \subseteq Added  BY <1>1 DEF Added
<1>8. Certain' => OneKey' /\ Unused'  BY <1>7, CertainStays, UnusedStays DEF KeysInv
<1> DEFINE New == {}
<1>9. \A b \in New : b[1] \in Nat /\ fresh < b[1] /\ b[1] <= fresh' /\ Old(b[2])'  OBVIOUS
<1>10. \A b, c \in New : b[1] = c[1] => b[2] = c[2]  OBVIOUS
<1>11. PeopleMean' \subseteq Means \cup New /\ FacesMean' \subseteq Means \cup New /\ CoversMean' \subseteq Means \cup New
    BY <1>1, <1>3, PartsMean
<1> HIDE DEF New
<1> QED  BY <1>1, <1>6, <1>8, <1>9, <1>10, <1>11, CoverComposes

\* A step after which there are no more faces than before.
LEMMA PhotosStep ==
    ASSUME KeysInv, UNCHANGED <<people, form, bulk, checks, adds, queue, capture, fresh>>,
           doubts \subseteq doubts', faces' \subseteq [member : Keys, of : Keys], FacesMean' \subseteq Means,
           Fields(photos', PhotosFields), photos'.found \subseteq photos.found,
           photos'.files = photos.files \/ (photos'.found = {} /\ photos'.files \in Seq(Keys)),
           ~photos'.open => photos'.found = {}, form.open => ~photos'.open,
           \/ \A r \in shots' : ~Detecting(r)
           \/ photos'.open = photos.open /\ photos'.detecting = photos.detecting /\ photos'.files = photos.files,
           \A r \in shots' : ShotGood(r)
    PROVE  KeysInv'
PROOF
<1>1. fresh \in Nat  BY FormParts
<1>2. FilesKnown'
  <2>1. \A f \in photos'.found :
            /\ f \in FaceType /\ Old(f.of)'
            /\ f.file \in DOMAIN photos'.files /\ photos'.files[f.file] = f.of
    BY <1>1, PhotosAre, StaysOld
  <2>2. photos'.files \in Seq(Keys)  BY PhotosAre
  <2>3. \A q \in shots' : Detecting(q) =>
           photos'.open /\ photos'.detecting /\ q.file \in DOMAIN photos'.files /\ photos'.files[q.file] = q.of
    BY PhotosAre DEF ShotGood
  <2>4. \A q, r \in shots' : Detecting(q) /\ Detecting(r) => q = r  BY PhotosAre DEF ShotGood
  <2> QED  BY <2>1, <2>2, <2>3, <2>4, SoundAnyTime DEF FilesKnown, PhotosFields, Fields
<1>3. PhotosMean' \subseteq Means  BY PhotosAre, OfFacesIs DEF PhotosMean, OfFaces
<1>4. NewFaces' \subseteq NewFaces  BY DEF NewFaces
<1>5. ShotsSound'  BY <1>1, ShotStaysSound DEF ShotsSound, ShotGood
<1>6. ShotsMean' \subseteq Means  BY SoundAnyTime DEF ShotsMean, ShotGood
<1>7. OneDialog'  BY DEF OneDialog
<1>8. Certain' => OneKey'
  <2>1. Added' \subseteq Added  BY Same DEF Added
  <2>2. \A q \in shots' : Detecting(q) => q \in shots  BY DEF ShotGood
  <2> QED  BY <1>4, <2>1, <2>2, OneKeyShrinks, CertainStays DEF KeysInv
<1>9. \A r \in shots' : r.kind = "queue" /\ r.latest => queue.open /\ DOMAIN r.status = DOMAIN queue.members
    BY DEF ShotGood
<1> QED  BY <1>1, <1>2, <1>3, <1>5, <1>6, <1>7, <1>8, <1>9, PhotosCompose

LEMMA FacesStay ==
    ASSUME KeysInv, UNCHANGED faces
    PROVE  faces' \subseteq [member : Keys, of : Keys] /\ FacesMean' \subseteq Means
PROOF BY Same, PartsMean DEF KeysInv, PeopleKnown

LEMMA OpenPhotosStep == ASSUME KeysInv, NEW members, OpenPhotos(members) PROVE KeysInv'
PROOF
<1>1. /\ ~form.open /\ ~photos.open /\ photos' = [NoPhotos EXCEPT !.open = TRUE, !.among = members]
      /\ UNCHANGED <<queue, capture, shots, fresh, people, form, bulk, checks, adds, faces, doubts>>
    BY DEF OpenPhotos, ListShown, Uncovered, Covering
<1>2. Fields(photos', PhotosFields) /\ photos'.found = {} /\ photos'.files = <<>>
    BY <1>1 DEF NoPhotos, Fields, PhotosFields
<1>3. <<>> \in Seq(Keys)  OBVIOUS
<1>4. \A r \in shots' : ~Detecting(r)  BY <1>1, PhotosAre
<1>5. \A r \in shots' : ShotGood(r)  BY <1>1, ShotsGood
<1> QED  BY <1>1, <1>2, <1>3, <1>4, <1>5, FacesStay, PhotosStep

LEMMA ClosePhotosStep == ASSUME KeysInv, ClosePhotos PROVE KeysInv'
PROOF
<1>1. /\ photos' = NoPhotos /\ shots' = Superseded(shots)
      /\ UNCHANGED <<queue, capture, fresh, people, form, bulk, checks, adds, faces, doubts>>
    BY DEF ClosePhotos, Covering
<1>2. Fields(photos', PhotosFields) /\ photos'.found = {} /\ photos'.files = <<>> /\ ~photos'.open
    BY <1>1 DEF NoPhotos, Fields, PhotosFields
<1>3. <<>> \in Seq(Keys)  OBVIOUS
<1>4. \A r \in shots' : ShotGood(r) /\ ~Detecting(r)  BY <1>1, SupersededShots DEF Detecting
<1> QED  BY <1>1, <1>2, <1>3, <1>4, FacesStay, PhotosStep

LEMMA ClearFilesStep == ASSUME KeysInv, ClearFiles PROVE KeysInv'
PROOF
<1>1. /\ ~photos.detecting /\ photos.open /\ photos' = [photos EXCEPT !.files = <<>>, !.found = {}]
      /\ UNCHANGED <<queue, capture, shots, fresh, people, form, bulk, checks, adds, faces, doubts>>
    BY DEF ClearFiles, Covering
<1>2. Fields(photos', PhotosFields) /\ photos'.found = {} /\ photos'.files = <<>> /\ photos'.open = photos.open
    BY <1>1, PhotosAre DEF Fields, PhotosFields
<1>3. <<>> \in Seq(Keys)  OBVIOUS
<1>4. \A r \in shots' : ~Detecting(r)  BY <1>1, PhotosAre
<1>5. \A r \in shots' : ShotGood(r)  BY <1>1, ShotsGood
<1> QED  BY <1>1, <1>2, <1>3, <1>4, <1>5, PhotosAre, FacesStay, PhotosStep

LEMMA HandleBulkEnrollStep == ASSUME KeysInv, HandleBulkEnroll PROVE KeysInv'
PROOF
<1> DEFINE ready == {f \in photos.found : f.member # None \/ f.new}
           r == [kind |-> "photos", at |-> "create", latest |-> TRUE, group |-> selected, faces |-> ready,
                 tried |-> {}, files |-> photos.files, created |-> {}, got |-> None]
<1>1. /\ photos' = [photos EXCEPT !.enrolling = TRUE] /\ shots' = shots \cup {r}
      /\ UNCHANGED <<queue, capture, fresh, people, form, bulk, checks, adds, faces, doubts>>
    BY DEF HandleBulkEnroll, Covering, Ask
<1>2. /\ Fields(photos', PhotosFields) /\ photos'.found = photos.found /\ photos'.files = photos.files
      /\ photos'.open = photos.open /\ photos'.detecting = photos.detecting
    BY <1>1, PhotosAre DEF Fields, PhotosFields
<1>3. ready \subseteq photos.found  OBVIOUS
<1> HIDE DEF ready
<1>4. ShotGood(r)
  <2>1. ShotSound(r)  BY <1>3, PhotosAre DEF ShotSound, Fields
  <2>2. ShotMeans(r) = OfFaces(ready)  BY DEF ShotMeans
  <2>3. ShotMeans(r) \subseteq Means  BY <1>3, <2>2, PhotosAre, OfFacesIs
  <2> QED  BY <2>1, <2>3 DEF ShotGood, Detecting
<1> HIDE DEF r
<1>5. \A q \in shots' : ShotGood(q)  BY <1>1, <1>4, ShotsGood
<1> QED  BY <1>1, <1>2, <1>5, PhotosAre, FacesStay, PhotosStep

\* The answers that change nothing of the photos but flags.
LEMMA FlagsStep ==
    ASSUME KeysInv, UNCHANGED <<people, form, bulk, checks, adds, queue, capture, fresh>>,
           doubts \subseteq doubts', faces' \subseteq [member : Keys, of : Keys], FacesMean' \subseteq Means,
           Fields(photos', PhotosFields), photos'.found = photos.found, photos'.files = photos.files,
           photos'.open = photos.open, photos'.detecting = photos.detecting,
           \A r \in shots' : ShotGood(r)
    PROVE  KeysInv'
PROOF
<1>1. photos'.found \subseteq photos.found /\ (~photos'.open => photos'.found = {}) /\ (form.open => ~photos'.open)
    BY PhotosAre
<1> QED  BY <1>1, PhotosStep

LEMMA PrepareFacesStep == ASSUME KeysInv, NEW q \in shots, PrepareFaces(q) PROVE KeysInv'
PROOF
<1>1. /\ q.kind = "photos" /\ UNCHANGED <<queue, capture, fresh, people, form, bulk, checks, adds, faces, doubts>>
    BY DEF PrepareFaces, Covering
<1>2. \A r \in shots' : r \in shots \/ r = [q EXCEPT !.at = "enroll"]  BY DEF PrepareFaces, Replied
<1>3. \A r \in shots' : ShotGood(r)  BY <1>1, <1>2, ShotsGood, ShotChanges
<1>4. photos' = photos \/ photos' = [photos EXCEPT !.enrolling = FALSE]  BY DEF PrepareFaces
<1>5. /\ Fields(photos', PhotosFields) /\ photos'.found = photos.found /\ photos'.files = photos.files
      /\ photos'.open = photos.open /\ photos'.detecting = photos.detecting
    BY <1>4, PhotosAre DEF Fields, PhotosFields
<1> QED  BY <1>1, <1>3, <1>5, FacesStay, FlagsStep

LEMMA PhotosEnrolledStep == ASSUME KeysInv, NEW q \in shots, PhotosEnrolled(q) PROVE KeysInv'
PROOF
<1>1. /\ UNCHANGED <<queue, capture, fresh, people, form, bulk, checks, adds, faces>> /\ doubts \subseteq doubts'
      /\ shots' \subseteq shots
    BY DEF PhotosEnrolled, Replied
<1>2. \A r \in shots' : ShotGood(r)  BY <1>1, ShotsGood
<1>3. photos' = photos \/ photos' = [photos EXCEPT !.enrolling = FALSE, !.results = @ \/ q.got # "failed"]
    BY DEF PhotosEnrolled
<1> DEFINE d == photos.results \/ q.got # "failed"
<1>4. photos' = photos \/ photos' = [photos EXCEPT !.enrolling = FALSE, !.results = d]
    BY <1>3
<1> HIDE DEF d
<1>5. /\ Fields(photos', PhotosFields) /\ photos'.found = photos.found /\ photos'.files = photos.files
      /\ photos'.open = photos.open /\ photos'.detecting = photos.detecting
    BY <1>4, PhotosAre DEF Fields, PhotosFields
<1> QED  BY <1>1, <1>2, <1>5, FacesStay, FlagsStep

\* The faces of photos are stored for the members they were found for.
LEMMA ServePhotosStep == ASSUME KeysInv, NEW q \in shots, ServePhotos(q) PROVE KeysInv'
PROOF
<1> DEFINE sent == {f \in q.faces : \E p \in people : p.id = f.member /\ p.group = q.group}
           stored == {f \in faces : \A g \in sent : g.member # f.member}
                        \cup {[member |-> g.member, of |-> q.files[g.file]] : g \in sent}
<1>1. /\ q.kind = "photos" /\ faces' \in {faces, stored}
      /\ UNCHANGED <<people, form, bulk, checks, adds, fresh, doubts, queue, capture, photos>>
      /\ \A r \in shots' : r \in shots \/ \E x : r = [q EXCEPT !.got = x]
    BY DEF ServePhotos, Got, Trouble
<1>2. ASSUME NEW r \in shots' PROVE ShotGood(r)
  <2>1. CASE r \in shots  BY <2>1, ShotsGood
  <2>2. CASE \E x : r = [q EXCEPT !.got = x]
    <3>1. PICK x : r = [q EXCEPT !.got = x]  BY <2>2
    <3> QED  BY <1>1, <3>1, ShotChanges
  <2> QED  BY <1>1, <2>1, <2>2
<1>3. ASSUME NEW g \in sent
      PROVE  q.files[g.file] = g.of /\ g.member \in Keys /\ g.of \in Keys /\ <<g.member, g.of>> \in Means
  <2>1. ShotGood(q) /\ g \in q.faces  BY ShotsGood
  <2>2. g \in FaceType /\ q.files[g.file] = g.of  BY <1>1, <2>1 DEF ShotGood, ShotSound
  <2>3. \E p \in people : p.id = g.member  OBVIOUS
  <2>4. g.member \in Keys  BY <2>3 DEF KeysInv, PeopleKnown, PersonType
  <2>5. g.member # None  BY <2>4, EnrollmentAssumption DEF Keys
  <2>6. <<g.member, g.of>> \in ShotMeans(q)  BY <1>1, <2>1, <2>5, OfFacesIs DEF ShotMeans
  <2>7. g.of \in Keys  BY <2>2 DEF FaceType
  <2> QED  BY <2>1, <2>2, <2>4, <2>6, <2>7 DEF ShotGood
<1>4. ASSUME NEW f \in faces' PROVE f \in [member : Keys, of : Keys] /\ <<f.member, f.of>> \in Means
  <2>1. CASE f \in faces  BY <2>1, PartsMean DEF FacesMean, KeysInv, PeopleKnown
  <2>2. CASE \E g \in sent : f = [member |-> g.member, of |-> q.files[g.file]]
    <3>1. PICK g \in sent : f = [member |-> g.member, of |-> q.files[g.file]]  BY <2>2
    <3>2. f.member = g.member /\ f.of = g.of  BY <1>3, <3>1
    <3> QED  BY <1>3, <3>1, <3>2
  <2>3. f \in faces \/ f \in stored  BY <1>1
  <2> QED  BY <2>1, <2>2, <2>3
<1>5. faces' \subseteq [member : Keys, of : Keys]  BY <1>4
<1>6. FacesMean' \subseteq Means  BY <1>4 DEF FacesMean
<1>7. \A r \in shots' : ShotGood(r)  BY <1>2
<1> QED  BY <1>1, <1>5, <1>6, <1>7, PhotosAre, FlagsStep DEF PhotosFields

\* A photo is of a member or of somebody new.
LEMMA PickFileStep ==
    ASSUME KeysInv, NEW person, person \in {p.intent : p \in people} \/ person = fresh + 1, PickFile(person)
    PROVE  KeysInv'
PROOF
<1>1. /\ photos.open /\ ~photos.detecting
      /\ UNCHANGED <<people, form, bulk, checks, adds, queue, capture, faces, doubts>>
      /\ photos' = [photos EXCEPT !.files = Append(@, person), !.detecting = TRUE]
      /\ fresh' = IF person \in {p.intent : p \in people} THEN fresh ELSE fresh + 1
    BY DEF PickFile, Covering
<1>2. PICK r : r = [kind |-> "detect", latest |-> TRUE, of |-> person, file |-> Len(photos.files) + 1, got |-> None]
    OBVIOUS
<1>3. shots' = shots \cup {r}  BY <1>2 DEF PickFile, Ask, StartIndex
<1>4. fresh \in Nat  BY FormParts
<1>5. fresh' \in Nat /\ fresh <= fresh' /\ person \in Keys /\ Old(person)'
  <2>1. CASE person \in {p.intent : p \in people}
    <3>1. PICK p \in people : person = p.intent  BY <2>1
    <3>2. <<p.id, p.intent>> \in Means  BY PartsMean DEF PeopleMean
    <3>3. Old(<<p.id, p.intent>>[2])  BY <3>2 DEF KeysInv, MeansOld
    <3> QED  BY <1>1, <1>4, <2>1, <3>1, <3>3 DEF Old, Keys
  <2>2. CASE person \notin {p.intent : p \in people}
    <3>1. person = fresh + 1 /\ fresh' = fresh + 1  BY <1>1, <2>2
    <3> QED  BY <1>4, <3>1 DEF Old, Keys
  <2> QED  BY <2>1, <2>2
<1> DEFINE files == Append(photos.files, person)
<1>6. /\ files \in Seq(Keys) /\ Len(photos.files) + 1 \in DOMAIN files /\ files[Len(photos.files) + 1] = person
      /\ \A i \in DOMAIN photos.files : i \in DOMAIN files /\ files[i] = photos.files[i]
    BY <1>5, PhotosAre
<1> HIDE DEF files
<1>7. /\ Fields(photos', PhotosFields) /\ photos'.found = photos.found /\ photos'.files = files
      /\ photos'.open = photos.open /\ photos'.detecting = TRUE
    BY <1>1, PhotosAre DEF Fields, PhotosFields, files
<1>8. r.kind = "detect" /\ r.of = person /\ r.file = Len(photos.files) + 1 /\ Fields(r, {"kind", "latest", "of", "file"})
    BY <1>2 DEF Fields
<1>9. \A q \in shots' : Detecting(q) => q = r  BY <1>1, <1>3, PhotosAre
<1>10. FilesKnown'
  <2>1. \A f \in photos'.found :
            /\ f \in FaceType /\ Old(f.of)'
            /\ f.file \in DOMAIN photos'.files /\ photos'.files[f.file] = f.of
    BY <1>4, <1>5, <1>6, <1>7, PhotosAre, StaysOld
  <2>2. photos'.files \in Seq(Keys)  BY <1>6, <1>7
  <2>3. \A q \in shots' : Detecting(q) =>
           photos'.open /\ photos'.detecting /\ q.file \in DOMAIN photos'.files /\ photos'.files[q.file] = q.of
    BY <1>1, <1>6, <1>7, <1>8, <1>9
  <2>4. \A q, s \in shots' : Detecting(q) /\ Detecting(s) => q = s  BY <1>9
  <2> QED  BY <1>1, <1>7, <2>1, <2>2, <2>3, <2>4, SoundAnyTime DEF FilesKnown, PhotosFields, Fields
<1>11. ShotsSound'
  <2>1. ShotSound(r)'  BY <1>5, <1>8 DEF ShotSound, Fields, Old
  <2>2. \A q \in shots : ShotSound(q)'  BY <1>4, <1>5, ShotStaysSound, ShotsGood DEF ShotGood
  <2> QED  BY <1>3, <2>1, <2>2 DEF ShotsSound
<1>12. PhotosMean' \subseteq Means /\ NewFaces' = NewFaces  BY <1>7, PhotosAre, OfFacesIs DEF PhotosMean, NewFaces
<1>13. ShotsMean' \subseteq Means
  <2>1. ShotMeans(r) = {}  BY <1>8 DEF ShotMeans
  <2>2. \A q \in shots' : ShotMeans(q) \subseteq Means  BY <1>3, <2>1, ShotsGood DEF ShotGood
  <2> QED  BY <2>2, SoundAnyTime DEF ShotsMean
<1>14. OneDialog'  BY <1>1, <1>7, PhotosAre DEF OneDialog
<1>15. \A q \in shots' : q.kind = "queue" /\ q.latest => queue.open /\ DOMAIN q.status = DOMAIN queue.members
    BY <1>3, <1>8, ShotsGood DEF ShotGood
<1>16. ASSUME Certain' PROVE OneKey'
  <2>1. OneKey  BY <1>1, <1>16, CertainStays DEF KeysInv
  <2>2. Added' = Added  BY <1>1, Same DEF Added
  <2>3. ASSUME NEW f \in NewFaces PROVE f.of # person
    <3>1. CASE person \in {p.intent : p \in people}
      <4>1. PICK p \in people : person = p.intent  BY <3>1
      <4>2. <<p.id, p.intent>> \in Added  BY PartsMean DEF PeopleMean
      <4> QED  BY <2>1, <4>1, <4>2 DEF OneKey
    <3>2. CASE person = fresh + 1
      <4>1. Old(f.of)  BY PhotosAre DEF NewFaces
      <4>2. person \notin Members  BY <1>4, <3>2, EnrollmentAssumption
      <4> QED  BY <1>4, <3>2, <4>1, <4>2 DEF Old
    <3> QED  BY <3>1, <3>2
  <2> QED  BY <1>8, <1>9, <1>12, <2>1, <2>2, <2>3, SoundAnyTime DEF OneKey
<1> QED  BY <1>1, <1>5, <1>10, <1>11, <1>12, <1>13, <1>14, <1>15, <1>16, FacesStay, PhotosCompose

\* A face is another object: it keeps its person and its file.
LEMMA EditFaceStep == ASSUME KeysInv, NEW face \in photos.found, EditFace(face) PROVE KeysInv'
PROOF
<1>1. fresh \in Nat  BY FormParts
<1>2. PICK g : g = [face EXCEPT !.id = fresh + 1, !.new = ~@]  OBVIOUS
<1>3. /\ photos.open /\ face.member = None /\ photos' = [photos EXCEPT !.found = (@ \ {face}) \cup {g}]
      /\ fresh' = fresh + 1
      /\ UNCHANGED <<people, form, bulk, checks, adds, queue, capture, shots, faces, doubts>>
    BY <1>2 DEF EditFace, Covering
<1>4. g \in FaceType /\ g.of = face.of /\ g.file = face.file /\ g.member = None
  <2>1. face \in FaceType  BY PhotosAre
  <2> DEFINE v == ~face.new
  <2>2. v \in BOOLEAN /\ fresh + 1 \in Nat  BY <1>1, <2>1 DEF FaceType
  <2>3. g = [face EXCEPT !.id = fresh + 1, !.new = v]  BY <1>2, <2>1 DEF FaceType
  <2> HIDE DEF v
  <2> QED  BY <1>3, <2>1, <2>2, <2>3 DEF FaceType
<1>5. /\ Fields(photos', PhotosFields) /\ photos'.found = (photos.found \ {face}) \cup {g}
      /\ photos'.files = photos.files /\ photos'.open = photos.open /\ photos'.detecting = photos.detecting
    BY <1>3, PhotosAre DEF Fields, PhotosFields
<1>6. fresh' \in Nat /\ fresh <= fresh'  BY <1>1, <1>3
<1>7. FilesKnown'
  <2>1. \A f \in photos'.found :
            /\ f \in FaceType /\ Old(f.of)'
            /\ f.file \in DOMAIN photos'.files /\ photos'.files[f.file] = f.of
    <3>1. \A f \in photos.found :
              /\ f \in FaceType /\ Old(f.of)'
              /\ f.file \in DOMAIN photos.files /\ photos.files[f.file] = f.of
        BY <1>1, <1>6, PhotosAre, StaysOld
    <3>2. Old(g.of)' /\ g.file \in DOMAIN photos.files /\ photos.files[g.file] = g.of  BY <1>4, <3>1
    <3> QED  BY <1>4, <1>5, <3>1, <3>2
  <2> QED  BY <1>3, <1>5, <2>1, PhotosAre, SoundAnyTime DEF FilesKnown, PhotosFields, Fields
<1>8. ShotsSound'  BY <1>1, <1>3, <1>6, ShotsGood, ShotStaysSound DEF ShotsSound, ShotGood
<1>9. PhotosMean' \subseteq Means  BY <1>4, <1>5, PhotosAre, OfFacesIs DEF PhotosMean
<1>10. ShotsMean' \subseteq Means  BY <1>3, Same, PartsMean DEF CoversMean
<1>11. OneDialog'  BY <1>3, <1>5, PhotosAre DEF OneDialog
<1>12. \A r \in shots' : r.kind = "queue" /\ r.latest => queue.open /\ DOMAIN r.status = DOMAIN queue.members
    BY <1>3, ShotsGood DEF ShotGood
<1>13. ASSUME Certain' PROVE OneKey'
  <2>1. OneKey  BY <1>3, <1>13, CertainStays DEF KeysInv
  <2>2. Added' = Added  BY <1>3, Same DEF Added
  <2>3. face \in NewFaces /\ \A f \in NewFaces' : f = g \/ (f \in NewFaces /\ f # face)  BY <1>3, <1>5 DEF NewFaces
  <2>4. \A f \in NewFaces' : \A b \in Added : b[2] # f.of  BY <1>4, <2>1, <2>3 DEF OneKey
  <2>5. ASSUME NEW f \in NewFaces', NEW h \in NewFaces', f.of = h.of PROVE f = h
      BY <1>4, <2>1, <2>3, <2>5 DEF OneKey
  <2>6. \A q \in shots' : Detecting(q) => \A f \in NewFaces' : f.of # q.of  BY <1>3, <1>4, <2>1, <2>3 DEF OneKey
  <2> QED  BY <2>1, <2>2, <2>4, <2>5, <2>6, SoundAnyTime DEF OneKey
<1> QED  BY <1>3, <1>6, <1>7, <1>8, <1>9, <1>10, <1>11, <1>12, <1>13, FacesStay, PhotosCompose

\* A face that was found goes to the member it is of, or is somebody's who is not among the members.
LEMMA FacesDetectedStep == ASSUME KeysInv, NEW q \in shots, NEW found \in BOOLEAN, FacesDetected(q, found) PROVE KeysInv'
PROOF
<1>1. /\ q.kind = "detect" /\ shots' = shots \ {q} /\ fresh' = fresh + 1
      /\ UNCHANGED <<people, form, bulk, checks, adds, queue, capture, faces>>
    BY DEF FacesDetected, Replied
<1>2. PICK known \in {panel.shown \cap photos.among, panel.shown} :
         LET matched == {m \in known : \E p \in people : p.id = m /\ p.intent = q.of}
             face == [id |-> fresh + 1, of |-> q.of, file |-> q.file, new |-> matched = {},
                      member |-> IF matched = {} THEN None ELSE CHOOSE m \in matched : TRUE]
         IN  /\ photos' = IF ~q.latest THEN photos
                          ELSE [photos EXCEPT !.detecting = FALSE, !.found = IF found THEN @ \cup {face} ELSE @]
             /\ doubts' = IF \/ \E p \in people : p.intent = q.of /\ p.id \notin known
                             \/ \E a \in adds : a.kind # "face" /\ Awaited(a) /\ q.of \in Entries(a.rows)
                          THEN doubts \cup {"tokenless"} ELSE doubts
    BY DEF FacesDetected
<1> DEFINE matched == {m \in known : \E p \in people : p.id = m /\ p.intent = q.of}
<1>3. PICK m : m = IF matched = {} THEN None ELSE CHOOSE x \in matched : TRUE  OBVIOUS
<1>4. PICK face : face = [id |-> fresh + 1, of |-> q.of, file |-> q.file, new |-> matched = {}, member |-> m]  OBVIOUS
<1>5. photos' = IF ~q.latest THEN photos
                ELSE [photos EXCEPT !.detecting = FALSE, !.found = IF found THEN @ \cup {face} ELSE @]
    BY <1>2, <1>3, <1>4
<1>6. "tokenless" \notin doubts' =>
         /\ \A p \in people : p.intent = q.of => p.id \in known
         /\ \A a \in adds : a.kind # "face" /\ Awaited(a) => q.of \notin Entries(a.rows)
    BY <1>2
<1>7. doubts \subseteq doubts'  BY <1>2
<1>8. m # None => \E p \in people : p.id = m /\ p.intent = q.of  BY <1>3
<1>9. m = None => \A p \in people : p.intent = q.of => p.id \notin known
  <2> SUFFICES ASSUME m = None, NEW p \in people, p.intent = q.of, p.id \in known PROVE FALSE  OBVIOUS
  <2>1. p.id \in matched  OBVIOUS
  <2>2. m \in matched  BY <1>3, <2>1
  <2>3. \E s \in people : s.id = None  BY <2>2
  <2>4. None \in Keys  BY <2>3 DEF KeysInv, PeopleKnown, PersonType
  <2> QED  BY <2>4, EnrollmentAssumption DEF Keys
<1>10. fresh \in Nat  BY FormParts
<1>11. ShotGood(q) /\ q.of \in Keys /\ Old(q.of) /\ (q.latest => Detecting(q))
    BY <1>1, ShotsGood DEF ShotGood, ShotSound, Detecting
<1>12. q.latest => photos.open /\ q.file \in DOMAIN photos.files /\ photos.files[q.file] = q.of  BY <1>11, PhotosAre
<1>13. m # None => m \in Keys /\ <<m, q.of>> \in Means
  <2> SUFFICES ASSUME m # None PROVE m \in Keys /\ <<m, q.of>> \in Means  OBVIOUS
  <2>1. PICK p \in people : p.id = m /\ p.intent = q.of  BY <1>8
  <2>2. <<p.id, p.intent>> \in Means  BY PartsMean DEF PeopleMean
  <2> QED  BY <2>1, <2>2 DEF KeysInv, PeopleKnown, PersonType
<1>14. face.id = fresh + 1 /\ face.of = q.of /\ face.file = q.file /\ face.member = m  BY <1>4
<1>15. q.latest => face \in FaceType
  <2>1. (matched = {}) \in BOOLEAN  OBVIOUS
  <2>2. q.latest => q.file \in Nat  BY <1>12, PhotosAre
  <2>3. fresh + 1 \in Nat /\ m \in Keys \cup {None}  BY <1>10, <1>13
  <2> HIDE DEF matched
  <2> QED  BY <1>4, <1>11, <2>1, <2>2, <2>3 DEF FaceType
<1> HIDE DEF matched
<1>16. /\ Fields(photos', PhotosFields) /\ photos'.files = photos.files /\ photos'.open = photos.open
       /\ photos'.found \subseteq photos.found \cup {face}
       /\ ~q.latest => photos' = photos
    BY <1>5, PhotosAre DEF Fields, PhotosFields
<1>17. fresh' \in Nat /\ fresh <= fresh'  BY <1>1, <1>10
<1>18. q.latest => \A r \in shots' : ~Detecting(r)  BY <1>1, <1>11, PhotosAre
<1>19. FilesKnown'
  <2>1. \A f \in photos.found :
            /\ f \in FaceType /\ Old(f.of)'
            /\ f.file \in DOMAIN photos.files /\ photos.files[f.file] = f.of
      BY <1>10, <1>17, PhotosAre, StaysOld
  <2>2. q.latest => Old(face.of)' /\ face.file \in DOMAIN photos.files /\ photos.files[face.file] = face.of
      BY <1>10, <1>11, <1>12, <1>14, <1>17, StaysOld
  <2>3. \A f \in photos'.found :
            /\ f \in FaceType /\ Old(f.of)'
            /\ f.file \in DOMAIN photos'.files /\ photos'.files[f.file] = f.of
      BY <1>15, <1>16, <2>1, <2>2
  <2>4. \A r \in shots' : Detecting(r) =>
           photos'.open /\ photos'.detecting /\ r.file \in DOMAIN photos'.files /\ photos'.files[r.file] = r.of
      BY <1>1, <1>16, <1>18, PhotosAre
  <2>5. \A r, s \in shots' : Detecting(r) /\ Detecting(s) => r = s  BY <1>1, PhotosAre
  <2>6. ~photos'.open => photos'.found = {}
    <3>1. ~photos.open => ~q.latest /\ photos.found = {}  BY <1>12, PhotosAre
    <3> QED  BY <1>16, <3>1
  <2>7. photos'.files \in Seq(Keys)  BY <1>16, PhotosAre
  <2> QED  BY <1>16, <2>3, <2>4, <2>5, <2>6, <2>7, SoundAnyTime DEF FilesKnown, PhotosFields, Fields
<1>20. ShotsSound'  BY <1>1, <1>10, <1>17, ShotsGood, ShotStaysSound DEF ShotsSound, ShotGood
<1>21. PhotosMean' \subseteq Means
  <2> SUFFICES ASSUME NEW b \in OfFaces(photos'.found) PROVE b \in Means  BY DEF PhotosMean, OfFaces
  <2>1. PICK f \in photos'.found : f.member # None /\ b = <<f.member, f.of>>  BY OfFacesIs
  <2>2. CASE f \in photos.found  BY <2>1, <2>2, PhotosAre, OfFacesIs
  <2>3. CASE f = face  BY <1>13, <1>14, <2>1, <2>3
  <2> QED  BY <1>16, <2>2, <2>3
<1>22. ShotsMean' \subseteq Means
  <2>1. \A r \in shots' : ShotMeans(r) \subseteq Means  BY <1>1, ShotsGood DEF ShotGood
  <2> QED  BY <2>1, SoundAnyTime DEF ShotsMean
<1>23. OneDialog'  BY <1>1, <1>16, PhotosAre DEF OneDialog
<1>24. \A r \in shots' : r.kind = "queue" /\ r.latest => queue.open /\ DOMAIN r.status = DOMAIN queue.members
    BY <1>1, ShotsGood DEF ShotGood
<1>25. ASSUME Certain' PROVE OneKey'
  <2>1. OneKey  BY <1>7, <1>25, CertainStays DEF KeysInv
  <2>2. Added' = Added  BY <1>1, Same DEF Added
  <2>3. CASE ~q.latest
    <3>1. NewFaces' = NewFaces  BY <1>16, <2>3, Same
    <3> QED  BY <1>1, <2>1, <2>2, <3>1, OneKeyShrinks
  <2>4. CASE q.latest /\ m # None
    <3>1. NewFaces' \subseteq NewFaces  BY <1>14, <1>16, <2>4 DEF NewFaces
    <3> QED  BY <1>1, <2>1, <2>2, <3>1, OneKeyShrinks
  <2>5. CASE q.latest /\ m = None
    <3>1. NewFaces' \subseteq NewFaces \cup {face}  BY <1>14, <1>16 DEF NewFaces
    <3>2. \A f \in NewFaces : f.of # face.of  BY <1>11, <1>14, <2>1, <2>5 DEF OneKey
    <3>3. "tokenless" \notin doubts'  BY <1>25 DEF Certain
    <3>4. \A b \in PeopleMean : b[2] # q.of  BY <1>6, <1>9, <2>5, <3>3 DEF PeopleMean
    <3>5. ~form.open  BY <1>12, <2>5, PhotosAre
    <3>6. ASSUME NEW b \in FormsAdd PROVE b[2] # q.of
      <4>1. PICK a \in adds : Creating(a) /\ b \in Meant(a.rows)  BY <3>5, FormClosed, FormsMeanIs
      <4>2. a.kind # "face" /\ Awaited(a)  BY <3>5, <4>1, FormClosed DEF Creating
      <4>3. q.of \notin Entries(a.rows)  BY <1>6, <3>3, <4>2
      <4> QED  BY <4>1, <4>3, MeantIs
    <3>7. \A b \in Added : b[2] # q.of  BY <3>4, <3>6 DEF Added
    <3>8. \A f \in NewFaces' : \A b \in Added : b[2] # f.of  BY <1>14, <2>1, <3>1, <3>7 DEF OneKey
    <3>9. \A f, g \in NewFaces' : f.of = g.of => f = g  BY <2>1, <3>1, <3>2 DEF OneKey
    <3> QED  BY <1>18, <2>1, <2>2, <2>5, <3>8, <3>9, SoundAnyTime DEF OneKey
  <2> QED  BY <2>3, <2>4, <2>5
<1> QED  BY <1>1, <1>7, <1>17, <1>19, <1>20, <1>21, <1>22, <1>23, <1>24, <1>25, FacesStay, PhotosCompose

\* What a creation for a face may change: there is another member, and its face has its key.
Given(face) == [face EXCEPT !.member = fresh + 1]
CreatedFor(q, face) == [id |-> fresh + 1, group |-> q.group, intent |-> face.of, name |-> 0]
WithFace(q, face) == [q EXCEPT !.faces = (@ \ {face}) \cup {Given(face)}, !.created = @ \cup {fresh + 1}]
Tried(q, face) == [q EXCEPT !.tried = @ \cup {face.id}]
FaceGiven(face) == face \in photos.found /\ photos' = [photos EXCEPT !.found = (@ \ {face}) \cup {Given(face)}]

LEMMA CreateForFaceIs ==
    ASSUME NEW q, NEW face, CreateForFace(q, face)
    PROVE  /\ people' = people \/ (people' = people \cup {CreatedFor(q, face)} /\ q.group \in groups)
           /\ \E r \in {Tried(q, face), WithFace(q, face)} : shots' = (shots \ {q}) \cup {r}
           /\ photos' = photos \/ FaceGiven(face)
           /\ doubts \subseteq doubts'
           /\ "tokenless" \notin doubts' => (people' = people /\ photos' = photos) \/ FaceGiven(face)
PROOF
<1>1. \/ /\ q.group \in groups
         /\ people' = people \cup {CreatedFor(q, face)}
         /\ shots' = (shots \ {q}) \cup {WithFace(q, face)}
         /\ photos' = IF face \in photos.found
                      THEN [photos EXCEPT !.found = (@ \ {face}) \cup {Given(face)}] ELSE photos
         /\ doubts' = IF q.latest /\ face \in photos.found THEN doubts ELSE doubts \cup {"tokenless"}
      \/ /\ \/ UNCHANGED <<people, doubts>>
            \/ /\ q.group \in groups /\ people' = people \cup {CreatedFor(q, face)}
               /\ doubts' = doubts \cup {"tokenless", "unseen"}
         /\ shots' = (shots \ {q}) \cup {Tried(q, face)}
         /\ UNCHANGED photos
    BY DEF CreateForFace, Given, CreatedFor, WithFace, Tried
<1>2. (face \in photos.found /\ photos' = [photos EXCEPT !.found = (@ \ {face}) \cup {Given(face)}]) <=> FaceGiven(face)
    BY DEF FaceGiven
<1> QED  BY <1>1, <1>2

\* The face of a new member is that member's.
LEMMA GivenIs ==
    ASSUME fresh \in Nat, NEW face \in FaceType
    PROVE  /\ Given(face) \in FaceType /\ Given(face).of = face.of /\ Given(face).file = face.file
           /\ Given(face).member = fresh + 1 /\ Given(face).member # None
PROOF
<1>1. fresh + 1 \in Nat /\ fresh + 1 # None  BY EnrollmentAssumption
<1> DEFINE k == fresh + 1
<1>2. k \in Keys /\ k # None  BY <1>1 DEF Keys
<1>3. Given(face) = [face EXCEPT !.member = k]  BY DEF Given
<1> HIDE DEF k
<1>4. /\ Given(face) \in FaceType /\ Given(face).of = face.of /\ Given(face).file = face.file
      /\ Given(face).member = k
    BY <1>2, <1>3 DEF FaceType
<1> QED  BY <1>2, <1>4 DEF k

\* The request goes on: its faces are the ones it had, one of them given to the new member.
LEMMA CreatingStays ==
    ASSUME KeysInv, NEW q \in shots, q.kind = "photos", NEW face \in q.faces, face.member = None,
           NEW r \in {Tried(q, face), WithFace(q, face)}, fresh' = fresh + 1
    PROVE  /\ r.kind = "photos" /\ ~Detecting(r) /\ ShotSound(r)'
           /\ ShotMeans(r) \subseteq Means \cup {<<fresh + 1, face.of>>}
PROOF
<1>1. /\ Fields(q, {"kind", "latest", "at", "faces", "tried", "files", "created", "got"})
      /\ \A f \in q.faces : f \in FaceType /\ q.files[f.file] = f.of /\ Old(f.of)
      /\ ShotMeans(q) \subseteq Means
    BY ShotsGood DEF ShotGood, ShotSound, Fields
<1>2. fresh \in Nat /\ fresh' \in Nat /\ fresh <= fresh'  BY FormParts
<1> DEFINE g == Given(face)
<1>3. g \in FaceType /\ g.of = face.of /\ g.file = face.file /\ g.member = fresh + 1 /\ g.member # None
    BY <1>1, <1>2, GivenIs
<1>4. \/ r = [q EXCEPT !.tried = @ \cup {face.id}]
      \/ r = [q EXCEPT !.faces = (@ \ {face}) \cup {g}, !.created = @ \cup {fresh + 1}]
    BY DEF Tried, WithFace
<1> HIDE DEF g
<1>5. DOMAIN r = DOMAIN q  BY <1>4
<1>6. r.kind = "photos" /\ r.files = q.files  BY <1>1, <1>4 DEF Fields
<1>7. r.faces = q.faces \/ r.faces = (q.faces \ {face}) \cup {g}  BY <1>1, <1>4 DEF Fields
<1>8. \A f \in r.faces : f \in q.faces \/ f = g  BY <1>7
<1>9. \A f \in r.faces : f \in FaceType /\ q.files[f.file] = f.of /\ Old(f.of)  BY <1>1, <1>3, <1>8
<1>10. \A f \in r.faces : Old(f.of)'  BY <1>2, <1>9, StaysOld
<1>11. Fields(r, {"kind", "latest", "at", "faces", "tried", "files", "created", "got"})  BY <1>1, <1>5 DEF Fields
<1>12. ShotSound(r)'  BY <1>6, <1>9, <1>10, <1>11 DEF ShotSound, Fields
<1>13. ASSUME NEW b \in OfFaces(r.faces) PROVE b \in Means \/ b = <<fresh + 1, face.of>>
  <2>1. PICK f \in r.faces : f.member # None /\ b = <<f.member, f.of>>  BY OfFacesIs
  <2>2. CASE f \in q.faces
    <3>1. b \in OfFaces(q.faces)  BY <2>1, <2>2, OfFacesIs
    <3>2. b \in ShotMeans(q)  BY <3>1 DEF ShotMeans
    <3> QED  BY <1>1, <3>2
  <2>3. CASE f = g  BY <1>3, <2>1, <2>3
  <2> QED  BY <1>8, <2>2, <2>3
<1>14. ShotMeans(r) = OfFaces(r.faces)  BY <1>6 DEF ShotMeans
<1> QED  BY <1>6, <1>12, <1>13, <1>14 DEF Detecting

\* A member is created for a face, once.
LEMMA CreateForFaceStep ==
    ASSUME KeysInv, NEW q \in shots, NEW face \in q.faces, CreateForFace(q, face), groups \subseteq Groups
    PROVE  KeysInv'
PROOF
<1>1. /\ q.kind = "photos" /\ face.member = None /\ fresh' = fresh + 1
      /\ UNCHANGED <<form, bulk, checks, adds, faces, queue, capture>>
    BY DEF CreateForFace
<1>2. /\ people' = people \/ (people' = people \cup {CreatedFor(q, face)} /\ q.group \in groups)
      /\ \E r \in {Tried(q, face), WithFace(q, face)} : shots' = (shots \ {q}) \cup {r}
      /\ photos' = photos \/ FaceGiven(face)
      /\ doubts \subseteq doubts'
      /\ "tokenless" \notin doubts' => (people' = people /\ photos' = photos) \/ FaceGiven(face)
    BY CreateForFaceIs
<1>3. PICK r \in {Tried(q, face), WithFace(q, face)} : shots' = (shots \ {q}) \cup {r}  BY <1>2
<1>4. fresh \in Nat /\ fresh' \in Nat /\ fresh <= fresh'  BY <1>1, FormParts
<1>5. ShotGood(q) /\ ShotSound(q)  BY ShotsGood DEF ShotGood
<1>6. face \in FaceType /\ Old(face.of) /\ face.of \in Keys  BY <1>1, <1>5 DEF ShotSound, FaceType
<1>7. PICK g : g = Given(face)  OBVIOUS
<1>8. g \in FaceType /\ g.of = face.of /\ g.file = face.file /\ g.member = fresh + 1 /\ g.member # None
    BY <1>4, <1>6, <1>7, GivenIs
<1>9. PICK p : p = CreatedFor(q, face)  OBVIOUS
<1>10. /\ p.id = fresh + 1 /\ p.intent = face.of /\ p.group = q.group /\ p.name = 0
       /\ p = [id |-> p.id, group |-> p.group, intent |-> p.intent, name |-> p.name]
    BY <1>9 DEF CreatedFor
<1>11. r.kind = "photos" /\ ~Detecting(r) /\ ShotSound(r)' /\ ShotMeans(r) \subseteq Means \cup {<<fresh + 1, face.of>>}
    BY <1>1, <1>3, CreatingStays
<1> DEFINE New == {<<fresh + 1, face.of>>}
<1>12. people \subseteq people' /\ \A x \in people' : x \in people \/ (x = p /\ q.group \in groups)  BY <1>2, <1>9
<1>13. FaceGiven(face) => face \in photos.found /\ photos' = [photos EXCEPT !.found = (@ \ {face}) \cup {g}]
    BY <1>7 DEF FaceGiven
<1>14. /\ Fields(photos', PhotosFields) /\ photos'.files = photos.files /\ photos'.open = photos.open
       /\ photos'.detecting = photos.detecting
       /\ FaceGiven(face) => photos'.found = (photos.found \ {face}) \cup {g}
    BY <1>2, <1>13, PhotosAre DEF Fields, PhotosFields
<1>15. \A f \in photos'.found : f \in photos.found \/ (f = g /\ face \in photos.found)  BY <1>2, <1>13, <1>14
<1>16. \A s \in shots' : s \in shots \/ s = r  BY <1>3
<1>17. \A s \in shots' : Detecting(s) => s \in shots  BY <1>11, <1>16
<1>18. PeopleKnown'
  <2>1. p.id \in Keys /\ p.intent \in Keys /\ (q.group \in groups => p.group \in NoGroupOr) /\ p.name \in NameType
    <3>1. fresh + 1 \in Keys  BY <1>4 DEF Keys
    <3> QED  BY <1>6, <1>10, <3>1 DEF NoGroupOr, NameType
  <2>2. q.group \in groups => p \in PersonType  BY <1>10, <2>1 DEF PersonType
  <2>3. people' \subseteq PersonType  BY <1>12, <2>2 DEF KeysInv, PeopleKnown
  <2>4. ASSUME NEW x \in people PROVE x.id # p.id
    <3>1. <<x.id, x.intent>> \in Means  BY PartsMean DEF PeopleMean
    <3>2. Old(<<x.id, x.intent>>[1])  BY <3>1 DEF KeysInv, MeansOld
    <3>3. fresh + 1 \notin Members  BY <1>4, EnrollmentAssumption
    <3> QED  BY <1>4, <1>10, <3>2, <3>3 DEF Old
  <2>5. "removed" \notin doubts' => \A x, y \in people' : x.id = y.id => x = y
      BY <1>2, <1>12, <2>4 DEF KeysInv, PeopleKnown
  <2> QED  BY <1>1, <2>3, <2>5 DEF KeysInv, PeopleKnown
<1>19. PeopleMean' \subseteq PeopleMean \cup New  BY <1>10, <1>12 DEF PeopleMean
<1>20. FacesMean' \subseteq Means  BY <1>1, FacesStay
<1>21. CoversMean' \subseteq Means \cup New
  <2>1. QueueMeans' \subseteq Means /\ CaptureMeans' \subseteq Means  BY <1>1, Same, PartsMean DEF CoversMean
  <2>2. ASSUME NEW b \in OfFaces(photos'.found) PROVE b \in Means \cup New
    <3>1. PICK f \in photos'.found : f.member # None /\ b = <<f.member, f.of>>  BY OfFacesIs
    <3>2. CASE f \in photos.found  BY <3>1, <3>2, PhotosAre, OfFacesIs
    <3>3. CASE f = g  BY <1>8, <3>1, <3>3
    <3> QED  BY <1>15, <3>2, <3>3
  <2>3. PhotosMean' \subseteq Means \cup New  BY <2>2 DEF PhotosMean, OfFaces
  <2>4. \A s \in shots' : ShotMeans(s) \subseteq Means \cup New  BY <1>11, <1>16, ShotsGood DEF ShotGood
  <2>5. ShotsMean' \subseteq Means \cup New
    <3> HIDE DEF New
    <3> QED  BY <2>4, SoundAnyTime DEF ShotsMean
  <2> QED  BY <2>1, <2>3, <2>5 DEF CoversMean
<1>22. CoverSide'
  <2>1. FilesKnown'
    <3>1. \A f \in photos.found :
              /\ f \in FaceType /\ Old(f.of)'
              /\ f.file \in DOMAIN photos.files /\ photos.files[f.file] = f.of
        BY <1>4, PhotosAre, StaysOld
    <3>2. face \in photos.found => Old(g.of)' /\ g.file \in DOMAIN photos.files /\ photos.files[g.file] = g.of
        BY <1>8, <3>1
    <3>3. \A f \in photos'.found :
              /\ f \in FaceType /\ Old(f.of)'
              /\ f.file \in DOMAIN photos'.files /\ photos'.files[f.file] = f.of
        BY <1>8, <1>14, <1>15, <3>1, <3>2
    <3>4. \A s \in shots' : Detecting(s) =>
             photos'.open /\ photos'.detecting /\ s.file \in DOMAIN photos'.files /\ photos'.files[s.file] = s.of
        BY <1>14, <1>17, PhotosAre
    <3>5. \A s, t \in shots' : Detecting(s) /\ Detecting(t) => s = t  BY <1>17, PhotosAre
    <3>6. ~photos'.open => photos'.found = {}  BY <1>14, <1>15, PhotosAre
    <3>7. photos'.files \in Seq(Keys)  BY <1>14, PhotosAre
    <3> QED  BY <1>14, <3>3, <3>4, <3>5, <3>6, <3>7, SoundAnyTime DEF FilesKnown, PhotosFields, Fields
  <2>2. ShotsSound'  BY <1>4, <1>11, <1>16, ShotsGood, ShotStaysSound DEF ShotsSound, ShotGood
  <2>3. QueueKnown'  BY <1>1, <1>11, <1>16, QueueIs, ShotsGood DEF QueueKnown, ShotGood, Fields, QueueFields
  <2>4. CaptureKnown'  BY <1>1 DEF CaptureKnown, KeysInv, CoverSide, Fields
  <2> QED  BY <2>1, <2>2, <2>3, <2>4 DEF CoverSide
<1>23. OneDialog'  BY <1>1, <1>14, PhotosAre DEF OneDialog
<1>24. ASSUME Certain' PROVE OneKey' /\ Unused'
  <2>1. Certain /\ OneKey /\ Unused  BY <1>2, <1>24, CertainStays DEF KeysInv
  <2>2. FormsAdd' = FormsAdd  BY <1>1, Same
  <2>3. CASE people' = people /\ photos' = photos
    <3>1. Added' = Added /\ NewFaces' = NewFaces  BY <2>2, <2>3, Same DEF Added
    <3> QED  BY <1>1, <1>17, <2>1, <3>1, OneKeyShrinks, UnusedStays
  <2>4. CASE FaceGiven(face)
    <3>1. face \in NewFaces /\ photos.open  BY <1>1, <1>13, <2>4, PhotosAre DEF NewFaces
    <3>2. Added' \subseteq Added \cup New  BY <1>19, <2>2 DEF Added
    <3>3. NewFaces' \subseteq NewFaces \ {face}  BY <1>8, <1>14, <2>4 DEF NewFaces
    <3>4. \A b \in Added : b[2] # face.of  BY <2>1, <3>1 DEF OneKey
    <3>5. \A f \in NewFaces' : f.of # face.of  BY <2>1, <3>1, <3>3 DEF OneKey
    <3>6. \A b, c \in Added' : b[2] = c[2] => b[1] = c[1]  BY <2>1, <3>2, <3>4 DEF OneKey
    <3>7. \A f \in NewFaces' : \A b \in Added' : b[2] # f.of  BY <2>1, <3>2, <3>3, <3>5 DEF OneKey
    <3>8. \A f, h \in NewFaces' : f.of = h.of => f = h  BY <2>1, <3>3 DEF OneKey
    <3>9. \A s \in shots' : Detecting(s) => \A f \in NewFaces' : f.of # s.of  BY <1>17, <2>1, <3>3 DEF OneKey
    <3>10. OneKey'  BY <3>6, <3>7, <3>8, <3>9, SoundAnyTime DEF OneKey
    <3>11. form.request = None /\ Entries(bulk.file) = {} /\ ~form.open  BY <3>1, PhotosAre, FormClosed
    <3>12. Unused'  BY <1>1, <3>11, SoundAnyTime DEF Unused
    <3> QED  BY <3>10, <3>12
  <2> QED  BY <1>2, <1>24, <2>3, <2>4 DEF Certain
<1>25. \A b \in New : b[1] \in Nat /\ fresh < b[1] /\ b[1] <= fresh' /\ Old(b[2])'
    BY <1>1, <1>4, <1>6, StaysOld
<1>26. \A b, c \in New : b[1] = c[1] => b[2] = c[2]  OBVIOUS
<1> HIDE DEF New
<1>27. PeopleMean' \subseteq Means \cup New /\ FacesMean' \subseteq Means \cup New  BY <1>19, <1>20, PartsMean
<1> QED  BY <1>1, <1>2, <1>4, <1>18, <1>21, <1>22, <1>23, <1>24, <1>25, <1>26, <1>27, CoverComposes

\* Removals, which leave keys to nobody else.
LEMMA RemovalStep ==
    ASSUME KeysInv, \/ \E s : RemoveMembers(s)
                    \/ \E d \in removals : ServeRemoval(d) \/ RemovalAnswered(d)
                    \/ \E f \in faces : ResetFace(f)
    PROVE  KeysInv'
PROOF
<1>1. CASE \E s : RemoveMembers(s)
  <2>1. /\ UNCHANGED <<form, bulk, checks, adds, fresh, queue, capture, photos, shots>>
        /\ doubts \subseteq doubts' /\ people' \subseteq people /\ faces' \subseteq faces
      BY <1>1 DEF RemoveMembers, Covering
  <2> QED  BY <2>1, PeopleLeave
<1>2. CASE \E d \in removals : ServeRemoval(d)
  <2>1. PICK d \in removals : ServeRemoval(d)  BY <1>2
  <2>2. UNCHANGED <<form, bulk, checks, adds, fresh, queue, capture, photos, shots>>  BY <2>1 DEF ServeRemoval
  <2>3. doubts \subseteq doubts' /\ people' \subseteq people /\ faces' \subseteq faces  BY <2>1 DEF ServeRemoval
  <2> QED  BY <2>2, <2>3, PeopleLeave
<1>3. CASE \E d \in removals : RemovalAnswered(d)
  <2>1. /\ UNCHANGED <<form, bulk, checks, adds, fresh, queue, capture, photos, shots>>
        /\ doubts \subseteq doubts' /\ people' \subseteq people /\ faces' \subseteq faces
      BY <1>3 DEF RemovalAnswered
  <2> QED  BY <2>1, PeopleLeave
<1>4. CASE \E f \in faces : ResetFace(f)
  <2>1. /\ UNCHANGED <<form, bulk, checks, adds, fresh, queue, capture, photos, shots>>
        /\ doubts \subseteq doubts' /\ people' \subseteq people /\ faces' \subseteq faces
      BY <1>4 DEF ResetFace
  <2> QED  BY <2>1, PeopleLeave
<1> QED  BY <1>1, <1>2, <1>3, <1>4

\* What the covers do.
LEMMA CoversKeep ==
    ASSUME KeysInv, CoverNext, groups \subseteq Groups
    PROVE  KeysInv'
PROOF
<1>1. CASE \E s \in SUBSET ShownMembers : OpenQueue(s) \/ OpenPhotos(s) \/ RemoveMembers(s)
    BY <1>1, OpenQueueStep, OpenPhotosStep, RemovalStep
<1>2. CASE CloseQueue \/ CaptureFromQueue \/ MoveQueue \/ RetryInQueue \/ SkipInQueue \/ ShowCompletion
    BY <1>2, CloseQueueStep, CaptureFromQueueStep, QueueMoves
<1>3. CASE \E i \in queue.jumps : JumpToNext(i)  BY <1>3, QueueMoves
<1>4. CASE \E m \in ShownMembers : JumpToEnrollment(m)  BY <1>4, JumpStep
<1>5. CASE CloseCapture \/ CaptureFrame \/ RetakeFrame \/ HandleEnroll
    BY <1>5, CloseCaptureStep, CaptureFrameStep, RetakeStep, HandleEnrollStep
<1>6. CASE ClosePhotos \/ ClearFiles \/ HandleBulkEnroll
    BY <1>6, ClosePhotosStep, ClearFilesStep, HandleBulkEnrollStep
<1>7. CASE (\E p \in people : PickFile(p.intent)) \/ PickFile(fresh + 1)
  <2>1. \E person : (person \in {p.intent : p \in people} \/ person = fresh + 1) /\ PickFile(person)  BY <1>7
  <2> QED  BY <2>1, PickFileStep
<1>8. CASE \E f \in photos.found : EditFace(f)  BY <1>8, EditFaceStep
<1>9. CASE \E q \in shots, found \in BOOLEAN :
              CaptureChecked(q, found) \/ FrameChecked(q, found) \/ FacesDetected(q, found)
    BY <1>9, CaptureCheckedStep, FrameCheckedStep, FacesDetectedStep
<1>10. CASE \E q \in shots : \/ ServeShot(q) \/ QueueEnrolled(q) \/ FrameEnrolled(q)
                             \/ PrepareFaces(q) \/ ServePhotos(q) \/ PhotosEnrolled(q)
    BY <1>10, ServeShotStep, QueueEnrolledStep, FrameEnrolledStep, PrepareFacesStep, ServePhotosStep, PhotosEnrolledStep
<1>11. CASE \E q \in shots : q.kind = "photos" /\ \E f \in q.faces : CreateForFace(q, f)  BY <1>11, CreateForFaceStep
<1>12. CASE \/ \E d \in removals : ServeRemoval(d) \/ RemovalAnswered(d)
            \/ \E f \in faces : ResetFace(f)
    BY <1>12, RemovalStep
<1> QED  BY <1>1, <1>2, <1>3, <1>4, <1>5, <1>6, <1>7, <1>8, <1>9, <1>10, <1>11, <1>12 DEF CoverNext

(***************************************************************************)
(* The panel, whose group the form and the covers follow.                  *)
(***************************************************************************)
LEMMA FormFollowed ==
    ASSUME KeysInv, FormFollows, doubts \subseteq doubts', PeopleMean' \subseteq PeopleMean
    PROVE  /\ fresh' \in Nat /\ fresh <= fresh' /\ UNCHANGED faces /\ form'.open = form.open
           /\ FormSide' /\ FormsMean' \subseteq FormsMean /\ FormsAdd' \subseteq FormsAdd
           /\ Added' \subseteq Added /\ (Unused => Unused')
PROOF
<1>1. FormSide /\ fresh \in Nat /\ MeansOld  BY DEF KeysInv, MeansOld
<1>2. CASE UNCHANGED enrollVars
  <2>1. UNCHANGED <<form, bulk, checks, adds, faces, fresh>>  BY <1>2 DEF enrollVars
  <2>2. FormSide' /\ FormsMean' = FormsMean /\ FormsAdd' = FormsAdd  BY <1>1, <2>1, FormStays, Same
  <2>3. Added' \subseteq Added  BY <2>2 DEF Added
  <2> QED  BY <1>1, <2>1, <2>2, <2>3, UnusedStays
<1>3. CASE ~UNCHANGED enrollVars
  <2>1. /\ form.open /\ form' = [NoForm EXCEPT !.open = TRUE, !.entry = fresh + 1] /\ fresh' = fresh + 1
        /\ bulk' = NoBulk /\ checks' = Superseded(checks) /\ adds' = Superseded(adds) /\ UNCHANGED faces
      BY <1>3 DEF FormFollows
  <2>2. fresh + 1 \in Nat /\ fresh < fresh + 1 /\ fresh <= fresh + 1  BY <1>1
  <2>3. /\ form' \in FormType /\ form'.open /\ form'.entry = fresh + 1
        /\ form'.request = None /\ form'.saved = None /\ form'.photo = None
      BY <2>1, <2>2 DEF NoForm, FormType, NameType
  <2>4. bulk' = [NoBulk EXCEPT !.file = {}, !.text = {}] /\ bulk'.file = {}  BY <2>1, EmptyList DEF NoBulk
  <2>5. \A c \in checks' : c \in [of : Nat, latest : BOOLEAN] /\ ~c.latest  BY <2>1, FormParts, SupersededIs
  <2>6. \A b \in adds' : ~b.latest /\ \E a \in adds : b = [a EXCEPT !.latest = FALSE]
      BY <2>1, FormParts, SupersededIs
  <2>7. \A b \in adds' : ~b.latest /\ \E a \in adds : b = a \/ b = [a EXCEPT !.latest = FALSE]  BY <2>6
  <2>8. PICK L : L = {}  OBVIOUS
  <2>9. Entries(L) \subseteq ((fresh + 1) .. fresh') \ {form'.entry}  BY <2>8, EmptyList
  <2>10. form'.entry <= fresh' /\ fresh' \in Nat /\ fresh <= fresh' /\ (~form'.open => form' = NoForm)
      BY <2>1, <2>2, <2>3
  <2>11. FormSide' /\ FormsMean' \subseteq FormsMean /\ FormsAdd' \subseteq FormsAdd
    <3>1. L \in SUBSET KeyType /\ OneEach(L) /\ bulk' = [NoBulk EXCEPT !.file = L, !.text = L] /\ (~form'.open => L = {})
        BY <2>4, <2>8, EmptyList
    <3> HIDE <2>8
    <3> QED  BY <1>1, <2>3, <2>5, <2>7, <2>9, <2>10, <3>1, FormAnew, ZenonT(60)
  <2>12. form'.open = form.open  BY <2>1, <2>3 DEF FormSide, FormKnown, FormType
  <2>13. Added' \subseteq Added  BY <2>11 DEF Added
  <2>14. Entries(bulk'.file) \subseteq (fresh + 1) .. fresh'  BY <2>4, EmptyList
  <2>15. form'.open => form'.entry \in Nat /\ fresh < form'.entry  BY <2>2, <2>3
  <2>16. Unused'  BY <1>1, <2>3, <2>10, <2>13, <2>14, <2>15, UnusedAnew
  <2> QED  BY <2>1, <2>10, <2>11, <2>12, <2>13, <2>16
<1> QED  BY <1>2, <1>3

LEMMA CoversFollowed ==
    ASSUME KeysInv, CoversFollow, fresh' \in Nat, fresh <= fresh'
    PROVE  /\ CoverSide' /\ CoversMean' \subseteq Means /\ NewFaces' \subseteq NewFaces
           /\ photos'.open => photos.open
           /\ \A q \in shots' : Detecting(q) => q \in shots
PROOF
<1>1. fresh \in Nat  BY FormParts
<1>2. CASE UNCHANGED coverVars
  <2>1. UNCHANGED <<queue, capture, photos, shots>>  BY <1>2 DEF coverVars
  <2>2. CoverSide'  BY <1>1, <1>2, CoversStay DEF KeysInv
  <2>3. CoversMean' = CoversMean /\ NewFaces' = NewFaces  BY <2>1, Same
  <2> QED  BY <2>1, <2>2, <2>3, PartsMean
<1>3. CASE ~UNCHANGED coverVars
  <2>1. queue' = NoQueue /\ capture' = NoCapture /\ photos' = NoPhotos /\ shots' = Superseded(shots)
      BY <1>3 DEF CoversFollow
  <2>2. \A q \in shots' : ShotSound(q) /\ ShotMeans(q) \subseteq Means /\ ~q.latest
      BY <2>1, SupersededShots DEF ShotGood
  <2>3. \A q \in shots' : ~Detecting(q)  BY <2>2 DEF Detecting
  <2>4. QueueKnown' /\ QueueMeans' = {}
    <3>1. /\ queue' = [open |-> FALSE, members |-> <<>>, persons |-> <<>>, status |-> <<>>, index |-> 1,
                       busy |-> FALSE, jumps |-> {}, done |-> FALSE]
        BY <2>1 DEF NoQueue
    <3>2. DOMAIN queue'.members = {} /\ DOMAIN queue'.status = {} /\ queue'.jumps = {} /\ ~queue'.open  BY <3>1
    <3>3. Fields(queue', {"open", "members", "persons", "status", "index", "busy", "jumps", "done"})
        BY <3>1 DEF Fields
    <3> QED  BY <2>2, <3>2, <3>3 DEF QueueKnown, QueueMeans, Fields
  <2>5. CaptureKnown' /\ CaptureMeans' = {}
      BY <2>1, NoCaptureIs DEF CaptureKnown, CaptureMeans, CaptureFields, Fields
  <2>6. /\ photos' = [open |-> FALSE, among |-> {}, files |-> <<>>, found |-> {}, detecting |-> FALSE,
                      enrolling |-> FALSE, results |-> FALSE]
      BY <2>1 DEF NoPhotos
  <2>7. photos'.found = {} /\ photos'.files = <<>> /\ ~photos'.open  BY <2>6
  <2>8. Fields(photos', PhotosFields)  BY <2>6 DEF Fields, PhotosFields
  <2>9. <<>> \in Seq(Keys)  OBVIOUS
  <2>10. FilesKnown'  BY <2>3, <2>7, <2>8, <2>9, SoundAnyTime DEF FilesKnown, Fields, PhotosFields
  <2>11. PhotosMean' = {} /\ NewFaces' = {}  BY <2>7 DEF PhotosMean, OfFaces, NewFaces
  <2>12. ShotsMean' \subseteq Means  BY <2>2, SoundAnyTime DEF ShotsMean
  <2>13. ShotsSound'  BY <1>1, <2>2, ShotStaysSound DEF ShotsSound
  <2>14. CoverSide'  BY <2>4, <2>5, <2>10, <2>13 DEF CoverSide
  <2>15. CoversMean' \subseteq Means  BY <2>4, <2>5, <2>11, <2>12 DEF CoversMean
  <2> QED  BY <2>3, <2>7, <2>11, <2>14, <2>15
<1> QED  BY <1>2, <1>3

LEMMA PanelLeavesKeys ==
    ASSUME PanelNext \/ PanelUse
    PROVE  people' \subseteq people /\ doubts \subseteq doubts'
PROOF
<1>1. ASSUME NEW l \in loads, ShowSkeleton(l) \/ ServeLoad(l) \/ AnswerLoad(l) \/ FailLoad(l)
      PROVE  people' \subseteq people /\ doubts \subseteq doubts'
    BY <1>1 DEF ShowSkeleton, ServeLoad, AnswerLoad, FailLoad, service
<1>2. ASSUME NEW r \in refreshes, ServeList(r) \/ AnswerRefresh(r) \/ FailRefresh(r) \/ AnswerList(r)
      PROVE  people' \subseteq people /\ doubts \subseteq doubts'
    BY <1>2 DEF ServeList, AnswerRefresh, FailRefresh, AnswerList, service
<1>3. CASE DataChanged  BY <1>3 DEF DataChanged
<1>4. CASE CloseRules \/ SaveSettings  BY <1>4 DEF CloseRules, SaveSettings, service
<1>5. ASSUME NEW s \in saves, SaveSettles(s)
      PROVE  people' \subseteq people /\ doubts \subseteq doubts'
    BY <1>5 DEF SaveSettles
<1>6. ASSUME NEW g \in Groups, SelectGroup(g) \/ SelectInSettings(g) \/ CreateGroup(g) \/ DeleteGroup(g)
      PROVE  people' \subseteq people /\ doubts \subseteq doubts'
    BY <1>6 DEF SelectGroup, SelectInSettings, CreateGroup, DeleteGroup, service
<1>7. CASE Retry \/ OpenSettings \/ CloseSettings \/ OpenRules
    BY <1>7 DEF Retry, OpenSettings, CloseSettings, OpenRules, service
<1> QED  BY <1>1, <1>2, <1>3, <1>4, <1>5, <1>6, <1>7 DEF PanelNext, PanelUse

LEMMA PanelKeeps ==
    ASSUME KeysInv, PanelNext \/ PanelUse, FormFollows, CoversFollow
    PROVE  KeysInv'
PROOF
<1>1. people' \subseteq people /\ doubts \subseteq doubts'  BY PanelLeavesKeys
<1>2. PeopleMean' \subseteq PeopleMean  BY <1>1 DEF PeopleMean
<1>3. /\ fresh' \in Nat /\ fresh <= fresh' /\ UNCHANGED faces /\ form'.open = form.open
      /\ FormSide' /\ FormsMean' \subseteq FormsMean
      /\ Added' \subseteq Added /\ (Unused => Unused')
    BY <1>1, <1>2, FormFollowed
<1>4. /\ CoverSide' /\ CoversMean' \subseteq Means /\ NewFaces' \subseteq NewFaces
      /\ photos'.open => photos.open
      /\ \A q \in shots' : Detecting(q) => q \in shots
    BY <1>3, CoversFollowed
<1>5. FacesMean' = FacesMean  BY <1>3, Same
<1>6. Means' \subseteq Means  BY <1>2, <1>3, <1>4, <1>5, PartsMean, MeansParts
<1>7. PeopleKnown'  BY <1>1, <1>3 DEF KeysInv, PeopleKnown
<1>8. OneDialog'  BY <1>3, <1>4 DEF KeysInv, OneDialog
<1>9. Certain' => OneKey' /\ Unused'  BY <1>1, <1>3, <1>4, CertainStays, OneKeyShrinks DEF KeysInv
<1> QED  BY <1>1, <1>3, <1>4, <1>6, <1>7, <1>8, <1>9, KeysShrink

(***************************************************************************)
(* At the start, and always.                                               *)
(***************************************************************************)
LEMMA FormAtStart ==
    ASSUME EnrollInit
    PROVE  /\ fresh = MaxRows + 1 /\ fresh \in Nat /\ MaxRows \in Nat /\ MaxRows < fresh
           /\ form \in FormType /\ form.request = None /\ form.saved = None /\ form.photo = None
           /\ form.open => form.entry = fresh
           /\ ~form.open => form = NoForm /\ bulk = NoBulk
PROOF
<1>1. fresh = MaxRows + 1 /\ MaxRows \in Nat  BY EnrollmentAssumption, Zenon DEF EnrollInit
<1>2. fresh \in Nat /\ MaxRows < fresh  BY <1>1
<1>3. form = NoForm \/ \E m \in BOOLEAN :
          form = [NoForm EXCEPT !.open = TRUE, !.many = m, !.section = ~m, !.entry = MaxRows + 1]
    BY Zenon DEF EnrollInit
<1>4. CASE form = NoForm
  <2>1. form.many = FALSE  BY <1>4 DEF NoForm
  <2>2. bulk = NoBulk  BY <2>1, Zenon DEF EnrollInit
  <2> QED  BY <1>1, <1>2, <1>4, <2>2, EmptyForm
<1>5. ASSUME NEW m \in BOOLEAN,
             form = [NoForm EXCEPT !.open = TRUE, !.many = m, !.section = ~m, !.entry = MaxRows + 1]
      PROVE  /\ form \in FormType /\ form.request = None /\ form.saved = None /\ form.photo = None
             /\ form.open /\ form.entry = fresh
  <2>1. PICK e \in Nat : e = MaxRows + 1  BY <1>1
  <2>2. PICK b \in BOOLEAN : b = ~m  BY Zenon
  <2>3. form = [NoForm EXCEPT !.open = TRUE, !.many = m, !.section = b, !.entry = e]  BY <1>5, <2>1, <2>2, Zenon
  <2>4. /\ form \in FormType /\ form.request = None /\ form.saved = None /\ form.photo = None
        /\ form.open /\ form.entry = e
      BY <2>3 DEF NoForm, FormType, NameType
  <2> QED  BY <1>1, <2>1, <2>4
<1> QED  BY <1>1, <1>2, <1>3, <1>4, <1>5, Zenon

LEMMA ListAtStart ==
    ASSUME EnrollInit
    PROVE  \E L \in SUBSET KeyType : /\ bulk = [NoBulk EXCEPT !.file = L, !.text = L] /\ OneEach(L)
                                     /\ Entries(L) \subseteq 1 .. MaxRows
PROOF
<1>1. CASE form.many
  <2> DEFINE L == Listed(0, MaxRows)
  <2>1. bulk = [NoBulk EXCEPT !.file = L, !.text = L]  BY <1>1, Zenon DEF EnrollInit
  <2>2. 0 \in Nat /\ MaxRows \in Nat /\ 0 + 1 = 1 /\ 0 + MaxRows = MaxRows  BY EnrollmentAssumption
  <2>3. L \in SUBSET KeyType /\ OneEach(L) /\ Entries(L) \subseteq 1 .. MaxRows  BY <2>2, ListedIs
  <2> HIDE DEF L
  <2> QED  BY <2>1, <2>3, Zenon
<1>2. CASE ~form.many
  <2>1. bulk = NoBulk  BY <1>2, Zenon DEF EnrollInit
  <2> DEFINE L == {}
  <2>2. L \in SUBSET KeyType /\ OneEach(L) /\ Entries(L) = {} /\ bulk = [NoBulk EXCEPT !.file = L, !.text = L]
      BY <2>1, EmptyList
  <2> HIDE DEF L
  <2> QED  BY <2>2, Zenon
<1> QED  BY <1>1, <1>2, Zenon

LEMMA CoversAtStart ==
    ASSUME CoverInit
    PROVE  /\ queue = NoQueue /\ shots = {}
           /\ capture = NoCapture
              \/ \E m \in panel.shown : capture = [NoCapture EXCEPT !.member = m, !.person = PersonOf(m)]
           /\ Fields(photos, PhotosFields) /\ photos.found = {} /\ photos.files = <<>>
           /\ form.open => ~photos.open
PROOF
<1>1. queue = NoQueue /\ shots = {}  BY Zenon DEF CoverInit
<1>2. capture = NoCapture
         \/ \E m \in panel.shown : capture = [NoCapture EXCEPT !.member = m, !.person = PersonOf(m)]
    BY Zenon DEF CoverInit
<1>3. photos = NoPhotos \/ (~form.open /\ photos = [NoPhotos EXCEPT !.open = TRUE, !.among = panel.shown])
    BY Zenon DEF CoverInit
<1>4. CASE photos = NoPhotos
  <2>1. Fields(photos, PhotosFields) /\ photos.found = {} /\ photos.files = <<>> /\ ~photos.open
      BY <1>4 DEF NoPhotos, Fields, PhotosFields
  <2> QED  BY <1>1, <1>2, <2>1, Zenon
<1>5. CASE ~form.open /\ photos = [NoPhotos EXCEPT !.open = TRUE, !.among = panel.shown]
  <2>1. Fields(photos, PhotosFields) /\ photos.found = {} /\ photos.files = <<>>
      BY <1>5 DEF NoPhotos, Fields, PhotosFields
  <2> QED  BY <1>1, <1>2, <1>5, <2>1, Zenon
<1> QED  BY <1>3, <1>4, <1>5, Zenon

LEMMA PeopleAtStart ==
    ASSUME PanelInit
    PROVE  /\ people \subseteq Seed
           /\ \A m \in panel.shown : \E p \in people : p.id = m
PROOF
<1>1. people \subseteq Seed  BY DEF PanelInit
<1>2. panel.shown \in {{}, MembersOf(current)}
  <2>1. \/ panel = [EmptyPanel EXCEPT !.loading = current # None]
        \/ panel = [EmptyPanel EXCEPT !.shown = MembersOf(current)]
      BY Zenon DEF PanelInit
  <2> QED  BY <2>1 DEF EmptyPanel
<1>3. \A m \in MembersOf(current) : \E p \in people : p.id = m  BY DEF MembersOf
<1> QED  BY <1>1, <1>2, <1>3, Zenon

LEMMA KeysStart == Init => KeysInv
PROOF
<1> SUFFICES ASSUME Init PROVE KeysInv  OBVIOUS
<1>0. PanelInit /\ EnrollInit /\ CoverInit  BY DEF Init
<1>1. /\ faces = {} /\ checks = {} /\ adds = {} /\ shots = {} /\ fresh = MaxRows + 1 /\ queue = NoQueue
      /\ people \subseteq Seed
  <2>1. faces = {} /\ checks = {} /\ adds = {}  BY <1>0, Zenon DEF EnrollInit
  <2> QED  BY <1>0, <2>1, FormAtStart, CoversAtStart, PeopleAtStart, Zenon
<1>2. fresh \in Nat /\ MaxRows \in Nat /\ MaxRows < fresh  BY <1>0, FormAtStart
<1>3. \A m \in Members : Home[m] \in Groups  BY PanelAssumption
<1>4. \A p \in people : /\ p \in PersonType /\ p.id = p.intent /\ p.id \in Members
                        /\ p = [id |-> p.id, group |-> Home[p.id], intent |-> p.id, name |-> 0]
    BY <1>1, <1>3 DEF Seed, PersonType, Keys, NoGroupOr, NameType
<1>5. PeopleKnown
  <2>1. \A p, q \in people : p.id = q.id => p = q  BY <1>4
  <2> QED  BY <1>1, <1>4, <2>1 DEF PeopleKnown
<1>6. \A b \in PeopleMean : b[1] = b[2] /\ b[1] \in Members  BY <1>4 DEF PeopleMean
<1>7. form \in FormType /\ form.request = None /\ form.saved = None /\ form.photo = None  BY <1>0, FormAtStart
<1>8. form.open => form.entry = fresh  BY <1>0, FormAtStart
<1>9. ~form.open => form = NoForm /\ bulk = NoBulk  BY <1>0, FormAtStart
<1>10. form.entry \in Nat /\ form.entry <= fresh
  <2>1. CASE form.open  BY <1>2, <1>8, <2>1
  <2>2. CASE ~form.open  BY <1>2, <1>9, <2>2, EmptyForm
  <2> QED  BY <2>1, <2>2
<1>11. PICK L \in SUBSET KeyType : /\ bulk = [NoBulk EXCEPT !.file = L, !.text = L] /\ OneEach(L)
                                   /\ Entries(L) \subseteq 1 .. MaxRows
    BY <1>0, ListAtStart, Zenon
<1>12. /\ bulk.file = L /\ bulk.text = L /\ bulk.pending = {} /\ bulk.completed = {} /\ bulk.includes = FALSE
       /\ bulk \in ListType
    BY <1>11, NoListIs, Zenon
<1>13. Entries(L) \subseteq (1 .. fresh) \ {form.entry}
  <2>1. 1 .. MaxRows \subseteq 1 .. fresh  BY <1>2
  <2>2. CASE form.open
    <3>1. \A e \in 1 .. MaxRows : e # form.entry  BY <1>2, <1>8, <2>2
    <3> QED  BY <1>11, <2>1, <3>1
  <2>3. CASE ~form.open
    <3>1. form.entry = 0  BY <1>9, <2>3, EmptyForm
    <3>2. \A e \in 1 .. MaxRows : e # 0  BY <1>2
    <3> QED  BY <1>11, <2>1, <3>1, <3>2
  <2> QED  BY <2>2, <2>3
<1>14. FormSide
  <2>1. FormKnown  BY <1>1, <1>7, <1>9, <1>10 DEF FormKnown
  <2>2. ListKnown  BY <1>1, <1>11, <1>12, <1>13, MeantIs DEF ListKnown, OneEach
  <2>3. ListKept  BY <1>1, <1>12 DEF ListKept, Sent, OneEach
  <2>4. AddsSound  BY <1>1 DEF AddsSound
  <2> QED  BY <2>1, <2>2, <2>3, <2>4 DEF FormSide
<1>15. FormMeans = {} /\ ListMeans = {} /\ AddsMean = {} /\ FormsAdd = {}
  <2>1. FormMeans = {}  BY <1>7 DEF FormMeans
  <2>2. ListMeans = {}  BY <1>12, MeantIs DEF ListMeans
  <2>3. AddsMean = {}  BY <1>1 DEF AddsMean
  <2> QED  BY <1>1, <2>1, <2>2, <2>3, FormsMeanIs
<1>16. capture = NoCapture \/ \E m \in panel.shown : capture = [NoCapture EXCEPT !.member = m, !.person = PersonOf(m)]
    BY <1>0, CoversAtStart, Zenon
<1>17. \A m \in panel.shown : \E p \in people : p.id = m  BY <1>0, PeopleAtStart
<1>18. \A m \in panel.shown : PersonOf(m) = m /\ m \in Members /\ <<m, m>> \in PeopleMean
  <2> SUFFICES ASSUME NEW m \in panel.shown PROVE PersonOf(m) = m /\ m \in Members /\ <<m, m>> \in PeopleMean
      BY Zenon
  <2>1. \E p \in people : p.id = m  BY <1>17
  <2> DEFINE p == CHOOSE p \in people : p.id = m
  <2>2. p \in people /\ p.id = m  BY <2>1
  <2>3. PersonOf(m) = p.intent  BY DEF PersonOf
  <2> HIDE DEF p
  <2> QED  BY <1>4, <2>2, <2>3 DEF PeopleMean
<1>19. Fields(capture, CaptureFields) /\ capture.frame = None /\ CaptureMeans \subseteq PeopleMean
  <2>1. CASE capture = NoCapture  BY <2>1, NoCaptureIs DEF CaptureMeans
  <2>2. ASSUME NEW m \in panel.shown, capture = [NoCapture EXCEPT !.member = m, !.person = PersonOf(m)]
        PROVE  Fields(capture, CaptureFields) /\ capture.frame = None /\ CaptureMeans \subseteq PeopleMean
    <3>1. /\ Fields(capture, CaptureFields) /\ capture.member = m /\ capture.person = PersonOf(m)
          /\ capture.frame = None
        BY <2>2, NoCaptureIs DEF Fields, CaptureFields
    <3> QED  BY <1>18, <3>1 DEF CaptureMeans
  <2> QED  BY <1>16, <2>1, <2>2, Zenon
<1>21. /\ Fields(photos, PhotosFields) /\ photos.found = {} /\ photos.files = <<>>
       /\ form.open => ~photos.open
    BY <1>0, CoversAtStart, Zenon
<1>22. CoverSide
  <2>1. queue = [open |-> FALSE, members |-> <<>>, persons |-> <<>>, status |-> <<>>, index |-> 1,
                 busy |-> FALSE, jumps |-> {}, done |-> FALSE]
      BY <1>1 DEF NoQueue
  <2>2. DOMAIN queue.members = {} /\ DOMAIN queue.status = {} /\ queue.jumps = {} /\ ~queue.open  BY <2>1
  <2>3. Fields(queue, {"open", "members", "persons", "status", "index", "busy", "jumps", "done"})
      BY <2>1 DEF Fields
  <2>4. QueueKnown  BY <1>1, <2>2, <2>3 DEF QueueKnown
  <2>5. CaptureKnown  BY <1>19 DEF CaptureKnown, CaptureFields
  <2>6. <<>> \in Seq(Keys)  OBVIOUS
  <2>7. FilesKnown  BY <1>1, <1>21, <2>6 DEF FilesKnown, PhotosFields
  <2>8. ShotsSound  BY <1>1 DEF ShotsSound
  <2> QED  BY <2>4, <2>5, <2>7, <2>8 DEF CoverSide
<1>23. CoversMean \subseteq PeopleMean
  <2>1. QueueMeans = {}  BY <1>1 DEF QueueMeans, NoQueue
  <2>2. PhotosMean = {}  BY <1>21 DEF PhotosMean, OfFaces
  <2>3. ShotsMean = {}  BY <1>1 DEF ShotsMean
  <2> QED  BY <1>19, <2>1, <2>2, <2>3 DEF CoversMean
<1>24. FacesMean = {}  BY <1>1 DEF FacesMean
<1>25. \A b \in Means : b[1] = b[2] /\ b[1] \in Members  BY <1>6, <1>15, <1>23, <1>24 DEF Means, FormsMean
<1>26. MeansOld /\ OnePerson  BY <1>2, <1>25 DEF MeansOld, OnePerson, Old
<1>27. Added = PeopleMean  BY <1>15 DEF Added
<1>28. OneKey
  <2>1. NewFaces = {}  BY <1>21 DEF NewFaces
  <2> QED  BY <1>1, <1>6, <1>27, <2>1 DEF OneKey
<1>29. Unused
  <2>1. \A b \in Added : b[2] \notin Nat  BY <1>6, <1>27, EnrollmentAssumption
  <2>2. Entries(bulk.file) \subseteq Nat  BY <1>12, <1>13
  <2> QED  BY <1>7, <1>10, <2>1, <2>2 DEF Unused
<1>30. OneDialog  BY <1>21 DEF OneDialog
<1> QED  BY <1>5, <1>14, <1>22, <1>26, <1>28, <1>29, <1>30 DEF KeysInv

LEMMA KeysKept == GroupsKnown /\ KeysInv /\ [Next]_desktopVars => KeysInv'
PROOF
<1> SUFFICES ASSUME GroupsKnown, KeysInv, [Next]_desktopVars PROVE KeysInv'  OBVIOUS
<1>1. groups \subseteq Groups /\ selected \in NoGroupOr  BY DEF GroupsKnown
<1>2. ASSUME PanelNext \/ PanelUse, FormFollows, CoversFollow PROVE KeysInv'  BY <1>2, PanelKeeps
<1>3. ASSUME EnrollNext, form'.open /\ ~form.open => ListShown, UNCHANGED coverVars PROVE KeysInv'
    BY <1>1, <1>3, EnrollKeeps
<1>4. CASE CoverNext  BY <1>1, <1>4, CoversKeep
<1>5. CASE UNCHANGED desktopVars
  <2>1. UNCHANGED <<form, bulk, checks, adds, fresh, queue, capture, photos, shots, doubts, people, faces>>
      BY <1>5 DEF desktopVars, panelVars, enrollVars, coverVars, service
  <2> QED  BY <2>1, PeopleLeave
<1> QED  BY <1>2, <1>3, <1>4, <1>5 DEF Next

\* The numbers a step takes are those of the keys.
LEMMA DesktopAlways == Spec => [](RulesInv /\ KeysInv /\ PanelInv)
PROOF
<1>1. Init => RulesInv /\ KeysInv /\ PanelInv  BY RulesStart, KeysStart, PanelStart
<1>2. RulesInv /\ KeysInv /\ PanelInv /\ [Next]_desktopVars => (RulesInv /\ KeysInv /\ PanelInv)'
  <2> SUFFICES ASSUME RulesInv, KeysInv, PanelInv, [Next]_desktopVars PROVE (RulesInv /\ KeysInv /\ PanelInv)'
      OBVIOUS
  <2>1. GroupsKnown  BY DEF RulesInv
  <2>2. RulesInv'  BY RulesStep
  <2>3. KeysInv'  BY <2>1, KeysKept
  <2>4. fresh' \in Nat  BY <2>3 DEF KeysInv, MeansOld
  <2>5. PanelInv'  BY <2>1, <2>4, PanelStep
  <2> QED  BY <2>2, <2>3, <2>5
<1> QED  BY <1>1, <1>2, PTL DEF Spec

(***************************************************************************)
(* The results.                                                            *)
(***************************************************************************)
\* A face is stored for the person it was taken of (AddMember, CameraQueue,
\* FaceCapture, BulkEnrollment): for any groups, members, lists, queues and photos,
\* however late a check, a creation or an enrollment is answered and whatever form,
\* place in the queue or group is on display by then, unless a row was removed from a list.
THEOREM FacesGoToTheirMembers == Spec => []FaceOfMember
PROOF
<1>1. KeysInv => FaceOfMember
  <2> SUFFICES ASSUME KeysInv, "removed" \notin doubts, NEW f \in faces, NEW p \in people, p.id = f.member
               PROVE  f.of = p.intent
      BY DEF FaceOfMember
  <2>1. <<f.member, f.of>> \in Means /\ <<p.id, p.intent>> \in Means  BY PartsMean DEF FacesMean, PeopleMean
  <2> QED  BY <2>1 DEF KeysInv, OnePerson
<1> QED  BY <1>1, DesktopAlways, PTL

\* A person is added once (AddMember, bulkMemberImport, BulkEnrollment, and the service's
\* keys): for any lists and sizes of a request, however often what was lost, refused or
\* corrected is asked for again, and by a list, a form or a photo.
THEOREM PersonsAddedOnce == Spec => []AddedOnce
PROOF
<1>1. KeysInv => AddedOnce
  <2> SUFFICES ASSUME KeysInv, Certain, NEW p \in people, NEW q \in people, p.intent = q.intent
               PROVE  p = q
      BY DEF AddedOnce, Certain
  <2>1. <<p.id, p.intent>> \in Added /\ <<q.id, q.intent>> \in Added  BY PartsMean DEF PeopleMean
  <2>2. p.id = q.id  BY <2>1 DEF KeysInv, OneKey
  <2> QED  BY <2>2 DEF KeysInv, PeopleKnown, Certain
<1> QED  BY <1>1, DesktopAlways, PTL

\* When nothing is under way the panel has stopped loading and shows what the
\* service has, or says that it failed (useAttendanceGroups, GroupPanel): for
\* any groups and members, in whatever order loads, refreshes, additions,
\* removals and photos are asked for, answered, overtaken or lost.
THEOREM PanelSettles == Spec => []PanelSettled
PROOF
<1>1. PanelInv => PanelSettled
  <2> SUFFICES ASSUME PanelInv, AtRest, ~Excused
               PROVE  Quiet(panel) /\ Shows(panel, current)
      BY DEF PanelSettled, Quiet, Shows, Excused
  <2>1. ~Refreshing /\ ~Loading  BY DEF AtRest, Refreshing, Loading
  <2>2. ~Owed  BY DEF AtRest, Owed, PhotosOwe
  <2> QED  BY <2>1, <2>2 DEF PanelInv, Due, Right
<1> QED  BY <1>1, DesktopAlways, PTL

================================================================================
