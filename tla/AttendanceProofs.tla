--------------------------- MODULE AttendanceProofs ---------------------------
(***************************************************************************)
(* Proofs about the attendance of one member: what an editor corrected is  *)
(* kept by every rebuild and every scan; a visit that requests leave       *)
(* behind one after the other ends no earlier than it begins; those visits *)
(* are the ones a rebuild from the records gives; and whoever has a record *)
(* is stored as present.  All of it holds for any number of scanners,      *)
(* reports, editors, visits and corrections, any modes, behaviours,        *)
(* schedules and delays, in the parts MCAttendance distinguishes.          *)
(***************************************************************************)
EXTENDS MCAttendance, FiniteSetTheorems, WellFoundedInduction, TLAPS

Row == [status : {"none", "absent", "present"}, in : Nat, out : Nat, manual : BOOLEAN]

Ordered(row) == row.out > 0 => 0 < row.in /\ row.in <= row.out

\* What an override has of a visit is still there.
Kept(old, new) ==
    old.manual => /\ new.manual
                  /\ old.in > 0 => new.in = old.in
                  /\ old.out > 0 => new.out = old.out

-----------------------------------------------------------------------------
(* Finite sets of numbers. *)

LEMMA MinExists ==
    ASSUME NEW T \in SUBSET Nat, T # {}
    PROVE  \E m \in T : \A n \in T : m <= n
<1>1. IsWellFoundedOn(OpToRel(<, Nat), Nat)
  BY NatLessThanWellFounded
<1>2. \E m \in T : \A n \in T : <<n, m>> \notin OpToRel(<, Nat)
  BY <1>1, WFMin
<1>3. \A m, n \in Nat : <<n, m>> \notin OpToRel(<, Nat) => m <= n
  BY DEF OpToRel
<1> QED
  BY <1>2, <1>3

LEMMA MaxExists ==
    ASSUME NEW b \in Nat, NEW T \in SUBSET (0 .. b), T # {}
    PROVE  \E m \in T : \A n \in T : n <= m
<1> DEFINE D == {b - n : n \in T}
<1>0. \A n \in T : b - n \in Nat
  OBVIOUS
<1>1. D \in SUBSET Nat /\ D # {}
  BY <1>0
<1>2. PICK k \in D : \A n \in D : k <= n
  BY <1>1, MinExists
<1>3. PICK m \in T : k = b - m
  OBVIOUS
<1>4. \A n \in T : n <= m
  <2> SUFFICES ASSUME NEW n \in T PROVE n <= m
    OBVIOUS
  <2>1. b - m <= b - n
    BY <1>2, <1>3
  <2> QED
    BY <2>1
<1> QED
  BY <1>4

LEMMA DivUp ==
    ASSUME NEW d \in Nat \ {0}, NEW s \in Nat, NEW t \in Nat, s <= t
    PROVE  s \div d <= t \div d /\ s \div d \in Nat
OBVIOUS

Below(T, t) == {u \in T : u < t}

LEMMA NthFound ==
    ASSUME NEW T \in SUBSET Nat, IsFiniteSet(T), NEW n \in 1 .. Cardinality(T)
    PROVE  \E t \in T : Cardinality(Below(T, t)) = n - 1
<1> DEFINE Missing == {k \in 1 .. Cardinality(T) : \A t \in T : Cardinality(Below(T, t)) # k - 1}
<1>0. Cardinality(T) \in Nat
  BY FS_CardinalityType
<1> SUFFICES ASSUME Missing # {} PROVE FALSE
  OBVIOUS
<1>1. PICK k \in Missing : \A j \in Missing : k <= j
  <2>1. Missing \in SUBSET Nat
    BY <1>0
  <2> HIDE DEF Missing
  <2> QED
    BY <2>1, MinExists
<1>2. k \in 1 .. Cardinality(T) /\ \A t \in T : Cardinality(Below(T, t)) # k - 1
  OBVIOUS
<1>3. PICK L \in SUBSET T : Cardinality(L) = k - 1 /\ \A t \in T \ L, u \in L : u < t
  <2>1. CASE k = 1
    <3>1. Cardinality({}) = k - 1
      BY <2>1, FS_EmptySet
    <3> QED
      BY <3>1
  <2>2. CASE k # 1
    <3>1. k - 1 \in 1 .. Cardinality(T) /\ k - 1 \notin Missing
      BY <1>0, <1>1, <1>2, <2>2
    <3>2. PICK t \in T : Cardinality(Below(T, t)) = k - 2
      BY <3>1
    <3>3. IsFiniteSet(Below(T, t)) /\ t \notin Below(T, t)
      BY FS_Subset DEF Below
    <3>4. Cardinality(Below(T, t) \cup {t}) = k - 1
      <4>1. Cardinality(Below(T, t) \cup {t}) = Cardinality(Below(T, t)) + 1
        BY <3>3, FS_AddElement
      <4> QED
        BY <1>2, <3>2, <4>1
    <3>5. \A x \in T \ (Below(T, t) \cup {t}), u \in Below(T, t) \cup {t} : u < x
      BY DEF Below
    <3>6. Below(T, t) \cup {t} \in SUBSET T
      BY DEF Below
    <3> QED
      BY <3>4, <3>5, <3>6
  <2> QED
    BY <2>1, <2>2
<1>4. T \ L # {}
  <2>1. L = T => FALSE
    BY <1>0, <1>2, <1>3
  <2> QED
    BY <2>1
<1>5. PICK m \in T \ L : \A x \in T \ L : m <= x
  BY <1>4, MinExists
<1>6. Below(T, m) = L
  <2>1. \A u \in T \ L : ~ u < m
    BY <1>5
  <2>2. \A u \in L : u < m
    BY <1>3, <1>5
  <2> QED
    BY <2>1, <2>2 DEF Below
<1> QED
  BY <1>2, <1>3, <1>5, <1>6

LEMMA NthOfTimes ==
    ASSUME NEW T \in SUBSET (Nat \ {0}), IsFiniteSet(T), NEW n \in Nat \ {0}
    PROVE  /\ n <= Cardinality(T) => Nth(T, n) \in T /\ Cardinality(Below(T, Nth(T, n))) = n - 1
           /\ ~ n <= Cardinality(T) => Nth(T, n) = 0
<1>0. Cardinality(T) \in Nat
  BY FS_CardinalityType
<1>1. CASE n <= Cardinality(T)
  <2>1. n \in 1 .. Cardinality(T) /\ T \in SUBSET Nat
    BY <1>0, <1>1
  <2>2. \E t \in T : Cardinality(Below(T, t)) = n - 1
    BY <2>1, NthFound
  <2>3. Nth(T, n) = CHOOSE t \in T : Cardinality(Below(T, t)) = n - 1
    BY <1>0, <1>1 DEF Nth, Below
  <2> QED
    BY <1>1, <2>2, <2>3
<1>2. CASE ~ n <= Cardinality(T)
  <2>1. n > Cardinality(T)
    BY <1>0, <1>2
  <2> QED
    BY <1>2, <2>1 DEF Nth
<1> QED
  BY <1>1, <1>2

\* The records of a day are numbered in the order of their instants.
LEMMA NthOrdered ==
    ASSUME NEW T \in SUBSET (Nat \ {0}), IsFiniteSet(T),
           NEW m \in Nat \ {0}, NEW n \in Nat \ {0}, m <= n
    PROVE  /\ Nth(T, m) \in Nat /\ Nth(T, n) \in Nat
           /\ Nth(T, n) > 0 => 0 < Nth(T, m) /\ Nth(T, m) <= Nth(T, n)
<1>0. Cardinality(T) \in Nat
  BY FS_CardinalityType
<1>1. Nth(T, m) \in Nat /\ Nth(T, n) \in Nat
  <2>1. Nth(T, m) \in T \/ Nth(T, m) = 0
    BY NthOfTimes
  <2>2. Nth(T, n) \in T \/ Nth(T, n) = 0
    BY NthOfTimes
  <2>3. T \subseteq Nat /\ 0 \in Nat
    OBVIOUS
  <2>4. Nth(T, m) \in Nat
    BY <2>1, <2>3
  <2>5. Nth(T, n) \in Nat
    BY <2>2, <2>3
  <2> QED
    BY <2>4, <2>5
<1>2. ASSUME Nth(T, n) > 0 PROVE 0 < Nth(T, m) /\ Nth(T, m) <= Nth(T, n)
  <2>1. n <= Cardinality(T) /\ m <= Cardinality(T)
    BY <1>0, <1>2, NthOfTimes
  <2>2. /\ Nth(T, m) \in T /\ Cardinality(Below(T, Nth(T, m))) = m - 1
        /\ Nth(T, n) \in T /\ Cardinality(Below(T, Nth(T, n))) = n - 1
    BY <2>1, NthOfTimes
  <2>3. CASE Nth(T, n) < Nth(T, m)
    <3>1. Below(T, Nth(T, n)) \cup {Nth(T, n)} \in SUBSET Below(T, Nth(T, m))
      <4>1. \A u \in T : u < Nth(T, n) => u < Nth(T, m)
        BY <1>1, <2>3
      <4> QED
        BY <2>2, <2>3, <4>1 DEF Below
    <3>2. IsFiniteSet(Below(T, Nth(T, n))) /\ IsFiniteSet(Below(T, Nth(T, m)))
      BY FS_Subset DEF Below
    <3>3. Nth(T, n) \notin Below(T, Nth(T, n))
      BY <1>1 DEF Below
    <3>4. Cardinality(Below(T, Nth(T, n)) \cup {Nth(T, n)}) = n
      <4>1. Cardinality(Below(T, Nth(T, n)) \cup {Nth(T, n)}) = Cardinality(Below(T, Nth(T, n))) + 1
        BY <3>2, <3>3, FS_AddElement
      <4> QED
        BY <2>2, <4>1
    <3>5. n <= m - 1
      BY <2>2, <3>1, <3>2, <3>4, FS_Subset
    <3> QED
      BY <3>5
  <2> QED
    BY <1>1, <2>2, <2>3
<1> QED
  BY <1>1, <1>2

-----------------------------------------------------------------------------
(* Rows. *)

LEMMA PresentRow ==
    ASSUME NEW i \in Nat, NEW o \in Nat
    PROVE  /\ Present(i, o) \in Row /\ Present(i, o).manual = FALSE
           /\ Present(i, o).in = i /\ Present(i, o).out = o
BY DEF Present, Row

LEMMA PlainRows ==
    /\ NoRow \in Row /\ NoRow.manual = FALSE /\ NoRow.in = 0 /\ NoRow.out = 0
    /\ Absent \in Row /\ Absent.manual = FALSE /\ Absent.in = 0 /\ Absent.out = 0
BY DEF NoRow, Absent, Row

LEMMA VisitsAreCounted == Visits \subseteq Nat \ {0} /\ Visits # {} /\ 1 \in Visits
BY ConstantsAssumption DEF Visits

LEMMA TimesAreCounted ==
    /\ Times \subseteq Nat \ {0} /\ IsFiniteSet(Times) /\ MaxTime \in Times /\ 1 \in Times
    /\ \A t \in Times : Day(t) \in Days
    /\ Day(MaxTime) \in Nat /\ Days \subseteq Nat
<1>1. /\ MaxTime \in Nat \ {0} /\ DayLength \in Nat \ {0}
  BY ConstantsAssumption
<1>2. /\ Times \subseteq Nat \ {0} /\ IsFiniteSet(Times) /\ MaxTime \in Times /\ 1 \in Times
  BY <1>1, FS_Interval DEF Times
<1>3. ASSUME NEW t \in Times PROVE Day(t) \in Days
  <2>1. t - 1 \in Nat /\ MaxTime - 1 \in Nat /\ t - 1 <= MaxTime - 1
    BY <1>1 DEF Times
  <2>2. (t - 1) \div DayLength <= (MaxTime - 1) \div DayLength /\ (t - 1) \div DayLength \in Nat
    BY <1>1, <2>1, DivUp
  <2>3. (MaxTime - 1) \div DayLength \in Nat
    BY <1>1, <2>1, DivUp
  <2> QED
    BY <2>2, <2>3 DEF Day, Days
<1>4. Day(MaxTime) \in Nat
  <2>1. MaxTime - 1 \in Nat
    BY <1>1
  <2> QED
    BY <1>1, <2>1, DivUp DEF Day
<1> QED
  BY <1>2, <1>3, <1>4 DEF Days

LEMMA AttendedAreTimes ==
    ASSUME NEW d, NEW recs \in SUBSET Record
    PROVE  AttendedTimes(d, recs) \in SUBSET (Nat \ {0}) /\ IsFiniteSet(AttendedTimes(d, recs))
<1>1. AttendedTimes(d, recs) \in SUBSET Times
  BY DEF AttendedTimes, Record
<1> QED
  BY <1>1, TimesAreCounted, FS_Subset

\* The rows a day's records give are ordered, and nobody's correction.
LEMMA DerivedAreOrdered ==
    ASSUME NEW T \in SUBSET (Nat \ {0}), IsFiniteSet(T), NEW v \in Visits
    PROVE  /\ DerivedRows(T)[v] \in Row
           /\ DerivedRows(T)[v].manual = FALSE
           /\ Ordered(DerivedRows(T)[v])
<1> DEFINE n == Cardinality(T)
<1>a. PICK row : row = DerivedRows(T)[v]
  OBVIOUS
<1> SUFFICES row \in Row /\ row.manual = FALSE /\ Ordered(row)
  BY <1>a
<1>0. n \in Nat /\ v \in Nat \ {0} /\ 2 * v - 1 \in Nat \ {0} /\ 2 * v \in Nat \ {0} /\ 2 * v - 1 <= 2 * v
  BY FS_CardinalityType, VisitsAreCounted
<1>1. \/ row = NoRow \/ row = Absent
      \/ row = Present(Nth(T, 2 * v - 1), Nth(T, 2 * v))
      \/ row = Present(Nth(T, 1), 0)
      \/ row = Present(Nth(T, 1), Nth(T, n)) /\ n > 1
  BY <1>a DEF DerivedRows
<1>2. CASE row = NoRow \/ row = Absent
  BY <1>2, PlainRows DEF Ordered
<1>3. CASE row = Present(Nth(T, 2 * v - 1), Nth(T, 2 * v))
  <2>1. /\ Nth(T, 2 * v - 1) \in Nat /\ Nth(T, 2 * v) \in Nat
        /\ Nth(T, 2 * v) > 0 => 0 < Nth(T, 2 * v - 1) /\ Nth(T, 2 * v - 1) <= Nth(T, 2 * v)
    BY <1>0, NthOrdered
  <2> QED
    BY <1>3, <2>1, PresentRow DEF Ordered
<1>4. CASE row = Present(Nth(T, 1), 0)
  <2>1. Nth(T, 1) \in Nat /\ 0 \in Nat
    BY NthOrdered
  <2>2. row \in Row /\ row.manual = FALSE
    BY <1>4, <2>1, PresentRow
  <2>3. row.out = 0
    BY <1>4, <2>1, PresentRow
  <2>4. Ordered(row)
    BY <2>3 DEF Ordered
  <2> QED
    BY <2>2, <2>4
<1>5. CASE row = Present(Nth(T, 1), Nth(T, n)) /\ n > 1
  <2>1. n \in Nat \ {0} /\ 1 <= n
    BY <1>0, <1>5
  <2>2. /\ Nth(T, 1) \in Nat /\ Nth(T, n) \in Nat
        /\ Nth(T, n) > 0 => 0 < Nth(T, 1) /\ Nth(T, 1) <= Nth(T, n)
    BY <2>1, NthOrdered
  <2> QED
    BY <1>5, <2>2, PresentRow DEF Ordered
<1> QED
  BY <1>1, <1>2, <1>3, <1>4, <1>5

\* A rebuild leaves corrections as they are, and the others ordered.
LEMMA ComputedAreOrdered ==
    ASSUME NEW d, NEW recs \in SUBSET Record, NEW old \in [Visits -> Row], NEW v \in Visits
    PROVE  /\ ComputedRows(d, old, recs)[v] \in Row
           /\ old[v].manual => ComputedRows(d, old, recs)[v] = old[v]
           /\ old[v].manual = FALSE => ComputedRows(d, old, recs)[v].manual = FALSE
           /\ Ordered(old[v]) => Ordered(ComputedRows(d, old, recs)[v])
<1> DEFINE T == AttendedTimes(d, recs)
<1>a. PICK row : row = ComputedRows(d, old, recs)[v]
  OBVIOUS
<1> SUFFICES /\ row \in Row
             /\ old[v].manual => row = old[v]
             /\ old[v].manual = FALSE => row.manual = FALSE
             /\ Ordered(old[v]) => Ordered(row)
  BY <1>a
<1>0. old[v] \in Row /\ old[v].manual \in BOOLEAN
  BY DEF Row
<1>1. DerivedRows(T)[v] \in Row /\ DerivedRows(T)[v].manual = FALSE /\ Ordered(DerivedRows(T)[v])
  BY AttendedAreTimes, DerivedAreOrdered
<1>2. /\ old[v].manual => row = old[v]
      /\ ~ old[v].manual => row = NoRow \/ row = DerivedRows(T)[v]
  BY <1>a DEF ComputedRows
<1> HIDE DEF T
<1>3. CASE old[v].manual
  BY <1>0, <1>2, <1>3
<1>4. CASE ~ old[v].manual
  <2>1. Ordered(NoRow) /\ NoRow \in Row /\ NoRow.manual = FALSE
    BY PlainRows DEF Ordered
  <2>2. row \in Row /\ row.manual = FALSE /\ Ordered(row)
    BY <1>1, <1>2, <1>4, <2>1, Zenon
  <2> QED
    BY <1>4, <2>2
<1> QED
  BY <1>3, <1>4

\* What a rebuild does to one row.
RowRebuilt(old, new) ==
    /\ new \in Row
    /\ Kept(old, new)
    /\ old.manual = FALSE => new.manual = FALSE
    /\ Ordered(old) => Ordered(new)

\* Rows that were computed for the rows that are still stored.
ComputedFor(old, new) ==
    \A v \in Visits :
        /\ new[v] \in Row
        /\ old[v].manual => new[v] = old[v]
        /\ old[v].manual = FALSE => new[v].manual = FALSE
        /\ Ordered(old[v]) => Ordered(new[v])

LEMMA SavedAreRebuilt ==
    ASSUME NEW old \in [Visits -> Row], NEW new \in [Visits -> Row], ComputedFor(old, new)
    PROVE  /\ SavedRows(old, old, new) \in [Visits -> Row]
           /\ \A v \in Visits : RowRebuilt(old[v], SavedRows(old, old, new)[v])
<1>1. ASSUME NEW v \in Visits PROVE RowRebuilt(old[v], SavedRows(old, old, new)[v])
  <2>a. PICK row : row = SavedRows(old, old, new)[v]
    OBVIOUS
  <2>b. PICK o, n : o = old[v] /\ n = new[v]
    OBVIOUS
  <2> SUFFICES RowRebuilt(o, row)
    BY <2>a, <2>b
  <2>0. o \in Row /\ n \in Row /\ o.manual \in BOOLEAN
    BY <2>b DEF Row
  <2>1. (o.manual => n = o) /\ (o.manual = FALSE => n.manual = FALSE) /\ (Ordered(o) => Ordered(n))
    BY <2>b DEF ComputedFor
  <2>2. IF n # NoRow THEN row = n ELSE row = NoRow
    BY <2>a, <2>b DEF SavedRows
  <2>3. NoRow \in Row /\ NoRow.manual = FALSE /\ Ordered(NoRow)
    BY PlainRows DEF Ordered
  <2>4. CASE o.manual
    <3>1. n # NoRow
      BY <2>1, <2>3, <2>4
    <3>2. row = o
      BY <2>1, <2>2, <2>4, <3>1
    <3>3. Kept(o, o)
      BY DEF Kept
    <3> QED
      BY <2>0, <3>2, <3>3 DEF RowRebuilt
  <2>5. CASE ~ o.manual
    <3>1. row \in Row /\ (Ordered(o) => Ordered(row))
      BY <2>0, <2>1, <2>2, <2>3
    <3>2. o.manual = FALSE => row.manual = FALSE
      BY <2>1, <2>2, <2>3
    <3>3. Kept(o, row)
      BY <2>5 DEF Kept
    <3> QED
      BY <3>1, <3>2, <3>3 DEF RowRebuilt
  <2> QED
    BY <2>4, <2>5
<1>2. SavedRows(old, old, new) \in [Visits -> Row]
  <2>1. \A v \in Visits : SavedRows(old, old, new)[v] \in Row
    BY <1>1 DEF RowRebuilt
  <2>2. SavedRows(old, old, new) = [v \in Visits |-> SavedRows(old, old, new)[v]]
    BY DEF SavedRows
  <2> QED
    BY <2>1, <2>2
<1> QED
  BY <1>1, <1>2

LEMMA ComputedForStored ==
    ASSUME NEW d, NEW recs \in SUBSET Record, NEW old \in [Visits -> Row]
    PROVE  /\ ComputedRows(d, old, recs) \in [Visits -> Row]
           /\ ComputedFor(old, ComputedRows(d, old, recs))
<1>1. ComputedFor(old, ComputedRows(d, old, recs))
  BY ComputedAreOrdered DEF ComputedFor
<1>2. ComputedRows(d, old, recs) = [v \in Visits |-> ComputedRows(d, old, recs)[v]]
  BY DEF ComputedRows
<1>3. \A v \in Visits : ComputedRows(d, old, recs)[v] \in Row
  BY <1>1 DEF ComputedFor
<1> QED
  BY <1>1, <1>2, <1>3

LEMMA RecomputedAreRebuilt ==
    ASSUME NEW d \in Days, NEW recs \in SUBSET Record, sessions \in [Days -> [Visits -> Row]]
    PROVE  /\ Recomputed(d, recs) \in [Visits -> Row]
           /\ \A v \in Visits : RowRebuilt(sessions[d][v], Recomputed(d, recs)[v])
<1>1. sessions[d] \in [Visits -> Row]
  OBVIOUS
<1> QED
  BY <1>1, ComputedForStored, SavedAreRebuilt DEF Recomputed

-----------------------------------------------------------------------------
(* The invariant. *)

TypeOK ==
    /\ now \in Times
    /\ mode \in AllModes
    /\ records \in SUBSET Record
    /\ sessions \in [Days -> [Visits -> Row]]
    /\ pc \in [Requests -> {"idle", "recent", "session", "previous", "decide", "edit", "records", "save"}]
    /\ at \in [Scanners -> Nat]
    /\ behavior \in [Scanners -> AllBehaviors]
    /\ cooling \in [Scanners -> BOOLEAN]
    /\ day \in [Requests -> Nat]
    /\ visit \in [Scanners \cup Editors -> Nat]
    /\ view \in [Scanners \cup Editors -> Row]
    /\ snap \in [Reporters -> [Visits -> Row]]
    /\ rows \in [Reporters -> [Visits -> Row]]
    /\ posts \in Nat /\ voids \in Nat
    /\ part \in {"single", "overlap"}
    /\ IsFiniteSet(InFlight)

\* Each request is at a step of its own kind, with what it has read so far.
StepsOK ==
    /\ \A s \in Scanners :
          /\ pc[s] \in {"idle", "recent", "session", "previous", "decide"}
          /\ pc[s] # "idle" => at[s] \in Times
          /\ pc[s] = "previous" => Day(at[s]) > 1
          /\ pc[s] \in {"previous", "decide"} => day[s] \in Days
    /\ \A e \in Editors :
          /\ pc[e] \in {"idle", "edit"}
          /\ pc[e] = "edit" => day[e] \in Days /\ visit[e] \in Visits
    /\ \A r \in Reporters :
          /\ pc[r] \in {"idle", "records", "save"}
          /\ pc[r] # "idle" => day[r] \in Days

\* Overlapping scans find no correction.
NoneCorrected ==
    /\ voids = 0
    /\ \A r \in Editors \cup Reporters : pc[r] = "idle"
    /\ \A d \in Days, v \in Visits : sessions[d][v].manual = FALSE

\* A scan has loaded no row of a day without any, or one that is stored, the last
\* of the day if there may be several.
ScanLoaded(s) ==
    \/ visit[s] = 0 /\ view[s] = NoRow /\ \A v \in Visits : sessions[day[s]][v] = NoRow
    \/ /\ visit[s] \in Visits
       /\ view[s] = sessions[day[s]][visit[s]]
       /\ mode = "visits" => \A v \in Visits : v > visit[s] => sessions[day[s]][v] = NoRow

\* What the one request in progress has read is what is stored.
LoadedIsStored ==
    /\ \A s \in Scanners : pc[s] \in {"previous", "decide"} => ScanLoaded(s)
    /\ \A e \in Editors : pc[e] = "edit" => view[e] = sessions[day[e]][visit[e]]
    /\ \A r \in Reporters : pc[r] # "idle" => snap[r] = sessions[day[r]]
    /\ \A r \in Reporters : pc[r] = "save" => ComputedFor(snap[r], rows[r])

OneAtATime == \A q, r \in Requests : pc[q] # "idle" /\ pc[r] # "idle" => q = r

Inv ==
    /\ TypeOK
    /\ StepsOK
    /\ part = "overlap" => NoneCorrected
    /\ part = "single" => OneAtATime /\ LoadedIsStored /\ VisitsOrdered

LEMMA InitialInv == MCInit => Inv
<1> SUFFICES ASSUME MCInit PROVE Inv
  OBVIOUS
<1> USE DEF MCInit, Init
<1>1. InFlight = {}
  BY DEF InFlight
<1>2. NoRow \in Row /\ NoRow.manual = FALSE /\ NoRow.out = 0 /\ NoRows \in [Visits -> Row]
  BY PlainRows DEF NoRows
<1>3. TypeOK
  <2>1. now \in Times /\ mode \in AllModes /\ records \in SUBSET Record
    BY TimesAreCounted, ConstantsAssumption DEF AllModes
  <2>2. /\ sessions \in [Days -> [Visits -> Row]]
        /\ snap \in [Reporters -> [Visits -> Row]] /\ rows \in [Reporters -> [Visits -> Row]]
        /\ view \in [Scanners \cup Editors -> Row]
    BY <1>2
  <2>3. /\ pc \in [Requests -> {"idle", "recent", "session", "previous", "decide", "edit", "records", "save"}]
        /\ at \in [Scanners -> Nat] /\ behavior \in [Scanners -> AllBehaviors]
        /\ cooling \in [Scanners -> BOOLEAN] /\ day \in [Requests -> Nat]
        /\ visit \in [Scanners \cup Editors -> Nat] /\ posts \in Nat /\ voids \in Nat
        /\ part \in {"single", "overlap"}
    BY DEF AllBehaviors
  <2>4. IsFiniteSet(InFlight)
    BY <1>1, FS_EmptySet
  <2> QED
    BY <2>1, <2>2, <2>3, <2>4 DEF TypeOK
<1>4. \A r \in Requests : pc[r] = "idle"
  OBVIOUS
<1>5. StepsOK /\ OneAtATime /\ LoadedIsStored
  BY <1>4 DEF StepsOK, OneAtATime, LoadedIsStored, Requests
<1>6. \A d \in Days, v \in Visits : sessions[d][v] = NoRow
  BY DEF NoRows
<1>7. NoneCorrected
  BY <1>2, <1>4, <1>6 DEF NoneCorrected, Requests
<1>8. VisitsOrdered
  BY <1>2, <1>6 DEF VisitsOrdered
<1> QED
  BY <1>3, <1>5, <1>7, <1>8 DEF Inv

\* One request at a time is one at most.
LEMMA OneIsLeft ==
    ASSUME TypeOK, TypeOK', MCNext
    PROVE  part = "single" => OneAtATime'
<1> SUFFICES ASSUME part = "single", NEW q \in Requests, NEW r \in Requests,
                    pc'[q] # "idle", pc'[r] # "idle", q # r
             PROVE  FALSE
  BY DEF OneAtATime
<1>1. IsFiniteSet(InFlight') /\ Cardinality(InFlight') <= 1
  BY DEF TypeOK, MCNext
<1>2. q \in InFlight' /\ r \in InFlight'
  BY DEF InFlight
<1>3. IsFiniteSet(InFlight' \ {q}) /\ Cardinality(InFlight' \ {q}) = Cardinality(InFlight') - 1
      /\ Cardinality(InFlight') \in Nat /\ Cardinality(InFlight' \ {q}) \in Nat
  BY <1>1, <1>2, FS_RemoveElement, FS_CardinalityType
<1>4. Cardinality(InFlight' \ {q}) = 0
  BY <1>1, <1>3
<1>5. InFlight' \ {q} = {}
  BY <1>3, <1>4, FS_EmptySet
<1> QED
  BY <1>2, <1>5

LEMMA FlightIsFinite ==
    ASSUME NEW r \in Requests, NEW where, IsFiniteSet(InFlight),
           pc \in [Requests -> {"idle", "recent", "session", "previous", "decide", "edit", "records", "save"}],
           pc' = [pc EXCEPT ![r] = where]
    PROVE  IsFiniteSet(InFlight')
<1>1. IsFiniteSet(InFlight \cup {r})
  BY FS_AddElement
<1>2. InFlight' \in SUBSET (InFlight \cup {r})
  BY DEF InFlight
<1> QED
  BY <1>1, <1>2, FS_Subset

\* The row a scan or an editor leaves.
LEMMA MergedRow ==
    ASSUME NEW loaded \in Row, NEW want \in Row, NEW live \in Row
    PROVE  /\ Merge(loaded, want, live) \in Row
           /\ want.manual = FALSE /\ live.manual = FALSE => Merge(loaded, want, live).manual = FALSE
<1>a. PICK row : row = Merge(loaded, want, live)
  OBVIOUS
<1> SUFFICES row \in Row /\ (want.manual = FALSE /\ live.manual = FALSE => row.manual = FALSE)
  BY <1>a
<1>1. CASE live = NoRow
  BY <1>1, <1>a DEF Merge
<1>2. CASE live # NoRow /\ loaded = NoRow
  <2>1. row = [want EXCEPT !.manual = live.manual]
    BY <1>2, <1>a DEF Merge
  <2> QED
    BY <2>1 DEF Row
<1>3. CASE live # NoRow /\ loaded # NoRow
  <2>1. row = [live EXCEPT
                  !.status = IF want.status # loaded.status THEN want.status ELSE @,
                  !.in = IF want.in # loaded.in THEN want.in ELSE @,
                  !.out = IF want.out # loaded.out THEN want.out ELSE @]
    BY <1>3, <1>a DEF Merge
  <2>2. PICK st, i, o : /\ st = (IF want.status # loaded.status THEN want.status ELSE live.status)
                        /\ i = (IF want.in # loaded.in THEN want.in ELSE live.in)
                        /\ o = (IF want.out # loaded.out THEN want.out ELSE live.out)
    OBVIOUS
  <2>3. st \in {"none", "absent", "present"} /\ i \in Nat /\ o \in Nat
    BY <2>2 DEF Row
  <2>4. row = [live EXCEPT !.status = st, !.in = i, !.out = o]
    BY <2>1, <2>2
  <2>5. row = [status |-> st, in |-> i, out |-> o, manual |-> live.manual]
    BY <2>4 DEF Row
  <2>6. row \in Row
    BY <2>3, <2>5 DEF Row
  <2>7. row.manual = live.manual
    BY <2>5
  <2> QED
    BY <2>6, <2>7
<1> QED
  BY <1>1, <1>2, <1>3

LEMMA KindsOfRequests ==
    /\ Scanners \subseteq Requests /\ Editors \subseteq Requests /\ Reporters \subseteq Requests
    /\ \A s \in Scanners : s \notin Editors /\ s \notin Reporters
    /\ \A e \in Editors : e \notin Scanners /\ e \notin Reporters
    /\ \A r \in Reporters : r \notin Scanners /\ r \notin Editors
BY ConstantsAssumption DEF Requests

\* The last and the first visit of a day that has any.
LEMMA VisitsAreFound ==
    ASSUME NEW d, StoredVisits(d) # {}
    PROVE  /\ LastVisit(d) \in StoredVisits(d) /\ \A w \in StoredVisits(d) : w <= LastVisit(d)
           /\ FirstVisit(d) \in StoredVisits(d)
<1>1. StoredVisits(d) \in SUBSET (0 .. MaxVisits) /\ MaxVisits \in Nat /\ StoredVisits(d) \in SUBSET Nat
  BY ConstantsAssumption DEF StoredVisits, Visits
<1>2. \E m \in StoredVisits(d) : \A n \in StoredVisits(d) : n <= m
  BY <1>1, MaxExists
<1>3. \E m \in StoredVisits(d) : \A n \in StoredVisits(d) : m <= n
  BY <1>1, MinExists
<1> QED
  BY <1>2, <1>3 DEF LastVisit, FirstVisit

LEMMA StoredRows ==
    ASSUME NEW d, NEW v \in StoredVisits(d)
    PROVE  v \in Visits /\ sessions[d][v] # NoRow
BY DEF StoredVisits

\* The steps of a request that store nothing.
LEMMA ScanStepsTyped ==
    ASSUME TypeOK, StepsOK, UNCHANGED part, NEW s \in Scanners,
           BeginScan(s) \/ ReadRecent(s) \/ ReadSession(s) \/ ReadPrevious(s) \/ Reject(s)
    PROVE  TypeOK' /\ StepsOK'
<1>0. s \in Requests /\ s \notin Editors /\ s \notin Reporters /\ s \in Scanners \cup Editors
  BY KindsOfRequests
<1>a. NoRow \in Row /\ 0 \in Nat /\ "automatic" \in AllBehaviors
  BY PlainRows DEF AllBehaviors
<1>b. Days \subseteq Nat /\ Times \subseteq Nat /\ Visits \subseteq Nat
  BY TimesAreCounted, VisitsAreCounted DEF Days
<1>c. pc[s] # "idle" => at[s] \in Times /\ Day(at[s]) \in Days
  BY TimesAreCounted DEF StepsOK
<1>1. CASE BeginScan(s)
  <2>1. now' \in Times /\ now \in Times /\ \A b \in Behaviors : b \in AllBehaviors
    BY <1>1, ConstantsAssumption DEF BeginScan, TypeOK, Times
  <2>2. IsFiniteSet(InFlight')
    BY <1>0, <1>1, FlightIsFinite DEF BeginScan, TypeOK
  <2>3. TypeOK'
    BY <1>0, <1>1, <1>b, <2>1, <2>2
    DEF BeginScan, TypeOK, rule, store, loadVars, reportVars, counts
  <2>4. StepsOK'
    BY <1>0, <1>1, <2>1 DEF BeginScan, TypeOK, StepsOK, loadVars
  <2> QED
    BY <2>3, <2>4
<1>2. CASE ReadRecent(s)
  <2>2. IsFiniteSet(InFlight')
    BY <1>0, <1>2, FlightIsFinite DEF ReadRecent, TypeOK
  <2>3. TypeOK'
    BY <1>0, <1>2, <2>2
    DEF ReadRecent, TypeOK, rule, store, loadVars, reportVars, counts
  <2>4. StepsOK'
    BY <1>0, <1>2 DEF ReadRecent, TypeOK, StepsOK, loadVars
  <2> QED
    BY <2>3, <2>4
<1>3. CASE Reject(s)
  <2>2. IsFiniteSet(InFlight')
    BY <1>0, <1>3, FlightIsFinite DEF Reject, ScanEnds, TypeOK
  <2>3. TypeOK'
    BY <1>0, <1>3, <1>a, <2>2
    DEF Reject, ScanEnds, Loaded, TypeOK, rule, store, reportVars, counts
  <2>4. StepsOK'
    BY <1>0, <1>3 DEF Reject, ScanEnds, Loaded, TypeOK, StepsOK
  <2> QED
    BY <2>3, <2>4
<1>4. CASE ReadSession(s)
  <2>a. PICK v : v = IF StoredVisits(Day(at[s])) = {} THEN 0
                     ELSE IF mode = "visits" THEN LastVisit(Day(at[s])) ELSE FirstVisit(Day(at[s]))
    OBVIOUS
  <2>b. PICK row : row = IF v = 0 THEN NoRow ELSE sessions[Day(at[s])][v]
    OBVIOUS
  <2>1. /\ Loaded(s, Day(at[s]), v, row)
        /\ pc' = [pc EXCEPT ![s] =
              IF behavior[s] # "entry_only" /\ row.in = 0 /\ Day(at[s]) > 1
              THEN "previous" ELSE "decide"]
    BY <1>4, <2>a, <2>b DEF ReadSession
  <2>2. pc[s] = "session" /\ UNCHANGED <<now, rule, store, scanVars, reportVars, counts>>
    BY <1>4 DEF ReadSession
  <2>3. v = 0 \/ v \in Visits
    BY <2>a, VisitsAreFound, StoredRows
  <2>4. v \in Nat /\ row \in Row
    BY <1>a, <1>b, <1>c, <2>2, <2>3, <2>b DEF TypeOK
  <2>5. (pc' = [pc EXCEPT ![s] = "previous"] /\ Day(at[s]) > 1) \/ pc' = [pc EXCEPT ![s] = "decide"]
    BY <2>1
  <2>6. IsFiniteSet(InFlight')
    BY <1>0, <2>5, FlightIsFinite DEF TypeOK
  <2>7. TypeOK'
    BY <1>0, <1>b, <1>c, <2>1, <2>2, <2>4, <2>5, <2>6
    DEF Loaded, TypeOK, rule, store, scanVars, reportVars, counts
  <2>8. StepsOK'
    <3>1. /\ \A r \in Requests : r # s => pc'[r] = pc[r] /\ day'[r] = day[r]
          /\ pc'[s] \in {"previous", "decide"} /\ day'[s] = Day(at[s])
          /\ pc'[s] = "previous" => Day(at[s]) > 1
      BY <1>0, <2>1, <2>5 DEF Loaded, TypeOK
    <3>2. /\ \A r \in Scanners \cup Editors : r # s => visit'[r] = visit[r]
          /\ at' = at
      BY <1>0, <2>1, <2>2 DEF Loaded, TypeOK, scanVars
    <3> QED
      BY <1>0, <1>c, <2>2, <3>1, <3>2, KindsOfRequests DEF StepsOK
  <2> QED
    BY <2>7, <2>8
<1>5. CASE ReadPrevious(s)
  <2>1. PICK before : before = Day(at[s]) - 1
    OBVIOUS
  <2>2. /\ pc[s] = "previous" /\ pc' = [pc EXCEPT ![s] = "decide"]
        /\ UNCHANGED <<now, rule, store, scanVars, reportVars, counts>>
        /\ \/ StoredVisits(before) # {}
              /\ Loaded(s, before, LastVisit(before), sessions[before][LastVisit(before)])
           \/ UNCHANGED loadVars
    BY <1>5, <2>1 DEF ReadPrevious
  <2>3. before \in Days /\ before \in Nat
    <3>1. Day(at[s]) \in Days /\ Day(at[s]) > 1
      BY <1>c, <2>2 DEF StepsOK
    <3> QED
      BY <2>1, <3>1, TimesAreCounted DEF Days
  <2>4. StoredVisits(before) # {} =>
            LastVisit(before) \in Nat /\ sessions[before][LastVisit(before)] \in Row
    BY <1>b, <2>3, VisitsAreFound, StoredRows DEF TypeOK
  <2>6. IsFiniteSet(InFlight')
    BY <1>0, <2>2, FlightIsFinite DEF TypeOK
  <2>5. \/ Loaded(s, day'[s], visit'[s], view'[s]) /\ day'[s] = before
           /\ visit'[s] \in Nat /\ view'[s] \in Row
        \/ UNCHANGED loadVars
    BY <1>0, <2>2, <2>4 DEF Loaded, TypeOK
  <2>7. TypeOK'
    <3>1. /\ day' \in [Requests -> Nat] /\ visit' \in [Scanners \cup Editors -> Nat]
          /\ view' \in [Scanners \cup Editors -> Row]
      <4>1. CASE UNCHANGED loadVars
        BY <4>1 DEF TypeOK, loadVars
      <4>2. CASE ~ UNCHANGED loadVars
        <5>1. PICK v, row : Loaded(s, before, v, row) /\ v \in Nat /\ row \in Row
          BY <2>2, <2>4, <4>2
        <5> QED
          BY <1>0, <2>3, <5>1 DEF Loaded, TypeOK
      <4> QED
        BY <4>1, <4>2
    <3> QED
      BY <1>0, <2>2, <2>6, <3>1 DEF TypeOK, rule, store, scanVars, reportVars, counts
  <2>8. StepsOK'
    <3>1. day'[s] \in Days /\ \A r \in Requests \ {s} : day'[r] = day[r]
      BY <1>0, <2>2, <2>3, <2>5 DEF Loaded, TypeOK, StepsOK, loadVars
    <3>2. \A e \in Editors : visit'[e] = visit[e]
      BY <1>0, <2>2 DEF Loaded, TypeOK, loadVars
    <3> QED
      BY <1>0, <2>2, <3>1, <3>2, KindsOfRequests DEF TypeOK, StepsOK, scanVars
  <2> QED
    BY <2>7, <2>8
<1> QED
  BY <1>1, <1>2, <1>3, <1>4, <1>5

LEMMA EditStepsTyped ==
    ASSUME TypeOK, StepsOK, UNCHANGED part, NEW e \in Editors, ReadVisit(e) \/ OverrideFails(e)
    PROVE  TypeOK' /\ StepsOK'
<1>0. e \in Requests /\ e \notin Scanners /\ e \notin Reporters /\ e \in Scanners \cup Editors
  BY KindsOfRequests
<1>a. NoRow \in Row /\ 0 \in Nat
  BY PlainRows
<1>b. Days \subseteq Nat /\ Times \subseteq Nat /\ Visits \subseteq Nat
  BY TimesAreCounted, VisitsAreCounted DEF Days
<1>1. CASE ReadVisit(e)
  <2>1. PICK d \in 1 .. Day(now), v \in Visits : Loaded(e, d, v, sessions[d][v])
    BY <1>1 DEF ReadVisit
  <2>2. d \in Days /\ d \in Nat
    BY TimesAreCounted DEF TypeOK, Days
  <2>3. v \in Nat /\ sessions[d][v] \in Row
    BY <1>b, <2>2 DEF TypeOK
  <2>4. pc' = [pc EXCEPT ![e] = "edit"] /\ UNCHANGED <<now, rule, store, scanVars, reportVars, posts, voids>>
    BY <1>1 DEF ReadVisit
  <2>5. IsFiniteSet(InFlight')
    BY <1>0, <2>4, FlightIsFinite DEF TypeOK
  <2>6. TypeOK'
    BY <1>0, <2>1, <2>2, <2>3, <2>4, <2>5 DEF Loaded, TypeOK, rule, store, scanVars, reportVars
  <2>7. StepsOK'
    BY <1>0, <2>1, <2>2, <2>4 DEF Loaded, TypeOK, StepsOK, scanVars
  <2> QED
    BY <2>6, <2>7
<1>2. CASE OverrideFails(e)
  <2>4. /\ pc' = [pc EXCEPT ![e] = "idle"] /\ Loaded(e, 0, 0, NoRow)
        /\ UNCHANGED <<now, rule, store, scanVars, reportVars, counts>>
    BY <1>2 DEF OverrideFails, EditEnds
  <2>5. IsFiniteSet(InFlight')
    BY <1>0, <2>4, FlightIsFinite DEF TypeOK
  <2>6. TypeOK'
    BY <1>0, <1>a, <2>4, <2>5 DEF Loaded, TypeOK, rule, store, scanVars, reportVars, counts
  <2>7. StepsOK'
    BY <1>0, <2>4 DEF Loaded, TypeOK, StepsOK, scanVars
  <2> QED
    BY <2>6, <2>7
<1> QED
  BY <1>1, <1>2

LEMMA ReportStepsTyped ==
    ASSUME TypeOK, StepsOK, UNCHANGED part, NEW r \in Reporters,
           ReadRows(r) \/ ReportAsStored(r) \/ ReadRecords(r)
    PROVE  TypeOK' /\ StepsOK'
<1>0. r \in Requests /\ r \notin Scanners /\ r \notin Editors
  BY KindsOfRequests
<1>a. NoRows \in [Visits -> Row] /\ 0 \in Nat
  BY PlainRows DEF NoRows
<1>1. CASE ReadRows(r)
  <2>1. PICK d \in 1 .. Day(now) : /\ day' = [day EXCEPT ![r] = d]
                                   /\ snap' = [snap EXCEPT ![r] = sessions[d]]
    BY <1>1 DEF ReadRows
  <2>2. d \in Days /\ d \in Nat
    BY TimesAreCounted DEF TypeOK, Days
  <2>4. /\ pc' = [pc EXCEPT ![r] = "records"]
        /\ UNCHANGED <<now, rule, store, scanVars, visit, view, rows, counts>>
    BY <1>1 DEF ReadRows
  <2>5. IsFiniteSet(InFlight')
    BY <1>0, <2>4, FlightIsFinite DEF TypeOK
  <2>6. TypeOK'
    BY <1>0, <2>1, <2>2, <2>4, <2>5 DEF TypeOK, rule, store, scanVars, counts
  <2>7. StepsOK'
    BY <1>0, <2>1, <2>2, <2>4 DEF TypeOK, StepsOK, scanVars
  <2> QED
    BY <2>6, <2>7
<1>2. CASE ReportAsStored(r)
  <2>4. /\ pc' = [pc EXCEPT ![r] = "idle"] /\ day' = [day EXCEPT ![r] = 0]
        /\ snap' = [snap EXCEPT ![r] = NoRows] /\ rows' = [rows EXCEPT ![r] = NoRows]
        /\ UNCHANGED <<now, rule, store, scanVars, visit, view, counts>>
    BY <1>2 DEF ReportAsStored, ReportEnds
  <2>5. IsFiniteSet(InFlight')
    BY <1>0, <2>4, FlightIsFinite DEF TypeOK
  <2>6. TypeOK'
    BY <1>0, <1>a, <2>4, <2>5 DEF TypeOK, rule, store, scanVars, counts
  <2>7. StepsOK'
    BY <1>0, <2>4 DEF TypeOK, StepsOK, scanVars
  <2> QED
    BY <2>6, <2>7
<1>3. CASE ReadRecords(r)
  <2>3. ComputedRows(day[r], snap[r], records) \in [Visits -> Row]
    BY ComputedForStored DEF TypeOK
  <2>4. /\ pc' = [pc EXCEPT ![r] = "save"] /\ pc[r] = "records"
        /\ rows' = [rows EXCEPT ![r] = ComputedRows(day[r], snap[r], records)]
        /\ UNCHANGED <<now, rule, store, scanVars, loadVars, snap, counts>>
    BY <1>3 DEF ReadRecords
  <2>5. IsFiniteSet(InFlight')
    BY <1>0, <2>4, FlightIsFinite DEF TypeOK
  <2>6. TypeOK'
    BY <1>0, <2>3, <2>4, <2>5 DEF TypeOK, rule, store, scanVars, loadVars, counts
  <2>7. StepsOK'
    BY <1>0, <2>4 DEF TypeOK, StepsOK, scanVars, loadVars
  <2> QED
    BY <2>6, <2>7
<1> QED
  BY <1>1, <1>2, <1>3

\* A request that stores ends, with rows of their type stored.
LEMMA StoresTyped ==
    ASSUME TypeOK, StepsOK, UNCHANGED <<part, now, rule>>, NEW r \in Requests,
           pc' = [pc EXCEPT ![r] = "idle"],
           records' \in SUBSET Record, sessions' \in [Days -> [Visits -> Row]],
           UNCHANGED counts,
           \/ r \in Scanners /\ ScanEnds(r) /\ UNCHANGED reportVars
           \/ r \in Editors /\ EditEnds(r) /\ UNCHANGED <<scanVars, reportVars>>
           \/ r \in Reporters /\ ReportEnds(r) /\ UNCHANGED <<scanVars, visit, view>>
    PROVE  TypeOK' /\ StepsOK'
<1>0. IsFiniteSet(InFlight')
  BY FlightIsFinite DEF TypeOK
<1>a. /\ NoRow \in Row /\ 0 \in Nat /\ "automatic" \in AllBehaviors
      /\ NoRows \in [Visits -> Row]
  BY PlainRows DEF AllBehaviors, NoRows
<1>1. CASE r \in Scanners /\ ScanEnds(r) /\ UNCHANGED reportVars
  <2>1. TypeOK'
    BY <1>0, <1>1, <1>a DEF ScanEnds, Loaded, TypeOK, rule, reportVars, counts
  <2>2. StepsOK'
    BY <1>1, KindsOfRequests DEF ScanEnds, Loaded, TypeOK, StepsOK
  <2> QED
    BY <2>1, <2>2
<1>2. CASE r \in Editors /\ EditEnds(r) /\ UNCHANGED <<scanVars, reportVars>>
  <2>1. TypeOK'
    BY <1>0, <1>2, <1>a DEF EditEnds, Loaded, TypeOK, rule, scanVars, reportVars, counts
  <2>2. StepsOK'
    BY <1>2, KindsOfRequests DEF EditEnds, Loaded, TypeOK, StepsOK, scanVars
  <2> QED
    BY <2>1, <2>2
<1>3. CASE r \in Reporters /\ ReportEnds(r) /\ UNCHANGED <<scanVars, visit, view>>
  <2>1. TypeOK'
    BY <1>0, <1>3, <1>a DEF ReportEnds, TypeOK, rule, scanVars, counts
  <2>2. StepsOK'
    BY <1>3, KindsOfRequests DEF ReportEnds, TypeOK, StepsOK, scanVars
  <2> QED
    BY <2>1, <2>2
<1> QED
  BY <1>1, <1>2, <1>3

-----------------------------------------------------------------------------
(* What is stored. *)

AllKept == \A d \in Days, v \in Visits : Kept(sessions[d][v], sessions'[d][v])

\* A row that is written over the one that was loaded has what was wanted.
LEMMA MergedOverLoaded ==
    ASSUME NEW want \in Row, NEW live \in Row
    PROVE  /\ Merge(live, want, live).in = want.in
           /\ Merge(live, want, live).out = want.out
           /\ live # NoRow => Merge(live, want, live).manual = live.manual
           /\ \A loaded : Merge(loaded, want, NoRow) = want
<1>1. \A loaded : Merge(loaded, want, NoRow) = want
  BY DEF Merge
<1>2. CASE live = NoRow
  BY <1>1, <1>2
<1>3. CASE live # NoRow
  <2>1. Merge(live, want, live) = [live EXCEPT
            !.status = IF want.status # live.status THEN want.status ELSE @,
            !.in = IF want.in # live.in THEN want.in ELSE @,
            !.out = IF want.out # live.out THEN want.out ELSE @]
    BY <1>3 DEF Merge
  <2>2. Merge(live, want, live) = [live EXCEPT !.status = want.status, !.in = want.in, !.out = want.out]
    BY <2>1
  <2>3. Merge(live, want, live) =
            [status |-> want.status, in |-> want.in, out |-> want.out, manual |-> live.manual]
    BY <2>2 DEF Row
  <2> QED
    BY <1>1, <2>3
<1> QED
  BY <1>2, <1>3

\* The row a scan leaves where nothing was changed since it read.
LEMMA ScanLeavesOrdered ==
    ASSUME NEW s \in Scanners, NEW live \in Row, Ordered(live),
           at[s] \in Nat \ {0}, mode \in AllModes,
           ~ Rejected(s), Normalized(ScannedRow(s)), view[s] \in Row,
           NEW loaded, loaded = IF NextVisit(s) THEN NoRow ELSE view[s],
           live = NoRow \/ (~ NextVisit(s) /\ live = view[s]),
           live = NoRow => ~ CheckedIn(s) \/ NextVisit(s)
    PROVE  Ordered(Merge(loaded, ScannedRow(s), live)) /\ Kept(live, Merge(loaded, ScannedRow(s), live))
<1>0. at[s] \in Nat /\ at[s] > 0 /\ view[s].in \in Nat /\ view[s].out \in Nat
  BY DEF Row
<1>1. PICK want : want = ScannedRow(s)
  OBVIOUS
<1>2. /\ CheckedIn(s) /\ ~ NextVisit(s) => want = Present(view[s].in, at[s])
      /\ ~ (CheckedIn(s) /\ ~ NextVisit(s)) => want = Present(at[s], 0)
  BY <1>1 DEF ScannedRow
<1>b. /\ Present(view[s].in, at[s]) \in Row
      /\ Present(view[s].in, at[s]).in = view[s].in /\ Present(view[s].in, at[s]).out = at[s]
  BY <1>0 DEF Present, Row
<1>c. Present(at[s], 0) \in Row /\ Present(at[s], 0).out = 0
  <2>1. 0 \in Nat
    OBVIOUS
  <2> QED
    BY <1>0, <2>1, PresentRow
<1>3. want \in Row
  BY <1>2, <1>b, <1>c
<1>a. PICK row : row = Merge(loaded, want, live)
  OBVIOUS
<1> SUFFICES Ordered(row) /\ Kept(live, row)
  BY <1>1, <1>a
<1>4. CASE live = NoRow
  <2>1. row = want /\ want = Present(at[s], 0)
    BY <1>2, <1>3, <1>4, <1>a, MergedOverLoaded, PlainRows
  <2>2. row.out = 0
    BY <1>c, <2>1
  <2>3. Ordered(row)
    BY <2>2 DEF Ordered
  <2>4. Kept(live, row)
    BY <1>4, PlainRows DEF Kept
  <2> QED
    BY <2>3, <2>4
<1>5. CASE live # NoRow
  <2>1. ~ NextVisit(s) /\ live = view[s] /\ loaded = live
    BY <1>5
  <2>2. row.in = want.in /\ row.out = want.out /\ row.manual = live.manual
    BY <1>3, <1>5, <1>a, <2>1, MergedOverLoaded
  <2>3. CASE CheckedIn(s)
    <3>1. want.in = view[s].in /\ want.out = at[s]
      BY <1>2, <1>b, <2>1, <2>3
    <3>2. view[s].in > 0 /\ view[s].out = 0
      BY <1>0, <2>1, <2>3 DEF CheckedIn, NextVisit, Rejected, DoneVisit, AllModes
    <3>3. view[s].in <= at[s]
      BY <1>0, <1>1, <3>1 DEF Normalized
    <3>4. Ordered(row)
      BY <2>2, <3>1, <3>2, <3>3 DEF Ordered
    <3>5. live.in = view[s].in /\ live.out = 0 /\ row.in = live.in
      BY <2>1, <2>2, <3>1, <3>2
    <3>6. Kept(live, row)
      BY <2>2, <3>5 DEF Kept
    <3> QED
      BY <3>4, <3>6
  <2>4. CASE ~ CheckedIn(s)
    <3>1. want.out = 0
      BY <1>2, <1>c, <2>4
    <3>2. live.in = 0
      BY <1>0, <2>1, <2>4 DEF CheckedIn
    <3>3. live.out = 0
      BY <1>0, <2>1, <3>2 DEF Ordered
    <3>4. Ordered(row)
      BY <2>2, <3>1 DEF Ordered
    <3>5. Kept(live, row)
      BY <2>2, <3>2, <3>3 DEF Kept
    <3> QED
      BY <3>4, <3>5
  <2> QED
    BY <2>3, <2>4
<1> QED
  BY <1>4, <1>5

LEMMA OrderedVisits == VisitsOrdered <=> \A d \in Days, v \in Visits : Ordered(sessions[d][v])
BY DEF VisitsOrdered, Ordered

\* What a step that stores shows of the rows.
RowsStored ==
    /\ records' \in SUBSET Record
    /\ sessions' \in [Days -> [Visits -> Row]]
    /\ part = "overlap" => \A d \in Days, v \in Visits : sessions'[d][v].manual = FALSE
    /\ part = "single" => \A d \in Days, v \in Visits : Ordered(sessions'[d][v])

\* A step that changes one row, and how.
LEMMA OneRowStored ==
    ASSUME Inv, records' \in SUBSET Record, NEW d \in Days, NEW v \in Visits, NEW row \in Row,
           sessions' = [sessions EXCEPT ![d][v] = row],
           part = "overlap" => row.manual = FALSE,
           part = "single" => Ordered(row)
    PROVE  RowsStored /\ (Kept(sessions[d][v], row) => AllKept)
<1>1. sessions \in [Days -> [Visits -> Row]]
  BY DEF Inv, TypeOK
<1>2. sessions' \in [Days -> [Visits -> Row]]
  BY <1>1
<1>3. \A c \in Days, w \in Visits :
          \/ c = d /\ w = v /\ sessions'[c][w] = row
          \/ sessions'[c][w] = sessions[c][w]
  BY <1>1
<1>4. ASSUME part = "overlap", NEW c \in Days, NEW w \in Visits PROVE sessions'[c][w].manual = FALSE
  <2>1. sessions[c][w].manual = FALSE
    BY <1>4 DEF Inv, NoneCorrected
  <2> QED
    BY <1>3, <1>4, <2>1
<1>5. ASSUME part = "single", NEW c \in Days, NEW w \in Visits PROVE Ordered(sessions'[c][w])
  <2>1. Ordered(sessions[c][w])
    BY <1>5, OrderedVisits DEF Inv
  <2> QED
    BY <1>3, <1>5, <2>1
<1>6. ASSUME Kept(sessions[d][v], row) PROVE AllKept
  <2> SUFFICES ASSUME NEW c \in Days, NEW w \in Visits PROVE Kept(sessions[c][w], sessions'[c][w])
    BY DEF AllKept
  <2>1. Kept(sessions[c][w], sessions[c][w])
    BY DEF Kept
  <2> QED
    BY <1>3, <1>6, <2>1
<1> QED
  BY <1>2, <1>4, <1>5, <1>6 DEF RowsStored

LEMMA AcceptStores ==
    ASSUME Inv, NEW s \in Scanners, Accept(s)
    PROVE  RowsStored /\ (part = "single" => AllKept)
<1>0. /\ s \in Scanners \cup Editors /\ pc[s] = "decide" /\ at[s] \in Times /\ day[s] \in Days
      /\ view[s] \in Row /\ mode \in AllModes /\ sessions \in [Days -> [Visits -> Row]]
  BY DEF Accept, Inv, TypeOK, StepsOK
<1>1. PICK d, v, loaded : d = day[s] /\ v = TargetVisit(s) /\ loaded = IF NextVisit(s) THEN NoRow ELSE view[s]
  OBVIOUS
<1>2. /\ ~ Rejected(s) /\ Normalized(ScannedRow(s)) /\ v \in Visits
      /\ records' = records \cup {[time |-> at[s], type |-> ScanType(s), manual |-> FALSE]}
      /\ sessions' = [sessions EXCEPT ![d][v] = Merge(loaded, ScannedRow(s), @)]
  BY <1>1 DEF Accept
<1>3. at[s] \in Nat \ {0} /\ view[s].in \in Nat
  BY <1>0, TimesAreCounted DEF Row
<1>4. records' \in SUBSET Record
  <2>1. ScanType(s) \in {"check_in", "check_out", "untyped"}
    BY DEF ScanType
  <2>2. records \in SUBSET Record
    BY DEF Inv, TypeOK
  <2>3. [time |-> at[s], type |-> ScanType(s), manual |-> FALSE] \in Record
    BY <1>0, <2>1 DEF Record
  <2> QED
    BY <1>2, <2>2, <2>3
<1>5. PICK live : live = sessions[d][v]
  OBVIOUS
<1>6. live \in Row /\ loaded \in Row
  BY <1>0, <1>1, <1>2, <1>5, PlainRows
<1>7. ScannedRow(s) \in Row /\ ScannedRow(s).manual = FALSE
  <2>1. /\ Present(view[s].in, at[s]) \in Row /\ Present(view[s].in, at[s]).manual = FALSE
        /\ Present(at[s], 0) \in Row /\ Present(at[s], 0).manual = FALSE
    BY <1>3 DEF Present, Row
  <2> QED
    BY <2>1 DEF ScannedRow
<1>8. PICK row : row = Merge(loaded, ScannedRow(s), live)
  OBVIOUS
<1>9. row \in Row /\ sessions' = [sessions EXCEPT ![d][v] = row]
  BY <1>2, <1>5, <1>6, <1>7, <1>8, MergedRow
<1>10. part = "overlap" => row.manual = FALSE
  <2>1. part = "overlap" => live.manual = FALSE
    BY <1>0, <1>1, <1>2, <1>5 DEF Inv, NoneCorrected
  <2> QED
    BY <1>6, <1>7, <1>8, <2>1, MergedRow
<1>11. ASSUME part = "single" PROVE Ordered(row) /\ Kept(live, row)
  <2>1. ScanLoaded(s)
    BY <1>0, <1>11 DEF Inv, LoadedIsStored
  <2>2. Ordered(live)
    BY <1>0, <1>1, <1>2, <1>5, <1>11, OrderedVisits DEF Inv
  <2>3. NoRow.in = 0 /\ NoRow.out = 0
    BY PlainRows
  <2>4. /\ live = NoRow \/ (~ NextVisit(s) /\ live = view[s])
        /\ live = NoRow => ~ CheckedIn(s) \/ NextVisit(s)
    <3>1. CASE visit[s] = 0 /\ view[s] = NoRow /\ \A w \in Visits : sessions[day[s]][w] = NoRow
      BY <1>1, <1>2, <1>5, <2>3, <3>1 DEF CheckedIn
    <3>2. CASE /\ visit[s] \in Visits /\ view[s] = sessions[day[s]][visit[s]]
               /\ mode = "visits" => \A w \in Visits : w > visit[s] => sessions[day[s]][w] = NoRow
      <4>1. CASE NextVisit(s)
        <5>1. mode = "visits" /\ v = visit[s] + 1 /\ v > visit[s]
          BY <1>1, <3>2, <4>1, VisitsAreCounted DEF NextVisit, TargetVisit
        <5> QED
          BY <1>1, <1>2, <1>5, <3>2, <4>1, <5>1
      <4>2. CASE ~ NextVisit(s)
        <5>1. v = visit[s]
          BY <1>1, <3>2, <4>2, VisitsAreCounted DEF TargetVisit
        <5> QED
          BY <1>1, <1>5, <2>3, <3>2, <4>2, <5>1 DEF CheckedIn
      <4> QED
        BY <4>1, <4>2
    <3> QED
      BY <2>1, <3>1, <3>2 DEF ScanLoaded
  <2> QED
    BY <1>0, <1>1, <1>2, <1>3, <1>6, <1>8, <2>2, <2>4, ScanLeavesOrdered
<1>12. d \in Days /\ v \in Visits /\ (part = "single" => Ordered(row) /\ Kept(sessions[d][v], row))
  BY <1>0, <1>1, <1>2, <1>5, <1>11
<1> QED
  BY <1>4, <1>9, <1>10, <1>12, OneRowStored

\* Rebuilding days from their records.
LEMMA DaysRebuilt ==
    ASSUME Inv, records' \in SUBSET Record, DOMAIN sessions' = Days,
           sessions' = [d \in Days |-> sessions'[d]],
           \A d \in Days : sessions'[d] = sessions[d] \/ sessions'[d] = Recomputed(d, records')
    PROVE  RowsStored /\ AllKept
<1>0. sessions \in [Days -> [Visits -> Row]]
  BY DEF Inv, TypeOK
<1>1. ASSUME NEW d \in Days
      PROVE  /\ sessions'[d] \in [Visits -> Row]
             /\ \A v \in Visits : RowRebuilt(sessions[d][v], sessions'[d][v])
  <2>1. CASE sessions'[d] = Recomputed(d, records')
    BY <1>0, <2>1, RecomputedAreRebuilt
  <2>2. CASE sessions'[d] = sessions[d]
    <3>1. \A v \in Visits : sessions[d][v] \in Row
      BY <1>0
    <3> QED
      BY <1>0, <2>2, <3>1 DEF RowRebuilt, Kept
  <2> QED
    BY <2>1, <2>2
<1>2. sessions' \in [Days -> [Visits -> Row]]
  BY <1>1
<1>3. AllKept
  BY <1>1 DEF AllKept, RowRebuilt
<1>4. ASSUME part = "overlap", NEW d \in Days, NEW v \in Visits PROVE sessions'[d][v].manual = FALSE
  <2>1. sessions[d][v].manual = FALSE
    BY <1>4 DEF Inv, NoneCorrected
  <2> QED
    BY <1>1, <2>1 DEF RowRebuilt
<1>5. ASSUME part = "single", NEW d \in Days, NEW v \in Visits PROVE Ordered(sessions'[d][v])
  <2>1. Ordered(sessions[d][v])
    BY <1>5, OrderedVisits DEF Inv
  <2> QED
    BY <1>1, <2>1 DEF RowRebuilt
<1> QED
  BY <1>2, <1>3, <1>4, <1>5 DEF RowsStored

LEMMA PostStores ==
    ASSUME Inv, UNCHANGED part, PostRecord
    PROVE  RowsStored /\ AllKept /\ TypeOK' /\ StepsOK'
<1>0. now \in Times /\ sessions \in [Days -> [Visits -> Row]] /\ records \in SUBSET Record
  BY DEF Inv, TypeOK
<1>1. PICK t \in 1 .. now :
         /\ now' = (IF t = now THEN now + 1 ELSE now) /\ now' <= MaxTime
         /\ records' = records \cup {[time |-> t, type |-> "untyped", manual |-> TRUE]}
         /\ sessions' = [sessions EXCEPT ![Day(t)] =
                Recomputed(Day(t), records \cup {[time |-> t, type |-> "untyped", manual |-> TRUE]})]
  BY DEF PostRecord
<1>2. t \in Times /\ now' \in Times
  BY <1>0, <1>1, ConstantsAssumption DEF Times
<1>3. records' \in SUBSET Record
  <2>1. [time |-> t, type |-> "untyped", manual |-> TRUE] \in Record
    BY <1>2 DEF Record
  <2> QED
    BY <1>0, <1>1, <2>1
<1>4. sessions' = [sessions EXCEPT ![Day(t)] = Recomputed(Day(t), records')]
  BY <1>1
<1>5. RowsStored /\ AllKept
  <2>1. DOMAIN sessions' = Days /\ sessions' = [d \in Days |-> sessions'[d]]
    BY <1>0, <1>4
  <2>2. \A d \in Days : sessions'[d] = sessions[d] \/ sessions'[d] = Recomputed(d, records')
    BY <1>0, <1>4
  <2> QED
    BY <1>3, <2>1, <2>2, DaysRebuilt
<1>6. UNCHANGED <<rule, pc, scanVars, loadVars, reportVars, voids>> /\ posts' = posts + 1
  BY DEF PostRecord
<1>7. TypeOK'
  <2>1. InFlight' = InFlight
    BY <1>6 DEF InFlight
  <2> QED
    BY <1>2, <1>3, <1>5, <1>6, <2>1
    DEF Inv, TypeOK, RowsStored, rule, scanVars, loadVars, reportVars
<1>8. StepsOK'
  BY <1>6 DEF Inv, StepsOK, scanVars, loadVars, reportVars
<1> QED
  BY <1>5, <1>7, <1>8

LEMMA VoidStores ==
    ASSUME Inv, UNCHANGED part, NEW r \in records, VoidRecord(r)
    PROVE  RowsStored /\ AllKept /\ TypeOK' /\ StepsOK'
<1>1. records' \in SUBSET Record
  BY DEF VoidRecord, Inv, TypeOK
<1>2. sessions' = [d \in Days |-> IF d \in AffectedDays(r) THEN Recomputed(d, records') ELSE sessions[d]]
  BY DEF VoidRecord
<1>3. RowsStored /\ AllKept
  <2>1. DOMAIN sessions' = Days /\ sessions' = [d \in Days |-> sessions'[d]]
    BY <1>2
  <2>2. \A d \in Days : sessions'[d] = sessions[d] \/ sessions'[d] = Recomputed(d, records')
    BY <1>2
  <2> QED
    BY <1>1, <2>1, <2>2, DaysRebuilt
<1>4. UNCHANGED <<now, rule, pc, scanVars, loadVars, reportVars, posts>> /\ voids' = voids + 1
  BY DEF VoidRecord
<1>5. TypeOK'
  <2>1. InFlight' = InFlight
    BY <1>4 DEF InFlight
  <2> QED
    BY <1>1, <1>3, <1>4, <2>1
    DEF Inv, TypeOK, RowsStored, rule, scanVars, loadVars, reportVars
<1>6. StepsOK'
  BY <1>4 DEF Inv, StepsOK, scanVars, loadVars, reportVars
<1> QED
  BY <1>3, <1>5, <1>6

\* An override leaves what the dialog asked for.
LEMMA OverrideStores ==
    ASSUME Inv, NEW e \in Editors, Override(e)
    PROVE  RowsStored /\ part = "single"
<1>0. /\ pc[e] = "edit" /\ e \in Scanners \cup Editors /\ day[e] \in Days /\ visit[e] \in Visits
      /\ view[e] \in Row /\ sessions \in [Days -> [Visits -> Row]] /\ records' = records
      /\ records \in SUBSET Record
  BY DEF Override, Inv, TypeOK, StepsOK
<1>1. part = "single"
  BY <1>0 DEF Inv, TypeOK, NoneCorrected
<1>2. PICK d, v : d = day[e] /\ v = visit[e]
  OBVIOUS
<1>3. PICK want \in Corrections(d) :
         /\ Normalized(want)
         /\ sessions' = [sessions EXCEPT ![d][v] = [Merge(view[e], want, @) EXCEPT !.manual = TRUE]]
  BY <1>2 DEF Override
<1>4. view[e] = sessions[d][v]
  BY <1>0, <1>1, <1>2 DEF Inv, LoadedIsStored
<1>5. PICK live : live = sessions[d][v]
  OBVIOUS
<1>6. live \in Row
  BY <1>0, <1>2, <1>5
<1>7. want \in Row /\ Ordered(want)
  <2>1. CASE want = Absent
    BY <2>1, PlainRows DEF Ordered
  <2>2. CASE want # Absent
    <3>1. PICK i \in Times, o \in Times \cup {0} : want = Present(i, o)
      BY <1>3, <2>2 DEF Corrections
    <3>2. i \in Nat /\ i > 0 /\ o \in Nat
      BY TimesAreCounted
    <3>3. want \in Row /\ want.in = i /\ want.out = o
      BY <3>1, <3>2, PresentRow
    <3>4. o = 0 \/ o >= i
      BY <1>3, <3>3 DEF Normalized
    <3>5. Ordered(want)
      BY <3>2, <3>3, <3>4 DEF Ordered
    <3> QED
      BY <3>3, <3>5
  <2> QED
    BY <2>1, <2>2
<1>8. PICK merged : merged = Merge(live, want, live)
  OBVIOUS
<1>9. merged \in Row /\ merged.in = want.in /\ merged.out = want.out
  BY <1>6, <1>7, <1>8, MergedRow, MergedOverLoaded
<1>10. PICK row : row = [merged EXCEPT !.manual = TRUE]
  OBVIOUS
<1>11. row \in Row
  BY <1>9, <1>10 DEF Row
<1>12. row.in = want.in /\ row.out = want.out
  BY <1>9, <1>10 DEF Row
<1>13. Ordered(row)
  BY <1>7, <1>12 DEF Ordered
<1>14. sessions' = [sessions EXCEPT ![d][v] = row] /\ d \in Days /\ v \in Visits
  BY <1>0, <1>2, <1>3, <1>4, <1>5, <1>8, <1>10
<1>15. part = "overlap" => row.manual = FALSE
  BY <1>1
<1> QED
  BY <1>0, <1>1, <1>11, <1>13, <1>14, <1>15, OneRowStored

\* A report stores what it computed for the rows that are still there.
LEMMA SaveStores ==
    ASSUME Inv, NEW r \in Reporters, SaveRows(r)
    PROVE  RowsStored /\ AllKept /\ part = "single"
<1>0. /\ pc[r] = "save" /\ day[r] \in Days /\ snap[r] \in [Visits -> Row] /\ rows[r] \in [Visits -> Row]
      /\ sessions \in [Days -> [Visits -> Row]] /\ records' = records /\ records \in SUBSET Record
  BY DEF SaveRows, Inv, TypeOK, StepsOK
<1>1. part = "single"
  BY <1>0 DEF Inv, TypeOK, NoneCorrected
<1>2. PICK d, old, new : d = day[r] /\ old = snap[r] /\ new = rows[r]
  OBVIOUS
<1>3. sessions' = [sessions EXCEPT ![d] = SavedRows(old, old, new)] /\ old = sessions[d] /\ ComputedFor(old, new)
  BY <1>0, <1>1, <1>2 DEF SaveRows, Inv, LoadedIsStored
<1>4. /\ SavedRows(old, old, new) \in [Visits -> Row]
      /\ \A v \in Visits : RowRebuilt(old[v], SavedRows(old, old, new)[v])
  BY <1>0, <1>2, <1>3, SavedAreRebuilt
<1>5. \A c \in Days : sessions'[c] = sessions[c] \/ (c = d /\ sessions'[c] = SavedRows(old, old, new))
  BY <1>0, <1>3
<1>6. sessions' \in [Days -> [Visits -> Row]]
  BY <1>0, <1>2, <1>3, <1>4
<1>7. ASSUME NEW c \in Days, NEW v \in Visits
      PROVE  Kept(sessions[c][v], sessions'[c][v]) /\ Ordered(sessions'[c][v])
  <2>1. Ordered(sessions[c][v])
    BY <1>1, OrderedVisits DEF Inv
  <2>2. Kept(sessions[c][v], sessions[c][v])
    BY DEF Kept
  <2>3. RowRebuilt(old[v], SavedRows(old, old, new)[v])
    BY <1>4
  <2> QED
    BY <1>3, <1>5, <2>1, <2>2, <2>3 DEF RowRebuilt
<1> QED
  BY <1>0, <1>1, <1>6, <1>7 DEF RowsStored, AllKept

-----------------------------------------------------------------------------
(* Steps. *)

\* A request that stores ends, and no other has read anything.
LEMMA NothingLoaded ==
    ASSUME \A r \in Requests : pc'[r] = "idle"
    PROVE  LoadedIsStored'
BY KindsOfRequests DEF LoadedIsStored

LEMMA EndsAlone ==
    ASSUME Inv, part = "single", NEW r \in Requests, pc[r] # "idle", pc' = [pc EXCEPT ![r] = "idle"]
    PROVE  LoadedIsStored'
<1>1. pc \in [Requests -> {"idle", "recent", "session", "previous", "decide", "edit", "records", "save"}]
  BY DEF Inv, TypeOK
<1>2. \A q \in Requests : pc'[q] = "idle"
  BY <1>1 DEF Inv, OneAtATime
<1> QED
  BY <1>2, NothingLoaded

\* What a scan has read.
LEMMA ScanLoads ==
    ASSUME Inv, part = "single", OneAtATime', UNCHANGED <<mode, sessions>>, NEW s \in Scanners,
           BeginScan(s) \/ ReadRecent(s) \/ ReadSession(s) \/ ReadPrevious(s)
    PROVE  LoadedIsStored'
<1>0. /\ pc \in [Requests -> {"idle", "recent", "session", "previous", "decide", "edit", "records", "save"}]
      /\ day \in [Requests -> Nat] /\ visit \in [Scanners \cup Editors -> Nat]
      /\ view \in [Scanners \cup Editors -> Row] /\ mode \in AllModes
  BY DEF Inv, TypeOK
<1>1. s \in Requests /\ s \in Scanners \cup Editors /\ s \notin Editors /\ s \notin Reporters
  BY KindsOfRequests
<1>2. pc'[s] \in {"recent", "session", "previous", "decide"}
  BY <1>0, <1>1 DEF BeginScan, ReadRecent, ReadSession, ReadPrevious
<1>3. \A q \in Requests : q # s => pc'[q] = "idle"
  BY <1>1, <1>2 DEF OneAtATime
<1>4. SUFFICES ASSUME pc'[s] \in {"previous", "decide"} PROVE ScanLoaded(s)'
  BY <1>1, <1>3, KindsOfRequests DEF LoadedIsStored
<1>5. CASE BeginScan(s) \/ ReadRecent(s)
  BY <1>0, <1>1, <1>4, <1>5 DEF BeginScan, ReadRecent
<1>6. CASE ReadSession(s)
  <2>1. PICK d, v, row : /\ d = Day(at[s]) /\ Loaded(s, d, v, row)
                         /\ v = IF StoredVisits(d) = {} THEN 0
                                ELSE IF mode = "visits" THEN LastVisit(d) ELSE FirstVisit(d)
                         /\ row = IF v = 0 THEN NoRow ELSE sessions[d][v]
    BY <1>6 DEF ReadSession
  <2>2. day'[s] = d /\ visit'[s] = v /\ view'[s] = row
    BY <1>0, <1>1, <2>1 DEF Loaded
  <2>3. CASE StoredVisits(d) = {}
    <3>1. \A w \in Visits : sessions[d][w] = NoRow
      BY <2>3 DEF StoredVisits
    <3> QED
      BY <2>1, <2>2, <2>3, <3>1 DEF ScanLoaded
  <2>4. CASE StoredVisits(d) # {}
    <3>1. v \in StoredVisits(d) /\ (mode = "visits" => \A w \in StoredVisits(d) : w <= v)
      BY <2>1, <2>4, VisitsAreFound
    <3>2. v \in Visits /\ v # 0
      BY <3>1, VisitsAreCounted, StoredRows
    <3>3. row = sessions[d][v]
      BY <2>1, <3>2
    <3>4. mode = "visits" => \A w \in Visits : w > v => sessions[d][w] = NoRow
      BY <3>1, <3>2, VisitsAreCounted DEF StoredVisits
    <3> QED
      BY <2>2, <3>2, <3>3, <3>4 DEF ScanLoaded
  <2> QED
    BY <2>3, <2>4
<1>7. CASE ReadPrevious(s)
  <2>1. PICK before : before = Day(at[s]) - 1
    OBVIOUS
  <2>2. \/ /\ StoredVisits(before) # {}
           /\ IsOvernight(sessions[before][LastVisit(before)].in, at[s])
           /\ Loaded(s, before, LastVisit(before), sessions[before][LastVisit(before)])
        \/ UNCHANGED loadVars
    BY <1>7, <2>1 DEF ReadPrevious
  <2>3. CASE UNCHANGED loadVars
    <3>1. ScanLoaded(s)
      BY <1>7 DEF Inv, LoadedIsStored, ReadPrevious
    <3> QED
      BY <2>3, <3>1 DEF ScanLoaded, loadVars
  <2>4. CASE ~ UNCHANGED loadVars
    <3>1. LastVisit(before) \in Visits /\ mode = "work_hours"
      BY <2>2, <2>4, VisitsAreFound, StoredRows DEF IsOvernight
    <3>2. PICK v : v = LastVisit(before)
      OBVIOUS
    <3>3. day'[s] = before /\ visit'[s] = v /\ view'[s] = sessions[before][v]
      BY <1>0, <1>1, <2>2, <2>4, <3>2 DEF Loaded
    <3> QED
      BY <3>1, <3>2, <3>3 DEF ScanLoaded
  <2> QED
    BY <2>3, <2>4
<1> QED
  BY <1>5, <1>6, <1>7

\* What an editor or a report has read.
LEMMA EditLoads ==
    ASSUME Inv, part = "single", OneAtATime', UNCHANGED sessions, NEW e \in Editors, ReadVisit(e)
    PROVE  LoadedIsStored'
<1>0. /\ pc \in [Requests -> {"idle", "recent", "session", "previous", "decide", "edit", "records", "save"}]
      /\ day \in [Requests -> Nat] /\ visit \in [Scanners \cup Editors -> Nat]
      /\ view \in [Scanners \cup Editors -> Row]
  BY DEF Inv, TypeOK
<1>1. e \in Requests /\ e \in Scanners \cup Editors /\ e \notin Scanners /\ e \notin Reporters
  BY KindsOfRequests
<1>2. pc'[e] = "edit"
  BY <1>0, <1>1 DEF ReadVisit
<1>3. \A q \in Requests : q # e => pc'[q] = "idle"
  BY <1>1, <1>2 DEF OneAtATime
<1>4. PICK d, v : Loaded(e, d, v, sessions[d][v])
  BY DEF ReadVisit
<1>5. view'[e] = sessions[day'[e]][visit'[e]]
  BY <1>0, <1>1, <1>4 DEF Loaded
<1> QED
  BY <1>1, <1>3, <1>5, KindsOfRequests DEF LoadedIsStored

LEMMA ReportLoads ==
    ASSUME Inv, part = "single", OneAtATime', UNCHANGED sessions, NEW r \in Reporters,
           ReadRows(r) \/ ReadRecords(r)
    PROVE  LoadedIsStored'
<1>0. /\ pc \in [Requests -> {"idle", "recent", "session", "previous", "decide", "edit", "records", "save"}]
      /\ day \in [Requests -> Nat] /\ snap \in [Reporters -> [Visits -> Row]]
      /\ rows \in [Reporters -> [Visits -> Row]] /\ records \in SUBSET Record
  BY DEF Inv, TypeOK
<1>1. r \in Requests /\ r \notin Scanners /\ r \notin Editors
  BY KindsOfRequests
<1>2. pc'[r] \in {"records", "save"}
  BY <1>0, <1>1 DEF ReadRows, ReadRecords
<1>3. \A q \in Requests : q # r => pc'[q] = "idle"
  BY <1>1, <1>2 DEF OneAtATime
<1>4. CASE ReadRows(r)
  <2>1. pc'[r] = "records" /\ snap'[r] = sessions[day'[r]]
    BY <1>0, <1>1, <1>4 DEF ReadRows
  <2> QED
    BY <1>1, <1>3, <2>1, KindsOfRequests DEF LoadedIsStored
<1>5. CASE ReadRecords(r)
  <2>1. snap[r] = sessions[day[r]] /\ UNCHANGED <<snap, day>>
    BY <1>5 DEF Inv, LoadedIsStored, ReadRecords, loadVars
  <2>2. rows'[r] = ComputedRows(day[r], snap[r], records)
    BY <1>0, <1>5 DEF ReadRecords
  <2>3. ComputedFor(snap'[r], rows'[r])
    BY <1>0, <2>1, <2>2, ComputedForStored
  <2> QED
    BY <1>1, <1>3, <2>1, <2>3, KindsOfRequests DEF LoadedIsStored
<1> QED
  BY <1>4, <1>5

\* Every step keeps the invariant, and but for an override every correction.
LEMMA StepInv ==
    ASSUME Inv, [MCNext]_<<vars, part>>
    PROVE  Inv' /\ (part = "single" /\ ~ Overriding => AllKept)
<1>0. CASE UNCHANGED <<vars, part>>
  <2>1. TypeOK'
    BY <1>0 DEF Inv, TypeOK, vars, InFlight
  <2>2. StepsOK'
    BY <1>0 DEF Inv, StepsOK, vars
  <2>3. (part = "overlap" => NoneCorrected)' /\ (part = "single" => OneAtATime /\ LoadedIsStored /\ VisitsOrdered)'
    BY <1>0 DEF Inv, vars, NoneCorrected, OneAtATime, LoadedIsStored, ScanLoaded, VisitsOrdered
  <2>4. AllKept
    BY <1>0 DEF AllKept, Kept, vars
  <2> QED
    BY <2>1, <2>2, <2>3, <2>4 DEF Inv
<1>1. CASE MCNext
  <2>0. /\ UNCHANGED part /\ Next /\ TypeOK /\ StepsOK /\ records \in SUBSET Record
        /\ sessions \in [Days -> [Visits -> Row]]
    BY <1>1 DEF MCNext, Inv, TypeOK
  \* It suffices to show the types, what is stored and what is read.
  <2>a. ASSUME TypeOK', StepsOK', RowsStored, part = "single" => LoadedIsStored' PROVE Inv'
    <3>1. part = "overlap" => NoneCorrected'
      BY <1>1, <2>0, <2>a, KindsOfRequests DEF MCNext, NoneCorrected, RowsStored, InFlight
    <3>2. part = "single" => OneAtATime'
      BY <1>1, <2>0, <2>a, OneIsLeft
    <3>3. part = "single" => VisitsOrdered'
      BY <2>a DEF RowsStored, VisitsOrdered, Ordered
    <3> QED
      BY <2>0, <2>a, <3>1, <3>2, <3>3 DEF Inv
  <2>b. ASSUME UNCHANGED store PROVE RowsStored /\ AllKept
    <3>1. part = "overlap" => \A d \in Days, v \in Visits : sessions[d][v].manual = FALSE
      BY DEF Inv, NoneCorrected
    <3>2. part = "single" => \A d \in Days, v \in Visits : Ordered(sessions[d][v])
      BY OrderedVisits DEF Inv
    <3> QED
      BY <2>0, <2>b, <3>1, <3>2 DEF RowsStored, AllKept, Kept, store
  <2>1. CASE Tick
    <3>1. TypeOK'
      <4>1. now' \in Times /\ InFlight' = InFlight
        BY <2>0, <2>1, ConstantsAssumption DEF Tick, TypeOK, Times, InFlight
      <4> QED
        BY <2>0, <2>1, <4>1 DEF Tick, TypeOK, rule, store, scanVars, loadVars, reportVars, counts
    <3>2. StepsOK'
      BY <2>0, <2>1 DEF Tick, StepsOK, scanVars, loadVars
    <3>3. part = "single" => LoadedIsStored'
      BY <2>1 DEF Inv, Tick, LoadedIsStored, ScanLoaded, store, rule, loadVars, reportVars
    <3> QED
      BY <2>1, <2>a, <2>b, <3>1, <3>2, <3>3 DEF Tick
  <2>2. ASSUME NEW s \in Scanners, BeginScan(s) \/ ReadRecent(s) \/ ReadSession(s) \/ ReadPrevious(s)
        PROVE  Inv' /\ AllKept
    <3>1. TypeOK' /\ StepsOK'
      BY <2>0, <2>2, ScanStepsTyped
    <3>2. UNCHANGED <<mode, store>>
      BY <2>2 DEF BeginScan, ReadRecent, ReadSession, ReadPrevious, rule
    <3>3. part = "single" => LoadedIsStored'
      BY <1>1, <2>0, <2>2, <3>1, <3>2, OneIsLeft, ScanLoads DEF store
    <3> QED
      BY <2>a, <2>b, <3>1, <3>2, <3>3
  <2>3. ASSUME NEW s \in Scanners, Reject(s) PROVE Inv' /\ AllKept
    <3>1. TypeOK' /\ StepsOK'
      BY <2>0, <2>3, ScanStepsTyped
    <3>2. part = "single" => LoadedIsStored'
      BY <2>3, EndsAlone, KindsOfRequests DEF Reject, ScanEnds
    <3> QED
      BY <2>3, <2>a, <2>b, <3>1, <3>2 DEF Reject
  <2>4. ASSUME NEW s \in Scanners, Accept(s) PROVE Inv' /\ (part = "single" => AllKept)
    <3>1. RowsStored /\ (part = "single" => AllKept)
      BY <2>4, AcceptStores
    <3>2. /\ pc[s] # "idle" /\ pc' = [pc EXCEPT ![s] = "idle"] /\ ScanEnds(s)
          /\ UNCHANGED <<now, rule, reportVars, counts>> /\ s \in Requests
      BY <2>4, KindsOfRequests DEF Accept, ScanEnds
    <3>3. TypeOK' /\ StepsOK'
      BY <2>0, <3>1, <3>2, StoresTyped DEF RowsStored
    <3>4. part = "single" => LoadedIsStored'
      BY <3>2, EndsAlone
    <3> QED
      BY <2>a, <3>1, <3>3, <3>4
  <2>5. CASE PostRecord
    <3>1. RowsStored /\ AllKept /\ TypeOK' /\ StepsOK'
      BY <2>0, <2>5, PostStores
    <3>2. posts' # posts /\ pc' = pc
      BY <2>0, <2>5 DEF PostRecord, TypeOK
    <3>3. part = "single" => \A r \in Requests : pc'[r] = "idle"
      BY <1>1, <3>2 DEF MCNext, InFlight
    <3> QED
      BY <2>a, <3>1, <3>3, NothingLoaded
  <2>6. ASSUME NEW r \in records, VoidRecord(r) PROVE Inv' /\ AllKept
    <3>1. RowsStored /\ AllKept /\ TypeOK' /\ StepsOK'
      BY <2>0, <2>6, VoidStores
    <3>2. voids' # voids /\ pc' = pc
      BY <2>0, <2>6 DEF VoidRecord, TypeOK
    <3>3. part = "single" => \A q \in Requests : pc'[q] = "idle"
      BY <1>1, <3>2 DEF MCNext, InFlight
    <3> QED
      BY <2>a, <3>1, <3>3, NothingLoaded
  <2>7. ASSUME NEW e \in Editors, ReadVisit(e) PROVE Inv' /\ AllKept
    <3>1. TypeOK' /\ StepsOK'
      BY <2>0, <2>7, EditStepsTyped
    <3>2. UNCHANGED store
      BY <2>7 DEF ReadVisit
    <3>3. part = "single" => LoadedIsStored'
      BY <1>1, <2>0, <2>7, <3>1, <3>2, OneIsLeft, EditLoads DEF store
    <3> QED
      BY <2>a, <2>b, <3>1, <3>2, <3>3
  <2>8. ASSUME NEW e \in Editors, OverrideFails(e) PROVE Inv' /\ AllKept
    <3>1. TypeOK' /\ StepsOK'
      BY <2>0, <2>8, EditStepsTyped
    <3>2. part = "single" => LoadedIsStored'
      BY <2>8, EndsAlone, KindsOfRequests DEF OverrideFails, EditEnds
    <3> QED
      BY <2>8, <2>a, <2>b, <3>1, <3>2 DEF OverrideFails
  <2>9. ASSUME NEW e \in Editors, Override(e) PROVE Inv' /\ Overriding
    <3>1. RowsStored
      BY <2>9, OverrideStores
    <3>2. /\ pc[e] = "edit" /\ pc' = [pc EXCEPT ![e] = "idle"] /\ EditEnds(e)
          /\ UNCHANGED <<now, rule, scanVars, reportVars, counts>> /\ e \in Requests
      BY <2>9, KindsOfRequests DEF Override, EditEnds
    <3>3. TypeOK' /\ StepsOK'
      BY <2>0, <3>1, <3>2, StoresTyped DEF RowsStored
    <3>4. part = "single" => LoadedIsStored'
      BY <3>2, EndsAlone
    <3>5. Overriding
      BY <2>0, <3>2 DEF Overriding, TypeOK
    <3> QED
      BY <2>a, <3>1, <3>3, <3>4, <3>5
  <2>10. ASSUME NEW r \in Reporters, ReadRows(r) \/ ReadRecords(r) PROVE Inv' /\ AllKept
    <3>1. TypeOK' /\ StepsOK'
      BY <2>0, <2>10, ReportStepsTyped
    <3>2. UNCHANGED store
      BY <2>10 DEF ReadRows, ReadRecords
    <3>3. part = "single" => LoadedIsStored'
      BY <1>1, <2>0, <2>10, <3>1, <3>2, OneIsLeft, ReportLoads DEF store
    <3> QED
      BY <2>a, <2>b, <3>1, <3>2, <3>3
  <2>11. ASSUME NEW r \in Reporters, ReportAsStored(r) PROVE Inv' /\ AllKept
    <3>1. TypeOK' /\ StepsOK'
      BY <2>0, <2>11, ReportStepsTyped
    <3>2. part = "single" => LoadedIsStored'
      BY <2>11, EndsAlone, KindsOfRequests DEF ReportAsStored, ReportEnds
    <3> QED
      BY <2>11, <2>a, <2>b, <3>1, <3>2 DEF ReportAsStored
  <2>12. ASSUME NEW r \in Reporters, SaveRows(r) PROVE Inv' /\ AllKept
    <3>1. RowsStored /\ AllKept
      BY <2>12, SaveStores
    <3>2. /\ pc[r] # "idle" /\ pc' = [pc EXCEPT ![r] = "idle"] /\ ReportEnds(r)
          /\ UNCHANGED <<now, rule, scanVars, visit, view, counts>> /\ r \in Requests
      BY <2>12, KindsOfRequests DEF SaveRows, ReportEnds
    <3>3. TypeOK' /\ StepsOK'
      BY <2>0, <2>12, <3>1, <3>2, StoresTyped DEF RowsStored
    <3>4. part = "single" => LoadedIsStored'
      BY <3>2, EndsAlone
    <3> QED
      BY <2>a, <3>1, <3>3, <3>4
  <2> QED
    BY <2>0, <2>1, <2>2, <2>3, <2>4, <2>5, <2>6, <2>7, <2>8, <2>9, <2>10, <2>11, <2>12, <2>a, <2>b
    DEF Next, Scan, Edit, Report
<1> QED
  BY <1>0, <1>1

LEMMA InvAlways == MCSpec => []Inv
<1>1. Inv /\ [MCNext]_<<vars, part>> => Inv'
  BY StepInv
<1> QED
  BY <1>1, InitialInv, PTL DEF MCSpec

\* Whatever the requests in flight, the stored rows, records and counters and
\* what each request has read keep the shapes the model service gives them.
THEOREM AttendanceTypes == MCSpec => [](TypeOK /\ StepsOK)
<1>1. Inv => TypeOK /\ StepsOK
  BY DEF Inv
<1> QED
  BY <1>1, InvAlways, PTL

\* A correction made by hand stays: when requests come one after the other, no
\* sequence of scans, withdrawn records, rebuilds and reports takes the mark
\* from a visit or changes a time it has. (The overlap part corrects nothing;
\* that a report read before the correction loses it is a finding of its own.)
THEOREM CorrectionsAreKept == MCSpec => OverrideKept
<1>1. Inv /\ [MCNext]_<<vars, part>> =>
        [\A d \in Days, v \in Visits :
            LET old == sessions[d][v]
                new == sessions'[d][v]
            IN  old.manual /\ ~Overriding =>
                  /\ new.manual
                  /\ old.in > 0 => new.in = old.in
                  /\ old.out > 0 => new.out = old.out]_vars
  <2> SUFFICES ASSUME Inv, [MCNext]_<<vars, part>>, ~Overriding, vars' # vars,
                      NEW d \in Days, NEW v \in Visits, sessions[d][v].manual
               PROVE  Kept(sessions[d][v], sessions'[d][v])
    BY DEF Kept
  <2>1. CASE part = "single"
    BY <2>1, StepInv DEF AllKept
  <2>2. CASE part = "overlap"
    BY <2>2 DEF Inv, NoneCorrected
  <2> QED
    BY <2>1, <2>2 DEF Inv, TypeOK
<1> QED
  BY <1>1, InvAlways, PTL DEF MCSpec, OverrideKept

\* When requests come one after the other, no sequence of scans, corrections,
\* withdrawn records and reports stores a visit that ends before it begins, or
\* that ends without having begun.
THEOREM VisitsAreOrdered == MCSpec => [](part = "single" => VisitsOrdered)
<1>1. Inv => (part = "single" => VisitsOrdered)
  BY DEF Inv
<1> QED
  BY <1>1, InvAlways, PTL

-----------------------------------------------------------------------------
(* A record later than all the others of a day. *)

LEMMA BelowGrows ==
    ASSUME NEW T \in SUBSET Nat, IsFiniteSet(T), NEW x \in T, NEW y \in T, x < y
    PROVE  Cardinality(Below(T, x)) # Cardinality(Below(T, y))
<1>1. IsFiniteSet(Below(T, x)) /\ IsFiniteSet(Below(T, y)) /\ x \notin Below(T, x)
  BY FS_Subset DEF Below
<1>2. Below(T, x) \cup {x} \in SUBSET Below(T, y)
  <2>1. \A u \in T : u < x => u < y
    OBVIOUS
  <2> QED
    BY <2>1 DEF Below
<1>3. Cardinality(Below(T, x) \cup {x}) = Cardinality(Below(T, x)) + 1
  BY <1>1, FS_AddElement
<1>4. Cardinality(Below(T, x) \cup {x}) <= Cardinality(Below(T, y))
  BY <1>1, <1>2, FS_Subset
<1>5. Cardinality(Below(T, x)) \in Nat /\ Cardinality(Below(T, y)) \in Nat
  BY <1>1, FS_CardinalityType
<1> QED
  BY <1>3, <1>4, <1>5

LEMMA NthIs ==
    ASSUME NEW T \in SUBSET (Nat \ {0}), IsFiniteSet(T), NEW n \in Nat \ {0}, n <= Cardinality(T),
           NEW t \in T, Cardinality(Below(T, t)) = n - 1
    PROVE  Nth(T, n) = t
<1>1. Nth(T, n) \in T /\ Cardinality(Below(T, Nth(T, n))) = n - 1
  BY NthOfTimes
<1>2. PICK u : u = Nth(T, n)
  OBVIOUS
<1>3. u \in T /\ Cardinality(Below(T, u)) = Cardinality(Below(T, t)) /\ T \in SUBSET Nat
  BY <1>1, <1>2
<1>4. ~ u < t /\ ~ t < u
  BY <1>3, BelowGrows
<1> QED
  BY <1>2, <1>3, <1>4

\* How the later set U of instants numbers them: those of T, and t after them.
Followed(T, t, U) ==
    /\ U \in SUBSET (Nat \ {0}) /\ IsFiniteSet(U) /\ U # {}
    /\ Cardinality(T) \in Nat /\ Cardinality(U) = Cardinality(T) + 1
    /\ Nth(U, Cardinality(T) + 1) = t
    /\ \A n \in Nat \ {0} : n <= Cardinality(T) => Nth(U, n) = Nth(T, n) /\ Nth(T, n) > 0
    /\ \A n \in Nat \ {0} : n > Cardinality(T) => Nth(T, n) = 0
    /\ \A n \in Nat \ {0} : n > Cardinality(T) + 1 => Nth(U, n) = 0

LEMMA NthWhenLater ==
    ASSUME NEW T \in SUBSET (Nat \ {0}), IsFiniteSet(T), NEW t \in Nat \ {0}, \A u \in T : u < t
    PROVE  Followed(T, t, T \cup {t})
<1> DEFINE U == T \cup {t}
<1>1. t \notin T /\ U \in SUBSET (Nat \ {0}) /\ IsFiniteSet(U)
  BY FS_AddElement
<1>2. Cardinality(T) \in Nat /\ Cardinality(U) = Cardinality(T) + 1
  BY <1>1, FS_AddElement, FS_CardinalityType
<1>3. Nth(U, Cardinality(T) + 1) = t
  <2>1. Below(U, t) = T /\ t \in U
    <3>1. \A u \in U : u < t <=> u \in T
      OBVIOUS
    <3> QED
      BY <3>1 DEF Below
  <2> QED
    BY <1>1, <1>2, <2>1, NthIs
<1>4. ASSUME NEW n \in Nat \ {0}, n <= Cardinality(T) PROVE Nth(U, n) = Nth(T, n) /\ Nth(T, n) > 0
  <2>1. Nth(T, n) \in T /\ Cardinality(Below(T, Nth(T, n))) = n - 1
    BY <1>4, NthOfTimes
  <2>2. PICK u : u = Nth(T, n)
    OBVIOUS
  <2>a. u \in T /\ Cardinality(Below(T, u)) = n - 1
    BY <2>1, <2>2
  <2>3. Below(U, u) = Below(T, u) /\ u \in U
    <3>1. ~ t < u
      BY <2>a
    <3> QED
      BY <2>a, <3>1 DEF Below
  <2>4. n <= Cardinality(U)
    BY <1>2, <1>4
  <2>5. Nth(U, n) = u
    BY <1>1, <2>a, <2>3, <2>4, NthIs
  <2> QED
    BY <2>2, <2>a, <2>5
<1>5. ASSUME NEW n \in Nat \ {0}, n > Cardinality(T) PROVE Nth(T, n) = 0
  BY <1>5 DEF Nth
<1>6. ASSUME NEW n \in Nat \ {0}, n > Cardinality(T) + 1 PROVE Nth(U, n) = 0
  <2>1. n > Cardinality(U)
    BY <1>2, <1>6
  <2> QED
    BY <2>1 DEF Nth
<1> QED
  BY <1>1, <1>2, <1>3, <1>4, <1>5, <1>6 DEF Followed

LEMMA DerivedOf ==
    ASSUME NEW T \in SUBSET (Nat \ {0}), IsFiniteSet(T), NEW v \in Visits
    PROVE  /\ DerivedRows(T) = [w \in Visits |-> DerivedRows(T)[w]]
           /\ T = {} => DerivedRows(T)[v] = IF v = 1 THEN Absent ELSE NoRow
           /\ T # {} /\ mode = "visits" =>
                 DerivedRows(T)[v] = IF 2 * v - 1 <= Cardinality(T)
                                     THEN Present(Nth(T, 2 * v - 1), Nth(T, 2 * v)) ELSE NoRow
           /\ T # {} /\ mode # "visits" =>
                 DerivedRows(T)[v] = IF v > 1 THEN NoRow
                                     ELSE Present(Nth(T, 1), IF mode = "work_hours" /\ Cardinality(T) > 1
                                                             THEN Nth(T, Cardinality(T)) ELSE 0)
           /\ T # {} => Cardinality(T) >= 1
<1>1. T # {} => Cardinality(T) >= 1
  <2>1. Cardinality(T) \in Nat
    BY FS_CardinalityType
  <2>2. T # {} => Cardinality(T) # 0
    BY FS_EmptySet
  <2>3. \A n \in Nat : n # 0 => n >= 1
    OBVIOUS
  <2> QED
    BY <2>1, <2>2, <2>3
<1>2. DerivedRows(T) = [w \in Visits |-> DerivedRows(T)[w]]
  BY DEF DerivedRows
<1>3. T = {} => DerivedRows(T)[v] = IF v = 1 THEN Absent ELSE NoRow
  BY DEF DerivedRows
<1>4. T # {} /\ mode = "visits" =>
          DerivedRows(T)[v] = IF 2 * v - 1 <= Cardinality(T)
                              THEN Present(Nth(T, 2 * v - 1), Nth(T, 2 * v)) ELSE NoRow
  BY DEF DerivedRows
<1>5. T # {} /\ mode # "visits" =>
          DerivedRows(T)[v] = IF v > 1 THEN NoRow
                              ELSE Present(Nth(T, 1), IF mode = "work_hours" /\ Cardinality(T) > 1
                                                      THEN Nth(T, Cardinality(T)) ELSE 0)
  BY DEF DerivedRows
<1> QED
  BY <1>1, <1>2, <1>3, <1>4, <1>5

LEMMA RowKinds ==
    /\ \A i, o : Present(i, o) # NoRow /\ Present(i, o) # Absent /\ Present(i, o).status = "present"
    /\ Absent # NoRow /\ Absent.status = "absent" /\ NoRow.status = "none"
<1>1. "present" # "none" /\ "present" # "absent" /\ "absent" # "none"
  OBVIOUS
<1>2. /\ \A i, o : Present(i, o).status = "present"
      /\ Absent.status = "absent" /\ NoRow.status = "none"
  BY DEF Present, Absent, NoRow
<1> QED
  BY <1>1, <1>2

\* What is written over the row that is loaded, or over none, is what was wanted.
LEMMA MergedPlain ==
    ASSUME NEW live \in Row, live.manual = FALSE, NEW i \in Nat, NEW o \in Nat
    PROVE  /\ Merge(live, Present(i, o), live) = Present(i, o)
           /\ \A loaded : Merge(loaded, Present(i, o), NoRow) = Present(i, o)
<1>1. \A loaded : Merge(loaded, Present(i, o), NoRow) = Present(i, o)
  BY DEF Merge
<1>2. CASE live # NoRow
  <2>0. PICK want : want = Present(i, o)
    OBVIOUS
  <2>1. Merge(live, want, live) = [live EXCEPT
            !.status = IF want.status # live.status THEN want.status ELSE @,
            !.in = IF want.in # live.in THEN want.in ELSE @,
            !.out = IF want.out # live.out THEN want.out ELSE @]
    BY <1>2 DEF Merge
  <2>2. Merge(live, want, live) = [live EXCEPT !.status = want.status, !.in = want.in, !.out = want.out]
    BY <2>1
  <2>3. Merge(live, want, live) =
            [status |-> want.status, in |-> want.in, out |-> want.out, manual |-> live.manual]
    BY <2>2 DEF Row
  <2>4. want.status = "present" /\ want.in = i /\ want.out = o
    BY <2>0 DEF Present
  <2> QED
    BY <1>1, <2>0, <2>3, <2>4 DEF Present
<1> QED
  BY <1>1, <1>2

\* The scan has loaded none of the rows, or one of them, the last if there may be several.
LoadedFrom(s, old) ==
    \/ visit[s] = 0 /\ view[s] = NoRow /\ \A v \in Visits : old[v] = NoRow
    \/ /\ visit[s] \in Visits /\ view[s] = old[visit[s]] /\ view[s] # NoRow
       /\ mode = "visits" => \A v \in Visits : v > visit[s] => old[v] = NoRow

\* A scan of an instant later than the day's records, which its rows follow.
ScanFollows(s, T, t, old) ==
    /\ T \in SUBSET (Nat \ {0}) /\ IsFiniteSet(T) /\ t \in Nat \ {0} /\ t = at[s] /\ \A u \in T : u < t
    /\ mode \in AllModes /\ ~ Rejected(s)
    /\ old \in [Visits -> Row] /\ \A w \in Visits : old[w].manual = FALSE
    /\ old = DerivedRows(T) \/ (T = {} /\ old = NoRows)
    /\ LoadedFrom(s, old)

\* The visit a scan writes, what it had loaded of it, and the row it leaves.
ScanWrites(s, old, v, loaded, row) ==
    /\ v \in Visits /\ v = TargetVisit(s) /\ loaded = (IF NextVisit(s) THEN NoRow ELSE view[s])
    /\ row = Merge(loaded, ScannedRow(s), old[v])

\* A scan of a day whose visits are those its records give leaves those that the
\* records and the scan's own give.
LEMMA ScanDerives ==
    ASSUME NEW s \in Scanners, NEW T, NEW t, NEW old, ScanFollows(s, T, t, old),
           NEW v, NEW loaded, NEW row, ScanWrites(s, old, v, loaded, row)
    PROVE  [old EXCEPT ![v] = row] = DerivedRows(T \cup {t})
<1>h. /\ T \in SUBSET (Nat \ {0}) /\ IsFiniteSet(T) /\ t \in Nat \ {0} /\ t = at[s] /\ \A u \in T : u < t
      /\ mode \in AllModes /\ ~ Rejected(s)
      /\ old \in [Visits -> Row] /\ \A w \in Visits : old[w].manual = FALSE
      /\ old = DerivedRows(T) \/ (T = {} /\ old = NoRows)
      /\ LoadedFrom(s, old)
  BY DEF ScanFollows
<1>w. /\ v \in Visits /\ v = TargetVisit(s) /\ loaded = (IF NextVisit(s) THEN NoRow ELSE view[s])
      /\ row = Merge(loaded, ScannedRow(s), old[v])
  BY DEF ScanWrites
<1> USE <1>h, <1>w
<1> DEFINE n == Cardinality(T)
           U == T \cup {t}
           new == DerivedRows(U)
<1>0. /\ U \in SUBSET (Nat \ {0}) /\ IsFiniteSet(U) /\ U # {}
      /\ n \in Nat /\ Cardinality(U) = n + 1
      /\ Nth(U, n + 1) = t
      /\ \A m \in Nat \ {0} : m <= n => Nth(U, m) = Nth(T, m) /\ Nth(T, m) > 0
      /\ \A m \in Nat \ {0} : m > n => Nth(T, m) = 0
      /\ \A m \in Nat \ {0} : m > n + 1 => Nth(U, m) = 0
  <2>1. Followed(T, t, U)
    BY NthWhenLater
  <2> QED
    BY <2>1 DEF Followed
<1>1. /\ new = [w \in Visits |-> new[w]]
      /\ \A w \in Visits : mode = "visits" =>
            new[w] = IF 2 * w - 1 <= n + 1 THEN Present(Nth(U, 2 * w - 1), Nth(U, 2 * w)) ELSE NoRow
      /\ \A w \in Visits : mode # "visits" =>
            new[w] = IF w > 1 THEN NoRow
                     ELSE Present(Nth(U, 1), IF mode = "work_hours" /\ n + 1 > 1 THEN Nth(U, n + 1) ELSE 0)
  <2>1. new = [w \in Visits |-> new[w]]
    BY <1>0, DerivedOf, VisitsAreCounted
  <2>2. ASSUME NEW w \in Visits, mode = "visits"
        PROVE  new[w] = IF 2 * w - 1 <= n + 1 THEN Present(Nth(U, 2 * w - 1), Nth(U, 2 * w)) ELSE NoRow
    <3>1. /\ new[w] = IF 2 * w - 1 <= Cardinality(U) THEN Present(Nth(U, 2 * w - 1), Nth(U, 2 * w)) ELSE NoRow
          /\ Cardinality(U) = n + 1
      <4> HIDE <1>h, <1>w DEF n
      <4> QED
        BY <1>0, <2>2, DerivedOf
    <3> QED
      BY <3>1
  <2>3. ASSUME NEW w \in Visits, mode # "visits"
        PROVE  new[w] = IF w > 1 THEN NoRow
                        ELSE Present(Nth(U, 1), IF mode = "work_hours" /\ n + 1 > 1 THEN Nth(U, n + 1) ELSE 0)
    <3>1. /\ new[w] = IF w > 1 THEN NoRow
                      ELSE Present(Nth(U, 1), IF mode = "work_hours" /\ Cardinality(U) > 1
                                              THEN Nth(U, Cardinality(U)) ELSE 0)
          /\ Cardinality(U) = n + 1
      <4> HIDE <1>h, <1>w DEF n
      <4> QED
        BY <1>0, <2>3, DerivedOf
    <3> QED
      BY <3>1
  <2> QED
    BY <2>1, <2>2, <2>3
<1>2. SUFFICES row = new[v] /\ \A w \in Visits : w # v => old[w] = new[w]
  BY <1>1
<1>3. Visits \subseteq Nat \ {0} /\ 1 \in Visits /\ v \in Nat /\ v > 0 /\ 0 \in Nat /\ 0 \notin Visits
  BY VisitsAreCounted
<1>4. NoRow.in = 0 /\ NoRow.out = 0 /\ Absent.in = 0 /\ Absent.out = 0 /\ NoRow \in Row
  BY PlainRows
<1>5. PICK have : have = view[s]
  OBVIOUS
<1>6. /\ CheckedIn(s) <=> have.in > 0
      /\ NextVisit(s) <=> mode = "visits" /\ have.out > 0
      /\ ScannedRow(s) = IF have.in > 0 /\ ~ (mode = "visits" /\ have.out > 0)
                         THEN Present(have.in, t) ELSE Present(t, 0)
      /\ v = IF mode = "visits" /\ have.out > 0 THEN visit[s] + 1 ELSE IF visit[s] = 0 THEN 1 ELSE visit[s]
  BY <1>5 DEF CheckedIn, NextVisit, ScannedRow, TargetVisit
<1>7. \A live \in Row, i \in Nat, o \in Nat : live.manual = FALSE =>
          /\ Merge(live, Present(i, o), live) = Present(i, o)
          /\ \A other : Merge(other, Present(i, o), NoRow) = Present(i, o)
  BY MergedPlain
<1> HIDE DEF n, U, new
\* The first record of a day.
<1>8. CASE T = {}
  <2>1. n = 0
    BY <1>8, FS_EmptySet DEF n
  <2>2. \A w \in Visits : old[w] = NoRow \/ (w = 1 /\ old[w] = Absent)
    <3>1. CASE old = NoRows
      BY <3>1 DEF NoRows
    <3>2. CASE old = DerivedRows(T)
      <4>1. \A w \in Visits : DerivedRows(T)[w] = IF w = 1 THEN Absent ELSE NoRow
        BY <1>8, DerivedOf
      <4> QED
        BY <3>2, <4>1
    <3> QED
      BY <3>1, <3>2
  <2>3. have.in = 0 /\ have.out = 0 /\ v = 1
    <3>1. \/ visit[s] = 0 /\ have = NoRow
          \/ visit[s] = 1 /\ have = Absent
      BY <1>3, <1>5, <2>2 DEF LoadedFrom
    <3>2. have.in = 0 /\ have.out = 0
      BY <1>4, <3>1
    <3>3. ~ 0 > 0
      OBVIOUS
    <3> QED
      BY <1>6, <3>1, <3>2, <3>3
  <2>4. row = Present(t, 0)
    <3>0. ~ 0 > 0
      OBVIOUS
    <3>1. ScannedRow(s) = Present(t, 0) /\ loaded = have
      BY <1>5, <1>6, <2>3, <3>0
    <3>2. old[v] = NoRow \/ old[v] = have
      BY <1>3, <1>5, <2>2, <2>3 DEF LoadedFrom
    <3>3. old[v] \in Row /\ old[v].manual = FALSE /\ t \in Nat /\ 0 \in Nat
      OBVIOUS
    <3> QED
      BY <1>7, <3>1, <3>2, <3>3
  <2>5. Nth(U, 1) = t /\ Nth(U, 2) = 0
    <3>1. n + 1 = 1 /\ 2 \in Nat \ {0} /\ 2 > n + 1
      BY <2>1
    <3> QED
      BY <1>0, <3>1
  <2>6. new[1] = Present(t, 0)
    <3>1. 2 * 1 - 1 = 1 /\ 2 * 1 = 2 /\ 1 <= n + 1 /\ ~ n + 1 > 1 /\ ~ 1 > 1
      BY <2>1
    <3> QED
      BY <1>1, <1>3, <2>5, <3>1
  <2>7. \A w \in Visits : w # 1 => new[w] = NoRow
    <3>1. \A w \in Visits : w # 1 => w > 1 /\ ~ 2 * w - 1 <= n + 1
      BY <1>3, <2>1
    <3> QED
      BY <1>1, <3>1
  <2> QED
    BY <2>2, <2>3, <2>4, <2>6, <2>7
\* A day with records.
<1>9. CASE T # {}
  <2>0. n >= 1 /\ old = DerivedRows(T)
    BY <1>9, <1>3, DerivedOf DEF n
  <2>1. CASE mode = "visits"
    <3>1. \A w \in Visits : old[w] = IF 2 * w - 1 <= n THEN Present(Nth(T, 2 * w - 1), Nth(T, 2 * w)) ELSE NoRow
      BY <1>9, <2>0, <2>1, DerivedOf DEF n
    <3>2. old[1] # NoRow
      <4>1. 2 * 1 - 1 <= n
        BY <1>0, <2>0
      <4> QED
        BY <1>3, <3>1, <4>1, RowKinds
    <3>3. PICK b \in Visits : b = visit[s]
      BY <1>3, <3>2 DEF LoadedFrom
    <3>4. have = old[b] /\ have # NoRow /\ \A w \in Visits : w > b => old[w] = NoRow
      BY <1>3, <1>5, <2>1, <3>3 DEF LoadedFrom
    <3>5. 2 * b - 1 <= n /\ have = Present(Nth(T, 2 * b - 1), Nth(T, 2 * b)) /\ b \in Nat /\ b > 0
      BY <1>3, <3>1, <3>4
    <3>6. b + 1 \in Visits => n <= 2 * b
      <4>1. ASSUME b + 1 \in Visits, ~ n <= 2 * b PROVE FALSE
        <5>1. 2 * (b + 1) - 1 <= n /\ b + 1 > b
          BY <1>0, <3>5, <4>1
        <5>2. old[b + 1] # NoRow
          BY <3>1, <4>1, <5>1, RowKinds
        <5> QED
          BY <3>4, <4>1, <5>1, <5>2
      <4> QED
        BY <4>1
    <3>7. have.in = Nth(T, 2 * b - 1) /\ have.out = Nth(T, 2 * b)
      BY <3>5 DEF Present
    <3>8. have.in \in Nat /\ have.in > 0 /\ Nth(U, 2 * b - 1) = have.in
      <4>1. 2 * b - 1 \in Nat \ {0}
        BY <3>5
      <4>2. Nth(T, 2 * b - 1) > 0 /\ Nth(U, 2 * b - 1) = Nth(T, 2 * b - 1)
        BY <1>0, <3>5, <4>1
      <4>3. have \in Row
        BY <3>4
      <4> QED
        BY <3>7, <4>2, <4>3 DEF Row
    <3>9. CASE 2 * b <= n
      <4>1. have.out > 0
        BY <1>0, <3>5, <3>7, <3>9
      <4>2. v = b + 1 /\ ScannedRow(s) = Present(t, 0)
        BY <1>6, <2>1, <3>3, <4>1
      <4>3. n = 2 * b /\ old[v] = NoRow
        <5>1. v \in Visits /\ v > b
          BY <3>5, <4>2
        <5> QED
          BY <1>0, <3>4, <3>5, <3>6, <3>9, <4>2, <5>1
      <4>4. row = Present(t, 0)
        <5>1. NoRow \in Row /\ NoRow.manual = FALSE /\ t \in Nat /\ 0 \in Nat
          BY PlainRows
        <5> QED
          BY <1>7, <4>2, <4>3, <5>1
      <4>5. new[v] = Present(t, 0)
        <5>1. 2 * v - 1 = n + 1 /\ 2 * v > n + 1 /\ 2 * v \in Nat \ {0} /\ 2 * v - 1 <= n + 1
          BY <3>5, <4>2, <4>3
        <5>2. Nth(U, 2 * v - 1) = t /\ Nth(U, 2 * v) = 0
          BY <1>0, <5>1
        <5> QED
          BY <1>1, <2>1, <5>1, <5>2
      <4>6. ASSUME NEW w \in Visits, w # v PROVE old[w] = new[w]
        <5>1. CASE w <= b
          <6>1. /\ 2 * w - 1 \in Nat \ {0} /\ 2 * w \in Nat \ {0} /\ 2 * w <= n /\ 2 * w - 1 <= n
                /\ 2 * w - 1 <= n + 1
            BY <1>3, <3>5, <4>3, <5>1
          <6>2. Nth(U, 2 * w - 1) = Nth(T, 2 * w - 1) /\ Nth(U, 2 * w) = Nth(T, 2 * w)
            BY <1>0, <6>1
          <6> QED
            BY <1>1, <2>1, <3>1, <6>1, <6>2
        <5>2. CASE ~ w <= b
          <6>1. ~ 2 * w - 1 <= n + 1 /\ ~ 2 * w - 1 <= n
            BY <1>3, <3>5, <4>2, <4>3, <4>6, <5>2
          <6> QED
            BY <1>1, <2>1, <3>1, <6>1
        <5> QED
          BY <5>1, <5>2
      <4> QED
        BY <4>4, <4>5, <4>6
    <3>10. CASE ~ 2 * b <= n
      <4>1. n = 2 * b - 1 /\ have.out = 0
        <5>1. n = 2 * b - 1
          BY <1>0, <3>5, <3>10
        <5>2. 2 * b \in Nat \ {0} /\ 2 * b > n
          BY <3>5, <5>1
        <5> QED
          BY <1>0, <3>7, <5>1, <5>2
      <4>2. v = b /\ ScannedRow(s) = Present(have.in, t) /\ loaded = have
        <5>1. ~ have.out > 0 /\ visit[s] # 0
          BY <3>3, <3>5, <4>1
        <5> QED
          BY <1>5, <1>6, <3>3, <3>8, <5>1
      <4>3. row = Present(have.in, t)
        <5>1. have \in Row /\ have.manual = FALSE /\ old[v] = have
          BY <3>4, <4>2
        <5>2. t \in Nat
          OBVIOUS
        <5> QED
          BY <1>7, <3>8, <4>2, <5>1, <5>2
      <4>4. new[v] = Present(have.in, t)
        <5>1. 2 * v = n + 1 /\ 2 * v - 1 <= n + 1
          BY <3>5, <4>1, <4>2
        <5>2. Nth(U, 2 * v - 1) = have.in /\ Nth(U, 2 * v) = t
          BY <1>0, <3>8, <4>2, <5>1
        <5> QED
          BY <1>1, <2>1, <5>1, <5>2
      <4>5. ASSUME NEW w \in Visits, w # v PROVE old[w] = new[w]
        <5>1. CASE w < b
          <6>1. /\ 2 * w - 1 \in Nat \ {0} /\ 2 * w \in Nat \ {0} /\ 2 * w <= n /\ 2 * w - 1 <= n
                /\ 2 * w - 1 <= n + 1
            BY <1>3, <3>5, <4>1, <5>1
          <6>2. Nth(U, 2 * w - 1) = Nth(T, 2 * w - 1) /\ Nth(U, 2 * w) = Nth(T, 2 * w)
            BY <1>0, <6>1
          <6> QED
            BY <1>1, <2>1, <3>1, <6>1, <6>2
        <5>2. CASE ~ w < b
          <6>a. w > b /\ w \in Nat
            BY <1>3, <3>5, <4>2, <4>5, <5>2
          <6>1. ~ 2 * w - 1 <= n + 1 /\ ~ 2 * w - 1 <= n
            BY <1>0, <3>5, <4>1, <6>a
          <6> QED
            BY <1>1, <2>1, <3>1, <6>1
        <5> QED
          BY <5>1, <5>2
      <4> QED
        BY <4>3, <4>4, <4>5
    <3> QED
      BY <3>9, <3>10
  <2>2. CASE mode # "visits"
    <3>1. \A w \in Visits : old[w] = IF w > 1 THEN NoRow
                                     ELSE Present(Nth(T, 1), IF mode = "work_hours" /\ n > 1 THEN Nth(T, n) ELSE 0)
      BY <1>9, <2>0, <2>2, DerivedOf DEF n
    <3>2. old[1] # NoRow /\ old[1] = Present(Nth(T, 1), IF mode = "work_hours" /\ n > 1 THEN Nth(T, n) ELSE 0)
      <4>1. ~ 1 > 1
        OBVIOUS
      <4> QED
        BY <1>3, <3>1, <4>1, RowKinds
    <3>3. visit[s] = 1 /\ have = old[1]
      <4>1. visit[s] \in Visits /\ have = old[visit[s]] /\ have # NoRow
        BY <1>3, <1>5, <3>2 DEF LoadedFrom
      <4>2. ~ visit[s] > 1
        BY <3>1, <4>1
      <4>3. \A i \in Nat \ {0} : ~ i > 1 => i = 1
        OBVIOUS
      <4>4. visit[s] = 1
        BY <1>3, <4>1, <4>2, <4>3
      <4> QED
        BY <4>1, <4>4
    <3>4. /\ have.in = Nth(T, 1)
          /\ have.out = IF mode = "work_hours" /\ n > 1 THEN Nth(T, n) ELSE 0
      BY <3>2, <3>3 DEF Present
    <3>5. have.in > 0 /\ have.in \in Nat /\ Nth(U, 1) = have.in
      <4>1. Nth(T, 1) > 0 /\ Nth(U, 1) = Nth(T, 1)
        BY <1>0, <2>0
      <4>2. have \in Row
        BY <1>3, <3>3
      <4> QED
        BY <3>4, <4>1, <4>2 DEF Row
    <3>6. mode = "work_hours"
      BY <1>6, <2>2, <3>5 DEF Rejected, AllModes
    <3>7. ~ n > 1
      <4>1. ASSUME n > 1 PROVE FALSE
        <5>1. have.out > 0
          BY <1>0, <3>4, <3>6, <4>1
        <5> QED
          BY <1>5, <3>5, <3>6, <5>1 DEF Rejected, DoneVisit
      <4> QED
        BY <4>1
    <3>8. n = 1 /\ have.out = 0 /\ v = 1 /\ loaded = have /\ ScannedRow(s) = Present(have.in, t)
      <4>1. n = 1 /\ have.out = 0
        BY <1>0, <2>0, <3>4, <3>7
      <4> QED
        BY <1>5, <1>6, <2>2, <3>3, <3>5, <4>1
    <3>9. row = Present(have.in, t)
      <4>1. have \in Row /\ have.manual = FALSE /\ old[v] = have /\ t \in Nat
        BY <1>3, <3>3, <3>8
      <4> QED
        BY <1>7, <3>5, <3>8, <4>1
    <3>10. new[1] = Present(have.in, t)
      <4>1. n + 1 > 1 /\ ~ 1 > 1
        BY <3>8
      <4> QED
        BY <1>0, <1>1, <1>3, <2>2, <3>5, <3>6, <4>1
    <3>11. \A w \in Visits : w # 1 => old[w] = NoRow /\ new[w] = NoRow
      <4>1. \A w \in Visits : w # 1 => w > 1
        BY <1>3
      <4> QED
        BY <1>1, <2>2, <3>1, <4>1
    <3> QED
      BY <3>8, <3>9, <3>10, <3>11
  <2> QED
    BY <2>1, <2>2
<1> QED
  BY <1>8, <1>9

-----------------------------------------------------------------------------
(* The day a record belongs to. *)

\* No shift crosses midnight, or departures do not end an earlier day's visit.
PlainDays == shift = 0 \/ mode # "work_hours"

\* Records of scans only, no two at one instant.
TypedOnly(recs) == \A r \in recs : r.type # "untyped"
Apart(recs) == \A q, r \in recs : q.time = r.time => q = r
DaysClear(recs) == PlainDays \/ (TypedOnly(recs) /\ Apart(recs))

LEMMA DayInNat ==
    ASSUME NEW t \in Nat \ {0}
    PROVE  Day(t) \in Nat /\ Hour(t) \in Nat /\ \A u \in Nat \ {0} : u <= t => Day(u) <= Day(t)
<1>1. DayLength \in Nat \ {0} /\ t - 1 \in Nat
  BY ConstantsAssumption
<1>2. Hour(t) \in Nat
  BY <1>1 DEF Hour
<1>3. Day(t) \in Nat
  <2>1. (t - 1) \div DayLength \in Nat
    BY <1>1, DivUp
  <2> QED
    BY <2>1 DEF Day
<1>4. ASSUME NEW u \in Nat \ {0}, u <= t PROVE Day(u) <= Day(t)
  <2>1. u - 1 \in Nat /\ u - 1 <= t - 1
    BY <1>4
  <2>2. (u - 1) \div DayLength <= (t - 1) \div DayLength /\ (u - 1) \div DayLength \in Nat
        /\ (t - 1) \div DayLength \in Nat
    BY <1>1, <2>1, DivUp
  <2> QED
    BY <2>2 DEF Day
<1> QED
  BY <1>2, <1>3, <1>4

LEMMA RecordTimes ==
    ASSUME NEW r \in Record
    PROVE  r.time \in Nat \ {0} /\ r.time \in Times /\ Day(r.time) \in Nat
BY TimesAreCounted, DayInNat DEF Record

LEMMA PlainDay ==
    ASSUME PlainDays, NEW r \in Record, NEW recs
    PROVE  AttendanceDay(r, recs) = Day(r.time)
<1>1. \A i : ~ IsOvernight(i, r.time)
  <2>1. Hour(r.time) \in Nat
    BY RecordTimes, DayInNat
  <2>2. ~ Hour(r.time) < 0
    BY <2>1
  <2> QED
    BY <2>2 DEF IsOvernight, PlainDays
<1> QED
  BY <1>1 DEF AttendanceDay

LEMMA LatestFound ==
    ASSUME NEW recs \in SUBSET Record, recs # {}
    PROVE  Latest(recs) \in recs /\ \A q \in recs : q.time <= Latest(recs).time
<1> DEFINE T == {q.time : q \in recs}
<1>1. T \in SUBSET (0 .. MaxTime) /\ T # {} /\ MaxTime \in Nat
  <2>1. MaxTime \in Nat
    BY ConstantsAssumption
  <2>2. \A q \in recs : q.time \in 0 .. MaxTime
    BY <2>1 DEF Record, Times
  <2> QED
    BY <2>1, <2>2
<1>2. PICK m \in T : \A n \in T : n <= m
  BY <1>1, MaxExists
<1>3. \E l \in recs : \A q \in recs : q.time <= l.time
  BY <1>2
<1> QED
  BY <1>3 DEF Latest

LEMMA LatestIs ==
    ASSUME NEW recs \in SUBSET Record, Apart(recs), NEW l \in recs, \A q \in recs : q.time <= l.time
    PROVE  Latest(recs) = l
<1>1. PICK k : k = Latest(recs)
  OBVIOUS
<1>2. k \in recs /\ \A q \in recs : q.time <= k.time
  BY <1>1, LatestFound
<1>3. k.time \in Nat /\ l.time \in Nat /\ k.time <= l.time /\ l.time <= k.time
  BY <1>2, RecordTimes
<1>4. k.time = l.time
  BY <1>3
<1> QED
  BY <1>1, <1>2, <1>4 DEF Apart

\* Without untyped records the record just before tells whether an arrival is pending.
LEMMA TypedDay ==
    ASSUME NEW recs, TypedOnly(recs), NEW r
    PROVE  AttendanceDay(r, recs) =
               IF /\ r.type = "check_out" /\ Before(r, recs) # {}
                  /\ Latest(Before(r, recs)).type = "check_in"
                  /\ IsOvernight(Latest(Before(r, recs)).time, r.time)
               THEN Day(r.time) - 1 ELSE Day(r.time)
<1>1. {q \in Before(r, recs) : q.type # "untyped"} = Before(r, recs)
  BY DEF TypedOnly, Before
<1>2. {q \in Before(r, recs) : q.type = "untyped" /\ \A s \in Before(r, recs) : s.time < q.time} = {}
  BY DEF TypedOnly, Before
<1>3. Cardinality({}) % 2 # 1
  BY FS_EmptySet
<1>4. ArrivalPending(r, recs) <=> Before(r, recs) # {} /\ Latest(Before(r, recs)).type = "check_in"
  BY <1>1, <1>2, <1>3 DEF ArrivalPending
<1> QED
  BY <1>4 DEF AttendanceDay

LEMMA AttendedDays ==
    ASSUME NEW r, NEW recs
    PROVE  AttendanceDay(r, recs) \in {Day(r.time), Day(r.time) - 1}
BY DEF AttendanceDay

\* An earlier record of the same day leaves nothing of the night before to end.
LEMMA SameDay ==
    ASSUME NEW recs \in SUBSET Record, TypedOnly(recs), NEW r \in Record, NEW c \in recs,
           c.time < r.time, Day(c.time) = Day(r.time)
    PROVE  AttendanceDay(r, recs) = Day(r.time)
<1>1. c \in Before(r, recs) /\ Before(r, recs) \in SUBSET Record
  BY DEF Before
<1>2. PICK l : l = Latest(Before(r, recs))
  OBVIOUS
<1>3. l \in Before(r, recs) /\ c.time <= l.time
  BY <1>1, <1>2, LatestFound
<1>4. l.time \in Nat \ {0} /\ c.time \in Nat \ {0} /\ r.time \in Nat \ {0} /\ l.time <= r.time
  BY <1>1, <1>3, RecordTimes DEF Before
<1>5. Day(l.time) <= Day(r.time) /\ Day(c.time) <= Day(l.time) /\ Day(l.time) \in Nat /\ Day(r.time) \in Nat
  BY <1>3, <1>4, DayInNat
<1>6. Day(r.time) # Day(l.time) + 1
  BY <1>5
<1> QED
  BY <1>2, <1>6, TypedDay DEF IsOvernight

\* A night's departure is one among all the records that hold both of its days.
LEMMA SameNight ==
    ASSUME NEW recs \in SUBSET Record, TypedOnly(recs), Apart(recs), NEW r \in Record,
           NEW V \in SUBSET recs, NEW W \in SUBSET recs,
           \A x \in recs : Day(x.time) \in {Day(r.time) - 1, Day(r.time)} => x \in V /\ x \in W,
           AttendanceDay(r, V) # Day(r.time)
    PROVE  AttendanceDay(r, W) = Day(r.time) - 1
<1>0. TypedOnly(V) /\ TypedOnly(W) /\ V \in SUBSET Record /\ W \in SUBSET Record
  BY DEF TypedOnly
<1>1. PICK l : l = Latest(Before(r, V))
  OBVIOUS
<1>2. /\ r.type = "check_out" /\ Before(r, V) # {} /\ l.type = "check_in" /\ IsOvernight(l.time, r.time)
  BY <1>0, <1>1, TypedDay
<1>3. Before(r, V) \in SUBSET Record /\ Before(r, W) \in SUBSET Record
  BY <1>0 DEF Before
<1>4. l \in Before(r, V) /\ \A q \in Before(r, V) : q.time <= l.time
  BY <1>1, <1>2, <1>3, LatestFound
<1>5. l \in V /\ l \in recs /\ l \in Record /\ l.time < r.time
  BY <1>4 DEF Before
<1>6. Day(r.time) = Day(l.time) + 1 /\ Day(l.time) \in Nat /\ Day(r.time) \in Nat
  BY <1>2, <1>5, RecordTimes DEF IsOvernight
<1>7. l \in W
  <2>1. Day(l.time) = Day(r.time) - 1
    BY <1>6
  <2> QED
    BY <1>5, <2>1
<1>8. ASSUME NEW q \in Before(r, W) PROVE q.time <= l.time
  <2>1. q \in W /\ q \in recs /\ q.time < r.time /\ q.time \in Nat \ {0} /\ l.time \in Nat \ {0}
        /\ r.time \in Nat \ {0}
    BY <1>3, <1>5, <1>8, RecordTimes DEF Before
  <2>2. ASSUME ~ q.time <= l.time PROVE FALSE
    <3>1. l.time <= q.time /\ q.time <= r.time
      BY <2>1, <2>2
    <3>2. Day(l.time) <= Day(q.time) /\ Day(q.time) <= Day(r.time) /\ Day(q.time) \in Nat
      BY <2>1, <3>1, DayInNat
    <3>3. Day(q.time) \in {Day(r.time) - 1, Day(r.time)}
      BY <1>6, <3>2
    <3>4. q \in Before(r, V)
      BY <2>1, <3>3 DEF Before
    <3> QED
      BY <1>4, <2>2, <3>4
  <2> QED
    BY <2>2
<1>9. l \in Before(r, W) /\ Apart(Before(r, W))
  BY <1>5, <1>7 DEF Before, Apart
<1>10. Latest(Before(r, W)) = l
  BY <1>3, <1>8, <1>9, LatestIs
<1>11. Before(r, W) # {}
  BY <1>9
<1> QED
  BY <1>0, <1>2, <1>10, <1>11, TypedDay

\* The records read around a day tell what all the records would.
LEMMA AttendedAlone ==
    ASSUME NEW recs \in SUBSET Record, DaysClear(recs), NEW d \in Nat
    PROVE  AttendedTimes(d, recs) = {r.time : r \in {q \in recs : AttendanceDay(q, recs) = d}}
<1> DEFINE W == {r \in recs : Day(r.time) \in d - 1 .. d + 1}
<1>1. SUFFICES \A q \in recs : (q \in W /\ AttendanceDay(q, W) = d) <=> AttendanceDay(q, recs) = d
  <2>1. AttendedTimes(d, recs) = {r.time : r \in {q \in W : AttendanceDay(q, W) = d}}
    BY DEF AttendedTimes
  <2>2. W \subseteq recs
    OBVIOUS
  <2> QED
    BY <1>1, <2>1, <2>2
<1>2. SUFFICES ASSUME NEW q \in recs
               PROVE  (q \in W /\ AttendanceDay(q, W) = d) <=> AttendanceDay(q, recs) = d
  OBVIOUS
<1>3. q \in Record /\ Day(q.time) \in Nat
  BY RecordTimes
<1>4. Day(q.time) \in {d, d + 1} => q \in W
  BY <1>3
<1>5. /\ AttendanceDay(q, W) \in {Day(q.time), Day(q.time) - 1}
      /\ AttendanceDay(q, recs) \in {Day(q.time), Day(q.time) - 1}
  BY AttendedDays
<1>6. CASE PlainDays
  <2>1. AttendanceDay(q, W) = Day(q.time) /\ AttendanceDay(q, recs) = Day(q.time)
    BY <1>3, <1>6, PlainDay
  <2> QED
    BY <1>4, <2>1
<1>7. CASE TypedOnly(recs) /\ Apart(recs)
  <2>1. ASSUME Day(q.time) \in {d, d + 1}
        PROVE  AttendanceDay(q, W) # Day(q.time) <=> AttendanceDay(q, recs) # Day(q.time)
    <3>1. \A x \in recs : Day(x.time) \in {Day(q.time) - 1, Day(q.time)} => x \in W /\ x \in recs
      <4>1. ASSUME NEW x \in recs, Day(x.time) \in {Day(q.time) - 1, Day(q.time)} PROVE Day(x.time) \in d - 1 .. d + 1
        <5>1. Day(x.time) \in Nat
          BY RecordTimes
        <5> QED
          BY <1>3, <2>1, <4>1, <5>1
      <4> QED
        BY <4>1
    <3>2. W \in SUBSET recs /\ recs \in SUBSET recs
      OBVIOUS
    <3>3. Day(q.time) - 1 # Day(q.time)
      BY <1>3
    <3> HIDE DEF W
    <3>4. AttendanceDay(q, W) # Day(q.time) => AttendanceDay(q, recs) = Day(q.time) - 1
      BY <1>3, <1>7, <3>1, <3>2, SameNight
    <3>5. AttendanceDay(q, recs) # Day(q.time) => AttendanceDay(q, W) = Day(q.time) - 1
      BY <1>3, <1>7, <3>1, <3>2, SameNight
    <3> QED
      BY <3>3, <3>4, <3>5
  <2> HIDE DEF W
  <2>2. Day(q.time) \in {d, d + 1} => AttendanceDay(q, W) = AttendanceDay(q, recs)
    BY <1>5, <2>1
  <2>3. d \in {Day(q.time), Day(q.time) - 1} => Day(q.time) \in {d, d + 1}
    BY <1>3
  <2> QED
    BY <1>4, <1>5, <2>2, <2>3
<1> QED
  BY <1>6, <1>7 DEF DaysClear

\* A record later than the others moves none of them to another day.
LEMMA LaterAlone ==
    ASSUME NEW recs \in SUBSET Record, NEW r \in Record, \A q \in recs : q.time < r.time,
           DaysClear(recs), DaysClear(recs \cup {r}), NEW d \in Nat
    PROVE  AttendedTimes(d, recs \cup {r}) =
               AttendedTimes(d, recs) \cup (IF AttendanceDay(r, recs \cup {r}) = d THEN {r.time} ELSE {})
<1> DEFINE more == recs \cup {r}
<1>1. \A q \in recs : Before(q, more) = Before(q, recs)
  <2>1. ASSUME NEW q \in recs PROVE ~ r.time < q.time
    <3>1. q.time \in Nat /\ r.time \in Nat /\ q.time < r.time
      BY RecordTimes
    <3> QED
      BY <3>1
  <2> QED
    BY <2>1 DEF Before
<1>2. \A q \in recs : AttendanceDay(q, more) = AttendanceDay(q, recs)
  BY <1>1 DEF AttendanceDay, ArrivalPending
<1>3. more \in SUBSET Record
  OBVIOUS
<1>4. AttendedTimes(d, more) = {q.time : q \in {x \in more : AttendanceDay(x, more) = d}}
  BY <1>3, AttendedAlone
<1>5. AttendedTimes(d, recs) = {q.time : q \in {x \in recs : AttendanceDay(x, recs) = d}}
  BY AttendedAlone
<1>6. {x \in more : AttendanceDay(x, more) = d} =
          {x \in recs : AttendanceDay(x, recs) = d} \cup (IF AttendanceDay(r, more) = d THEN {r} ELSE {})
  BY <1>2
<1> QED
  BY <1>4, <1>5, <1>6

\* Without shifts that cross midnight a record touches its own day only.
LEMMA OwnDay ==
    ASSUME NEW recs \in SUBSET Record, NEW more \in SUBSET Record, PlainDays, NEW d \in Nat,
           \A r \in Record : Day(r.time) = d => (r \in recs <=> r \in more)
    PROVE  AttendedTimes(d, recs) = AttendedTimes(d, more)
<1>1. /\ \A r \in recs : AttendanceDay(r, recs) = Day(r.time)
      /\ \A r \in more : AttendanceDay(r, more) = Day(r.time)
  BY PlainDay
<1>2. {q \in recs : AttendanceDay(q, recs) = d} = {q \in more : AttendanceDay(q, more) = d}
  BY <1>1
<1>3. DaysClear(recs) /\ DaysClear(more)
  BY DEF DaysClear
<1> QED
  BY <1>2, <1>3, AttendedAlone

\* Nothing but manual visits keeps a rebuild from giving what the records give.
LEMMA RebuiltPlain ==
    ASSUME NEW d, NEW recs \in SUBSET Record, NEW old \in [Visits -> Row],
           \A v \in Visits : old[v].manual = FALSE
    PROVE  SavedRows(old, old, ComputedRows(d, old, recs)) = DerivedRows(AttendedTimes(d, recs))
<1>1. PICK T : T = AttendedTimes(d, recs)
  OBVIOUS
<1>2. T \in SUBSET (Nat \ {0}) /\ IsFiniteSet(T)
  BY <1>1, AttendedAreTimes
<1>3. DerivedRows(T) = [v \in Visits |-> DerivedRows(T)[v]]
  BY <1>2, DerivedOf, VisitsAreCounted
<1>4. ComputedRows(d, old, recs) = [v \in Visits |-> DerivedRows(T)[v]]
  <2>1. {v \in Visits : old[v].manual} = {}
    OBVIOUS
  <2> QED
    BY <1>1, <2>1 DEF ComputedRows
<1>5. ComputedRows(d, old, recs) = DerivedRows(T)
  BY <1>3, <1>4
<1>6. \A n : n = [v \in Visits |-> n[v]] => SavedRows(old, old, n) = n
  <2>1. ASSUME NEW n, n = [v \in Visits |-> n[v]] PROVE SavedRows(old, old, n) = n
    <3>1. SavedRows(old, old, n) = [v \in Visits |-> n[v]]
      BY DEF SavedRows
    <3> QED
      BY <2>1, <3>1
  <2> QED
    BY <2>1
<1> QED
  BY <1>1, <1>3, <1>5, <1>6

-----------------------------------------------------------------------------
(* Why the visits stay those the records give. *)

Corrected == posts + voids + edits > 0

\* The day's visits are those its records give, if none is a correction.
Agrees(d) ==
    \/ HasOverride(d)
    \/ sessions[d] = NoRows /\ AttendedTimes(d, records) = {}
    \/ sessions[d] = DerivedRows(AttendedTimes(d, records))

\* Nobody has arrived on the day.
Unattended(d) == StoredVisits(d) = {} \/ sessions[d][FirstVisit(d)].in = 0

\* Why a scan ends the visit of the day before: none began today, and that one is open.
ScanRead(s) ==
    /\ visit[s] = 0 \/ view[s] # NoRow
    /\ \/ /\ day[s] = Day(at[s])
          /\ pc[s] = "previous" /\ mode = "work_hours" => Unattended(day[s])
       \/ /\ pc[s] = "decide" /\ day[s] = Day(at[s]) - 1
          /\ IsOvernight(view[s].in, at[s]) /\ view[s].out = 0
          /\ Unattended(Day(at[s]))

\* Before any correction the records are the scans', and the arrival of every
\* visit is one of them, of its day.
OnlyScanned ==
    /\ TypedOnly(records) /\ Apart(records)
    /\ \A d \in Days, v \in Visits :
          /\ sessions[d][v].manual = FALSE
          /\ sessions[d][v].in > 0 =>
                \E c \in records : c.time = sessions[d][v].in /\ c.type = "check_in" /\ Day(c.time) = d

StoreAgrees ==
    /\ shift > 0 /\ ~ Corrected => OnlyScanned
    /\ ~ OvernightCorrected => \A d \in Days : Agrees(d)

\* What a request in progress has read, of requests one after the other.
FlightAgrees ==
    /\ \A s \in Scanners : pc[s] # "idle" => \A r \in records : r.time < at[s]
    /\ \A s \in Scanners : pc[s] \in {"previous", "decide"} => ScanRead(s)
    /\ \A e \in Editors : pc[e] = "edit" => edits > 0
    /\ \A r \in Reporters : pc[r] = "save" => rows[r] = ComputedRows(day[r], snap[r], records)

SingleAgrees == FlightAgrees /\ StoreAgrees

PresentOrNone(row) == row = NoRow \/ row.status = "present"

OverlapPresent ==
    /\ shift = 0
    /\ \A s \in Scanners :
          /\ PresentOrNone(view[s])
          /\ pc[s] \in {"previous", "decide"} => day[s] = Day(at[s])
    /\ \A d \in Days :
          /\ \A v \in Visits : PresentOrNone(sessions[d][v])
          /\ AttendedTimes(d, records) = {} \/ \E v \in Visits : sessions[d][v].status = "present"

\* The clock is ahead of every record and every scan.
ClockAhead ==
    /\ shift \in Nat /\ edits \in Nat
    /\ \A r \in records : r.time < now
    /\ \A s \in Scanners : pc[s] # "idle" => at[s] < now

AgreeInv ==
    /\ ClockAhead
    /\ part = "single" => SingleAgrees
    /\ part = "overlap" => OverlapPresent

LEMMA NotOvernight ==
    ASSUME PlainDays, NEW i, NEW t \in Nat \ {0}
    PROVE  ~ IsOvernight(i, t)
<1>1. ~ Hour(t) < 0
  BY DayInNat
<1> QED
  BY <1>1 DEF IsOvernight, PlainDays

\* A day whose only visit is open has one record.
LEMMA OneRecord ==
    ASSUME NEW T \in SUBSET (Nat \ {0}), IsFiniteSet(T), mode = "work_hours", NEW v \in Visits,
           NEW row, row = DerivedRows(T)[v], row.in > 0, row.out = 0
    PROVE  T = {row.in}
<1>1. T # {}
  <2>1. ASSUME T = {} PROVE FALSE
    <3>1. row = Absent \/ row = NoRow
      BY <2>1, DerivedOf
    <3>2. row.in = 0
      BY <3>1, PlainRows
    <3> QED
      BY <3>2
  <2> QED
    BY <2>1
<1>2. /\ row = IF v > 1 THEN NoRow
               ELSE Present(Nth(T, 1), IF Cardinality(T) > 1 THEN Nth(T, Cardinality(T)) ELSE 0)
      /\ Cardinality(T) >= 1 /\ Cardinality(T) \in Nat
  BY <1>1, DerivedOf, FS_CardinalityType
<1>3. row # NoRow
  BY PlainRows
<1>4. row.in = Nth(T, 1) /\ row.out = IF Cardinality(T) > 1 THEN Nth(T, Cardinality(T)) ELSE 0
  <2>1. row = Present(Nth(T, 1), IF Cardinality(T) > 1 THEN Nth(T, Cardinality(T)) ELSE 0)
    BY <1>2, <1>3
  <2> QED
    BY <2>1 DEF Present
<1>5. ~ Cardinality(T) > 1
  <2>1. ASSUME Cardinality(T) > 1 PROVE FALSE
    <3>1. Nth(T, Cardinality(T)) \in T
      BY <1>2, NthOfTimes
    <3> QED
      BY <1>4, <2>1, <3>1
  <2> QED
    BY <2>1
<1>6. Cardinality(T) = 1
  BY <1>2, <1>5
<1>7. PICK x : T = {x}
  BY <1>6, FS_Singleton
<1>8. Nth(T, 1) \in T
  BY <1>2, NthOfTimes
<1> QED
  BY <1>4, <1>7, <1>8

\* A day with records, and no correction, is attended.
LEMMA RecordsAttend ==
    ASSUME NEW d \in Days, NEW T \in SUBSET (Nat \ {0}), IsFiniteSet(T), T # {}, mode = "work_hours",
           sessions[d] = DerivedRows(T)
    PROVE  ~ Unattended(d)
<1>1. \A v \in Visits : sessions[d][v] = IF v > 1 THEN NoRow
          ELSE Present(Nth(T, 1), IF Cardinality(T) > 1 THEN Nth(T, Cardinality(T)) ELSE 0)
  BY DerivedOf
<1>2. 1 \in StoredVisits(d)
  <2>1. ~ 1 > 1
    OBVIOUS
  <2> QED
    BY <1>1, <2>1, RowKinds, VisitsAreCounted DEF StoredVisits
<1>3. FirstVisit(d) \in Visits /\ sessions[d][FirstVisit(d)] # NoRow
  BY <1>2, VisitsAreFound, StoredRows
<1>4. PICK f : f = FirstVisit(d)
  OBVIOUS
<1>5. sessions[d][f] = Present(Nth(T, 1), IF Cardinality(T) > 1 THEN Nth(T, Cardinality(T)) ELSE 0)
  BY <1>1, <1>3, <1>4
<1>6. sessions[d][f].in = Nth(T, 1)
  BY <1>5 DEF Present
<1>7. Nth(T, 1) > 0
  <2>1. Cardinality(T) >= 1 /\ 1 \in Visits
    BY DerivedOf, VisitsAreCounted
  <2>2. Nth(T, 1) \in T
    BY <2>1, NthOfTimes
  <2>3. \A x \in T : x > 0
    OBVIOUS
  <2> QED
    BY <2>2, <2>3
<1> QED
  BY <1>2, <1>4, <1>6, <1>7 DEF Unattended

\* The record a scan adds.
Added(s) == [time |-> at[s], type |-> ScanType(s), manual |-> FALSE]

LEMMA HomeOfScan ==
    ASSUME Inv, AgreeInv, part = "single", NEW s \in Scanners, pc[s] = "decide", ~ OvernightCorrected
    PROVE  /\ Added(s) \in Record /\ \A q \in records : q.time < Added(s).time
           /\ DaysClear(records) /\ DaysClear(records \cup {Added(s)})
           /\ AttendanceDay(Added(s), records \cup {Added(s)}) = day[s]
<1> DEFINE more == records \cup {Added(s)}
<1>1. PICK nr : nr = Added(s)
  OBVIOUS
<1>2. nr.time = at[s] /\ nr.type = ScanType(s) /\ nr.type \in {"check_in", "check_out"} /\ nr \in Record
  <2>1. at[s] \in Times
    BY DEF Inv, StepsOK
  <2> QED
    BY <1>1, <2>1 DEF Added, ScanType, Record
<1>3. \A d \in Days : Agrees(d)
  BY DEF AgreeInv, SingleAgrees, FlightAgrees, StoreAgrees
<1>4. ScanRead(s) /\ \A q \in records : q.time < at[s]
  BY DEF AgreeInv, SingleAgrees, FlightAgrees
<1>5. records \in SUBSET Record /\ at[s] \in Nat \ {0} /\ shift \in Nat /\ mode \in AllModes
      /\ posts \in Nat /\ voids \in Nat /\ edits \in Nat
  BY TimesAreCounted DEF Inv, TypeOK, StepsOK, AgreeInv, ClockAhead
<1>6. CASE PlainDays
  <2>1. day[s] = Day(at[s])
    BY <1>4, <1>5, <1>6, NotOvernight DEF ScanRead
  <2>2. AttendanceDay(nr, records \cup {nr}) = Day(at[s])
    BY <1>2, <1>6, PlainDay
  <2>3. DaysClear(records) /\ DaysClear(records \cup {nr})
    BY <1>6 DEF DaysClear
  <2> QED
    BY <1>1, <1>2, <1>4, <2>1, <2>2, <2>3
<1>7. CASE ~ PlainDays
  <2>1. shift > 0 /\ mode = "work_hours" /\ ~ Corrected
    BY <1>5, <1>7 DEF PlainDays, OvernightCorrected, Corrected
  <2>2. OnlyScanned /\ \A d \in Days : Agrees(d)
    BY <1>3, <2>1 DEF AgreeInv, SingleAgrees, FlightAgrees, StoreAgrees
  <2>3. TypedOnly(records) /\ Apart(records)
    BY <2>2 DEF OnlyScanned
  <2>4. PICK recs : recs = records \cup {nr}
    OBVIOUS
  <2>5. TypedOnly(recs) /\ Apart(recs) /\ recs \in SUBSET Record
    <3>1. TypedOnly(recs)
      BY <1>2, <2>3, <2>4 DEF TypedOnly
    <3>2. \A q \in records : q.time # nr.time
      <4>1. \A q \in records : q.time \in Nat
        BY <1>5, RecordTimes
      <4> QED
        BY <1>2, <1>4, <1>5, <4>1
    <3>3. Apart(recs)
      BY <2>3, <2>4, <3>2 DEF Apart
    <3> QED
      BY <1>2, <1>5, <2>4, <3>1, <3>3
  <2>6. PICK today : today = Day(at[s])
    OBVIOUS
  <2>7. today \in Days /\ today \in Nat /\ day[s] \in Days /\ Days \subseteq Nat
        /\ visit[s] \in Nat /\ view[s] \in Row /\ sessions \in [Days -> [Visits -> Row]]
    BY <1>5, <2>6, TimesAreCounted, DayInNat DEF Inv, TypeOK, StepsOK
  <2>8. ScanLoaded(s)
    BY DEF Inv, LoadedIsStored
  <2>9. AttendanceDay(nr, recs) = day[s]
    <3>1. CASE ~ CheckedIn(s)
      <4>1. nr.type = "check_in"
        BY <1>2, <3>1 DEF ScanType
      <4>2. AttendanceDay(nr, recs) = today
        BY <1>2, <2>6, <4>1 DEF AttendanceDay
      <4>3. day[s] = today
        BY <1>4, <2>6, <3>1 DEF ScanRead, IsOvernight, CheckedIn
      <4> QED
        BY <4>2, <4>3
    <3>2. CASE CheckedIn(s)
      <4>1. PICK have : have = view[s]
        OBVIOUS
      <4>2. visit[s] \in Visits /\ have = sessions[day[s]][visit[s]] /\ have.in > 0 /\ have \in Row
        <5>1. view[s] # NoRow
          BY <3>2, PlainRows DEF CheckedIn
        <5> QED
          BY <2>7, <2>8, <3>2, <4>1, <5>1 DEF ScanLoaded, CheckedIn
      <4>3. PICK c \in records : c.time = have.in /\ c.type = "check_in" /\ Day(c.time) = day[s]
        BY <2>2, <2>7, <4>2 DEF OnlyScanned
      <4>4. c \in recs /\ c \in Record /\ c.time < nr.time
        BY <1>2, <1>4, <1>5, <2>4
      <4>5. CASE day[s] = today
        <5>1. Day(c.time) = Day(nr.time)
          BY <1>2, <2>6, <4>3, <4>5
        <5>2. AttendanceDay(nr, recs) = Day(nr.time)
          BY <1>2, <2>5, <4>4, <5>1, SameDay
        <5> QED
          BY <1>2, <2>6, <4>5, <5>2
      <4>6. CASE day[s] # today
        <5>1. /\ day[s] = today - 1 /\ IsOvernight(have.in, at[s]) /\ have.out = 0 /\ Unattended(today)
          BY <1>4, <2>6, <4>1, <4>6 DEF ScanRead
        <5>2. PICK yest \in Days : yest = day[s]
          BY <2>7
        <5>3. \A d \in Days : ~ HasOverride(d)
          BY <2>2 DEF OnlyScanned, HasOverride
        <5>4. AttendedTimes(yest, records) = {have.in}
          <6>1. sessions[yest] # NoRows
            BY <4>2, <5>2, PlainRows DEF NoRows
          <6>2. sessions[yest] = DerivedRows(AttendedTimes(yest, records))
            BY <2>2, <5>3, <6>1 DEF Agrees
          <6>3. AttendedTimes(yest, records) \in SUBSET (Nat \ {0}) /\ IsFiniteSet(AttendedTimes(yest, records))
            BY <1>5, AttendedAreTimes
          <6>4. have = DerivedRows(AttendedTimes(yest, records))[visit[s]]
            BY <4>2, <5>2, <6>2
          <6> QED
            BY <2>1, <4>2, <5>1, <6>3, <6>4, OneRecord
        <5>5. AttendedTimes(today, records) = {}
          <6>1. AttendedTimes(today, records) \in SUBSET (Nat \ {0}) /\ IsFiniteSet(AttendedTimes(today, records))
            BY <1>5, AttendedAreTimes
          <6> QED
            BY <2>1, <2>2, <2>7, <5>1, <5>3, <6>1, RecordsAttend DEF Agrees
        <5>6. /\ yest \in Nat
              /\ AttendedTimes(yest, records) = {r.time : r \in {q \in records : AttendanceDay(q, records) = yest}}
              /\ AttendedTimes(today, records) = {r.time : r \in {q \in records : AttendanceDay(q, records) = today}}
          BY <1>5, <2>3, <2>7, AttendedAlone DEF DaysClear
        <5>7. \A q \in records : q.time <= c.time
          <6> SUFFICES ASSUME NEW q \in records, ~ q.time <= c.time PROVE FALSE
            OBVIOUS
          <6>1. q \in Record /\ q.time \in Nat \ {0} /\ c.time \in Nat \ {0} /\ q.time < at[s] /\ c.time < q.time
            BY <1>4, <1>5, <4>4, RecordTimes
          <6>2. Day(c.time) <= Day(q.time) /\ Day(q.time) <= today /\ Day(q.time) \in Nat
            <7>1. c.time <= q.time /\ q.time <= at[s]
              BY <1>5, <6>1
            <7> QED
              BY <1>5, <2>6, <6>1, <7>1, DayInNat
          <6>3. Day(q.time) = yest \/ Day(q.time) = today
            BY <2>7, <4>3, <5>1, <5>2, <5>6, <6>2
          <6>4. AttendanceDay(q, records) \in {Day(q.time), Day(q.time) - 1}
            BY AttendedDays
          <6>5. AttendanceDay(q, records) # today
            BY <5>5, <5>6
          <6>6. AttendanceDay(q, records) # yest
            <7>1. q.time # have.in
              BY <4>3, <6>1
            <7> QED
              BY <5>4, <5>6, <7>1
          <6>7. Day(q.time) = yest
            BY <2>7, <5>1, <5>2, <6>3, <6>4, <6>5, <6>6
          <6>8. AttendanceDay(q, records) = Day(q.time)
            BY <1>5, <2>3, <4>3, <5>2, <6>1, <6>7, SameDay
          <6> QED
            BY <6>6, <6>7, <6>8
        <5>8. Before(nr, recs) = records
          BY <1>2, <1>4, <1>5, <2>4 DEF Before
        <5>9. Latest(records) = c
          BY <1>5, <2>3, <5>7, LatestIs
        <5>10. /\ nr.type = "check_out" /\ records # {} /\ IsOvernight(c.time, nr.time)
          <6>1. ~ NextVisit(s)
            BY <2>1 DEF NextVisit
          <6> QED
            BY <1>2, <3>2, <4>3, <5>1, <6>1 DEF ScanType
        <5>11. AttendanceDay(nr, recs) = Day(nr.time) - 1
          BY <2>5, <4>3, <5>8, <5>9, <5>10, TypedDay
        <5> QED
          BY <1>2, <2>6, <5>1, <5>11
      <4> QED
        BY <4>5, <4>6
    <3> QED
      BY <3>1, <3>2
  <2> QED
    BY <1>1, <1>2, <1>4, <2>3, <2>4, <2>5, <2>9 DEF DaysClear
<1> QED
  BY <1>6, <1>7

\* The rule does not change, nor what it makes of records.
LEMMA SameRule ==
    ASSUME UNCHANGED rule
    PROVE  /\ \A d, recs : AttendedTimes(d, recs)' = AttendedTimes(d, recs)
           /\ \A T : DerivedRows(T)' = DerivedRows(T)
           /\ \A i, o : IsOvernight(i, o)' <=> IsOvernight(i, o)
<1>0. mode' = mode /\ shift' = shift
  BY DEF rule
<1>1. \A i, o : IsOvernight(i, o)' <=> IsOvernight(i, o)
  BY <1>0 DEF IsOvernight
<1>2. \A d, recs : AttendedTimes(d, recs)' = AttendedTimes(d, recs)
  BY <1>0 DEF AttendedTimes, AttendanceDay, ArrivalPending, IsOvernight
<1>3. \A T : DerivedRows(T)' = DerivedRows(T)
  BY <1>0 DEF DerivedRows
<1> QED
  BY <1>1, <1>2, <1>3

LEMMA AgreesLater ==
    ASSUME UNCHANGED rule, NEW d,
           \/ \E v \in Visits : sessions'[d][v].manual
           \/ sessions'[d] = NoRows /\ AttendedTimes(d, records') = {}
           \/ sessions'[d] = DerivedRows(AttendedTimes(d, records'))
    PROVE  Agrees(d)'
<1>1. AttendedTimes(d, records)' = AttendedTimes(d, records')
  BY SameRule
<1>2. DerivedRows(AttendedTimes(d, records))' = DerivedRows(AttendedTimes(d, records'))
  BY <1>1, SameRule
<1> QED
  BY <1>1, <1>2 DEF Agrees, HasOverride

\* A day that nothing touches.
LEMMA AgreesStill ==
    ASSUME UNCHANGED rule, NEW d, Agrees(d), sessions'[d] = sessions[d],
           AttendedTimes(d, records') = AttendedTimes(d, records)
    PROVE  Agrees(d)'
BY AgreesLater DEF Agrees, HasOverride

\* A day whose visits are rebuilt.
LEMMA AgreesRebuilt ==
    ASSUME Inv, UNCHANGED rule, NEW d \in Days, records' \in SUBSET Record, AllKept,
           sessions'[d] = SavedRows(sessions[d], sessions[d], ComputedRows(d, sessions[d], records'))
    PROVE  Agrees(d)'
<1>1. sessions[d] \in [Visits -> Row]
  BY DEF Inv, TypeOK
<1>2. CASE \E v \in Visits : sessions[d][v].manual
  <2>1. \E v \in Visits : sessions'[d][v].manual
    BY <1>2 DEF AllKept, Kept
  <2> QED
    BY <2>1, AgreesLater
<1>3. CASE ~ \E v \in Visits : sessions[d][v].manual
  <2>1. \A v \in Visits : sessions[d][v].manual = FALSE
    <3>1. \A v \in Visits : sessions[d][v].manual \in BOOLEAN
      BY <1>1 DEF Row
    <3> QED
      BY <1>3, <3>1
  <2>2. sessions'[d] = DerivedRows(AttendedTimes(d, records'))
    BY <1>1, <2>1, RebuiltPlain
  <2> QED
    BY <2>2, AgreesLater
<1> QED
  BY <1>2, <1>3

LEMMA CountsOK ==
    ASSUME Inv, AgreeInv
    PROVE  /\ posts \in Nat /\ voids \in Nat /\ edits \in Nat /\ shift \in Nat
           /\ records \in SUBSET Record /\ sessions \in [Days -> [Visits -> Row]] /\ mode \in AllModes
BY DEF Inv, TypeOK, AgreeInv, ClockAhead

LEMMA QuietAgrees ==
    ASSUME Inv, AgreeInv, StoreAgrees, UNCHANGED <<rule, store, posts, voids>>, edits' \in {edits, edits + 1}
    PROVE  StoreAgrees'
<1>0. UNCHANGED <<mode, shift, records, sessions>> /\ UNCHANGED rule
  BY DEF rule, store
<1>1. Corrected => Corrected'
  <2>1. edits' >= edits /\ edits' \in Nat /\ posts' = posts /\ voids' = voids
    BY CountsOK
  <2> QED
    BY <2>1, CountsOK DEF Corrected
<1>2. OvernightCorrected => OvernightCorrected'
  BY <1>0, <1>1 DEF OvernightCorrected, Corrected
<1>3. OnlyScanned => OnlyScanned'
  BY <1>0 DEF OnlyScanned
<1>4. \A d \in Days : Agrees(d) => Agrees(d)'
  BY <1>0, AgreesStill
<1> QED
  BY <1>0, <1>1, <1>2, <1>3, <1>4 DEF StoreAgrees

LEMMA PostAgrees ==
    ASSUME Inv, AgreeInv, StoreAgrees, PostRecord, UNCHANGED part
    PROVE  StoreAgrees'
<1>1. PICK t \in 1 .. now :
         /\ records' = records \cup {[time |-> t, type |-> "untyped", manual |-> TRUE]}
         /\ sessions' = [sessions EXCEPT ![Day(t)] =
                Recomputed(Day(t), records \cup {[time |-> t, type |-> "untyped", manual |-> TRUE]})]
  BY DEF PostRecord
<1>2. UNCHANGED rule /\ posts' = posts + 1 /\ voids' = voids /\ edits' = edits /\ shift' = shift
  BY DEF PostRecord, rule
<1>3. AllKept /\ records' \in SUBSET Record
  BY PostStores DEF RowsStored
<1>4. Corrected'
  BY <1>2, CountsOK DEF Corrected
<1>5. ASSUME ~ OvernightCorrected', NEW d \in Days PROVE Agrees(d)'
  <2>1. shift = 0 /\ PlainDays /\ ~ OvernightCorrected
    BY <1>2, <1>4, <1>5, CountsOK DEF OvernightCorrected, Corrected, PlainDays
  <2>2. CASE d = Day(t)
    <3>1. sessions'[d] = Recomputed(d, records')
      BY <1>1, <2>2, CountsOK
    <3>2. sessions'[d] = SavedRows(sessions[d], sessions[d], ComputedRows(d, sessions[d], records'))
      BY <3>1 DEF Recomputed
    <3> QED
      BY <1>2, <1>3, <3>2, AgreesRebuilt
  <2>3. CASE d # Day(t)
    <3>1. sessions'[d] = sessions[d]
      BY <1>1, <2>3, CountsOK
    <3>2. \A r \in Record : Day(r.time) = d => (r \in records' <=> r \in records)
      BY <1>1, <2>3
    <3>3. d \in Nat
      BY TimesAreCounted
    <3>4. AttendedTimes(d, records') = AttendedTimes(d, records)
      BY <1>3, <2>1, <3>2, <3>3, CountsOK, OwnDay
    <3> QED
      BY <1>2, <2>1, <3>1, <3>4, AgreesStill DEF StoreAgrees
  <2> QED
    BY <2>2, <2>3
<1> QED
  BY <1>4, <1>5 DEF StoreAgrees

LEMMA VoidAgrees ==
    ASSUME Inv, AgreeInv, StoreAgrees, NEW r \in records, VoidRecord(r), UNCHANGED part
    PROVE  StoreAgrees'
<1>1. /\ records' = records \ {r}
      /\ sessions' = [d \in Days |-> IF d \in AffectedDays(r) THEN Recomputed(d, records') ELSE sessions[d]]
  BY DEF VoidRecord
<1>2. UNCHANGED rule /\ posts' = posts /\ voids' = voids + 1 /\ edits' = edits /\ shift' = shift
  BY DEF VoidRecord, rule
<1>3. AllKept /\ records' \in SUBSET Record
  BY VoidStores DEF RowsStored
<1>4. Corrected'
  BY <1>2, CountsOK DEF Corrected
<1>5. ASSUME ~ OvernightCorrected', NEW d \in Days PROVE Agrees(d)'
  <2>1. shift = 0 /\ PlainDays /\ ~ OvernightCorrected
    BY <1>2, <1>4, <1>5, CountsOK DEF OvernightCorrected, Corrected, PlainDays
  <2>2. CASE d \in AffectedDays(r)
    <3>1. sessions'[d] = Recomputed(d, records')
      BY <1>1, <2>2
    <3>2. sessions'[d] = SavedRows(sessions[d], sessions[d], ComputedRows(d, sessions[d], records'))
      BY <3>1 DEF Recomputed
    <3> QED
      BY <1>2, <1>3, <3>2, AgreesRebuilt
  <2>3. CASE d \notin AffectedDays(r)
    <3>1. sessions'[d] = sessions[d] /\ d # Day(r.time)
      BY <1>1, <2>3 DEF AffectedDays
    <3>2. \A q \in Record : Day(q.time) = d => (q \in records' <=> q \in records)
      BY <1>1, <3>1
    <3>3. d \in Nat
      BY TimesAreCounted
    <3>4. AttendedTimes(d, records') = AttendedTimes(d, records)
      BY <1>3, <2>1, <3>2, <3>3, CountsOK, OwnDay
    <3> QED
      BY <1>2, <2>1, <3>1, <3>4, AgreesStill DEF StoreAgrees
  <2> QED
    BY <2>2, <2>3
<1> QED
  BY <1>4, <1>5 DEF StoreAgrees

LEMMA OverrideAgrees ==
    ASSUME Inv, AgreeInv, StoreAgrees, NEW e \in Editors, Override(e), edits > 0
    PROVE  StoreAgrees'
<1>1. PICK row : sessions' = [sessions EXCEPT ![day[e]][visit[e]] = [row EXCEPT !.manual = TRUE]]
  BY DEF Override
<1>2. UNCHANGED <<rule, records, posts, voids, edits, shift>>
  BY DEF Override, rule, counts
<1>3. day[e] \in Days /\ visit[e] \in Visits /\ part = "single"
  BY OverrideStores DEF Override, Inv, StepsOK
<1>4. Corrected /\ Corrected'
  BY <1>2, CountsOK DEF Corrected
<1>5. ASSUME ~ OvernightCorrected', NEW d \in Days PROVE Agrees(d)'
  <2>1. Agrees(d) /\ UNCHANGED rule
    BY <1>2, <1>5 DEF OvernightCorrected, StoreAgrees
  <2>2. CASE d = day[e]
    <3>1. sessions'[d][visit[e]] = [row EXCEPT !.manual = TRUE]
      BY <1>1, <1>3, <2>2, CountsOK
    <3>2. sessions'[d][visit[e]].manual
      <4>1. sessions'[d][visit[e]] \in Row
        BY <1>3, OverrideStores DEF RowsStored
      <4>2. PICK new : new = sessions'[d][visit[e]]
        OBVIOUS
      <4>3. new = [row EXCEPT !.manual = TRUE] /\ "manual" \in DOMAIN new
        BY <3>1, <4>1, <4>2 DEF Row
      <4>4. new.manual = TRUE
        BY <4>3
      <4> QED
        BY <4>2, <4>4
    <3> QED
      BY <1>3, <2>1, <3>2, AgreesLater
  <2>3. CASE d # day[e]
    <3>1. sessions'[d] = sessions[d]
      BY <1>1, <2>3, CountsOK
    <3>2. AttendedTimes(d, records') = AttendedTimes(d, records)
      BY <1>2
    <3> QED
      BY <2>1, <3>1, <3>2, AgreesStill
  <2> QED
    BY <2>2, <2>3
<1> QED
  BY <1>4, <1>5 DEF StoreAgrees

LEMMA SaveAgrees ==
    ASSUME Inv, AgreeInv, StoreAgrees, part = "single", NEW r \in Reporters, SaveRows(r)
    PROVE  StoreAgrees'
<1>1. UNCHANGED <<mode, shift, records, posts, voids, edits>> /\ UNCHANGED rule
  BY DEF SaveRows, rule, counts
<1>2. PICK d : d = day[r]
  OBVIOUS
<1>3. d \in Days /\ snap[r] = sessions[d] /\ rows[r] = ComputedRows(d, sessions[d], records)
  BY <1>2 DEF SaveRows, Inv, StepsOK, LoadedIsStored, AgreeInv, SingleAgrees, FlightAgrees
<1>4. sessions' = [sessions EXCEPT ![d] = SavedRows(sessions[d], sessions[d], ComputedRows(d, sessions[d], records))]
  BY <1>2, <1>3 DEF SaveRows
<1>5. AllKept /\ records' \in SUBSET Record
  BY SaveStores DEF RowsStored
<1>6. ASSUME ~ OvernightCorrected', NEW c \in Days PROVE Agrees(c)'
  <2>1. Agrees(c)
    BY <1>1, <1>6 DEF OvernightCorrected, StoreAgrees
  <2>2. CASE c = d
    <3>1. sessions'[c] = SavedRows(sessions[c], sessions[c], ComputedRows(c, sessions[c], records'))
      BY <1>1, <1>4, <2>2, CountsOK
    <3> QED
      BY <1>1, <1>5, <3>1, AgreesRebuilt
  <2>3. CASE c # d
    <3>1. sessions'[c] = sessions[c] /\ AttendedTimes(c, records') = AttendedTimes(c, records)
      BY <1>1, <1>4, <2>3, CountsOK
    <3> QED
      BY <1>1, <2>1, <3>1, AgreesStill
  <2> QED
    BY <2>2, <2>3
<1>7. ASSUME shift > 0, ~ Corrected PROVE OnlyScanned'
  <2>1. OnlyScanned /\ Agrees(d)
    BY <1>3, <1>7 DEF StoreAgrees, OvernightCorrected, Corrected
  <2>2. PICK T : T = AttendedTimes(d, records)
    OBVIOUS
  <2>3. T \in SUBSET (Nat \ {0}) /\ IsFiniteSet(T)
    BY <2>2, CountsOK, AttendedAreTimes
  <2>4. \A v \in Visits : sessions[d][v].manual = FALSE
    BY <1>3, <2>1 DEF OnlyScanned
  <2>5. sessions'[d] = DerivedRows(T)
    <3>1. sessions[d] \in [Visits -> Row]
      BY <1>3, CountsOK
    <3> QED
      BY <1>3, <1>4, <2>2, <2>4, <3>1, CountsOK, RebuiltPlain
  <2>6. ASSUME NEW v \in Visits
        PROVE  sessions'[d][v] = sessions[d][v] \/ (sessions'[d][v].in = 0 /\ sessions'[d][v].manual = FALSE)
    <3>1. CASE sessions[d] = DerivedRows(T)
      BY <2>5, <3>1
    <3>2. CASE T = {}
      <4>1. sessions'[d][v] = Absent \/ sessions'[d][v] = NoRow
        BY <2>3, <2>5, <3>2, DerivedOf
      <4> QED
        BY <4>1, PlainRows
    <3> QED
      BY <2>1, <2>2, <2>4, <3>1, <3>2 DEF Agrees, HasOverride
  <2>7. ASSUME NEW c \in Days, NEW v \in Visits
        PROVE  sessions'[c][v] = sessions[c][v] \/ (sessions'[c][v].in = 0 /\ sessions'[c][v].manual = FALSE)
    <3>1. c # d => sessions'[c] = sessions[c]
      BY <1>4, CountsOK
    <3> QED
      BY <2>6, <3>1
  <2>8. ASSUME NEW c \in Days, NEW v \in Visits
        PROVE  /\ sessions'[c][v].manual = FALSE
               /\ sessions'[c][v].in > 0 =>
                     \E q \in records : q.time = sessions'[c][v].in /\ q.type = "check_in" /\ Day(q.time) = c
    <3>1. CASE sessions'[c][v] = sessions[c][v]
      BY <2>1, <3>1 DEF OnlyScanned
    <3>2. CASE sessions'[c][v].in = 0 /\ sessions'[c][v].manual = FALSE
      BY <3>2
    <3> QED
      BY <2>7, <3>1, <3>2
  <2> QED
    BY <1>1, <2>1, <2>8 DEF OnlyScanned
<1>8. (shift > 0 /\ ~ Corrected)' => shift > 0 /\ ~ Corrected
  BY <1>1 DEF Corrected
<1> QED
  BY <1>6, <1>7, <1>8 DEF StoreAgrees

\* What a scan stores, seen from what it has loaded.
LEMMA ScanTarget ==
    ASSUME Inv, AgreeInv, part = "single", NEW s \in Scanners, Accept(s)
    PROVE  /\ day[s] \in Days /\ TargetVisit(s) \in Visits /\ ~ Rejected(s) /\ at[s] \in Nat \ {0}
           /\ records' = records \cup {Added(s)}
           /\ sessions' = [sessions EXCEPT ![day[s]] = [sessions[day[s]] EXCEPT ![TargetVisit(s)] =
                 Merge(IF NextVisit(s) THEN NoRow ELSE view[s], ScannedRow(s), sessions[day[s]][TargetVisit(s)])]]
           /\ LoadedFrom(s, sessions[day[s]])
<1>1. pc[s] = "decide" /\ ScanLoaded(s) /\ ScanRead(s)
  BY DEF Accept, Inv, LoadedIsStored, AgreeInv, SingleAgrees, FlightAgrees
<1>2. 0 \notin Visits
  BY VisitsAreCounted
<1>3. day[s] \in Days /\ at[s] \in Nat \ {0}
  BY <1>1, TimesAreCounted DEF Inv, StepsOK
<1>4. /\ TargetVisit(s) \in Visits /\ ~ Rejected(s) /\ records' = records \cup {Added(s)}
      /\ sessions' = [sessions EXCEPT ![day[s]][TargetVisit(s)] =
            Merge(IF NextVisit(s) THEN NoRow ELSE view[s], ScannedRow(s), @)]
  BY DEF Accept, Added
<1>5. LoadedFrom(s, sessions[day[s]])
  BY <1>1, <1>2 DEF ScanLoaded, ScanRead, LoadedFrom
<1>6. sessions' = [sessions EXCEPT ![day[s]] = [sessions[day[s]] EXCEPT ![TargetVisit(s)] =
          Merge(IF NextVisit(s) THEN NoRow ELSE view[s], ScannedRow(s), sessions[day[s]][TargetVisit(s)])]]
  BY <1>4
<1> QED
  BY <1>3, <1>4, <1>5, <1>6

LEMMA AcceptDerives ==
    ASSUME Inv, AgreeInv, part = "single", NEW s \in Scanners, Accept(s), ~ OvernightCorrected,
           NEW d \in Days
    PROVE  Agrees(d)'
<1>0. Agrees(d) /\ UNCHANGED rule /\ pc[s] = "decide"
  BY DEF AgreeInv, SingleAgrees, FlightAgrees, StoreAgrees, Accept, rule
<1>1. /\ Added(s) \in Record /\ \A q \in records : q.time < Added(s).time
      /\ DaysClear(records) /\ DaysClear(records \cup {Added(s)})
      /\ AttendanceDay(Added(s), records \cup {Added(s)}) = day[s]
  BY <1>0, HomeOfScan
<1>2. records' = records \cup {Added(s)} /\ d \in Nat /\ records \in SUBSET Record /\ Added(s).time = at[s]
  BY ScanTarget, CountsOK, TimesAreCounted DEF Added
<1>3. AttendedTimes(d, records') = AttendedTimes(d, records) \cup (IF day[s] = d THEN {at[s]} ELSE {})
  BY <1>1, <1>2, LaterAlone
<1>4. CASE d # day[s]
  <2>1. sessions'[d] = sessions[d]
    <3>1. \E changed : sessions' = [sessions EXCEPT ![day[s]] = changed]
      BY ScanTarget
    <3> QED
      BY <1>4, <3>1, CountsOK
  <2>2. AttendedTimes(d, records') = AttendedTimes(d, records)
    BY <1>3, <1>4
  <2> QED
    BY <1>0, <2>1, <2>2, AgreesStill
<1>5. CASE d = day[s]
  <2>1. CASE \E v \in Visits : sessions[d][v].manual
    <3>1. AllKept
      BY AcceptStores
    <3>2. \E v \in Visits : sessions'[d][v].manual
      BY <2>1, <3>1 DEF AllKept, Kept
    <3> QED
      BY <1>0, <3>2, AgreesLater
  <2>2. CASE ~ \E v \in Visits : sessions[d][v].manual
    <3>1. PICK t, old, T, v, loaded, row :
             /\ t = at[s] /\ old = sessions[d] /\ T = AttendedTimes(d, records) /\ v = TargetVisit(s)
             /\ loaded = (IF NextVisit(s) THEN NoRow ELSE view[s]) /\ row = Merge(loaded, ScannedRow(s), old[v])
      OBVIOUS
    <3>2. old \in [Visits -> Row] /\ \A w \in Visits : old[w].manual = FALSE
      <4>1. old \in [Visits -> Row]
        BY <3>1, CountsOK
      <4>2. \A w \in Visits : old[w].manual \in BOOLEAN
        BY <4>1 DEF Row
      <4> QED
        BY <2>2, <3>1, <4>1, <4>2
    <3>3. T \in SUBSET (Nat \ {0}) /\ IsFiniteSet(T)
      BY <1>2, <3>1, AttendedAreTimes
    <3>4. old = DerivedRows(T) \/ (T = {} /\ old = NoRows)
      BY <1>0, <2>2, <3>1 DEF Agrees, HasOverride
    <3>5. \A u \in T : u < t
      <4>1. T \subseteq {r.time : r \in records}
        BY <3>1 DEF AttendedTimes
      <4> QED
        BY <1>1, <1>2, <3>1, <4>1
    <3>6. t \in Nat \ {0} /\ ~ Rejected(s) /\ v \in Visits /\ mode \in AllModes
      BY <3>1, ScanTarget, CountsOK
    <3>7. LoadedFrom(s, old)
      BY <1>5, <3>1, ScanTarget
    <3>a. [old EXCEPT ![v] = row] = DerivedRows(T \cup {t})
      <4>1. t \in Nat \ {0} /\ t = at[s] /\ (\A u \in T : u < t) /\ mode \in AllModes
        BY <3>1, <3>5, <3>6
      <4>2. ScanFollows(s, T, t, old)
        BY <3>2, <3>3, <3>4, <3>6, <3>7, <4>1 DEF ScanFollows
      <4>3. ScanWrites(s, old, v, loaded, row)
        BY <3>1, <3>6 DEF ScanWrites
      <4> QED
        BY <4>2, <4>3, ScanDerives
    <3>8. sessions'[d] = [old EXCEPT ![v] = row]
      <4>1. sessions' = [sessions EXCEPT ![day[s]] = [old EXCEPT ![v] = row]]
        BY <1>5, <3>1, ScanTarget
      <4> QED
        BY <1>5, <4>1, CountsOK
    <3>9. AttendedTimes(d, records') = T \cup {t}
      BY <1>3, <1>5, <3>1
    <3> QED
      BY <1>0, <3>a, <3>8, <3>9, AgreesLater
  <2> QED
    BY <2>1, <2>2
<1> QED
  BY <1>4, <1>5

LEMMA AcceptOnlyScans ==
    ASSUME Inv, AgreeInv, part = "single", NEW s \in Scanners, Accept(s), shift > 0, ~ Corrected
    PROVE  OnlyScanned'
<1>0. OnlyScanned /\ pc[s] = "decide" /\ ~ OvernightCorrected
  BY DEF AgreeInv, SingleAgrees, FlightAgrees, StoreAgrees, Accept, OvernightCorrected, Corrected
<1>1. /\ Added(s) \in Record /\ \A q \in records : q.time < Added(s).time
      /\ AttendanceDay(Added(s), records \cup {Added(s)}) = day[s]
  BY <1>0, HomeOfScan
<1>2. /\ records' = records \cup {Added(s)} /\ records \in SUBSET Record /\ day[s] \in Days
      /\ Added(s).time = at[s] /\ Added(s).type = ScanType(s) /\ at[s] \in Nat \ {0} /\ view[s] \in Row
      /\ sessions \in [Days -> [Visits -> Row]]
  BY ScanTarget, CountsOK DEF Added, Inv, TypeOK
<1>3. TypedOnly(records') /\ Apart(records')
  <2>1. Added(s).type # "untyped"
    BY <1>2 DEF ScanType
  <2>2. \A q \in records : q.time # Added(s).time
    <3>1. \A q \in records : q.time \in Nat
      BY <1>2, RecordTimes
    <3> QED
      BY <1>1, <1>2, <3>1
  <2> QED
    BY <1>0, <1>2, <2>1, <2>2 DEF OnlyScanned, TypedOnly, Apart
<1>4. PICK old, v, loaded, row :
         /\ old = sessions[day[s]] /\ v = TargetVisit(s)
         /\ loaded = (IF NextVisit(s) THEN NoRow ELSE view[s]) /\ row = Merge(loaded, ScannedRow(s), old[v])
  OBVIOUS
<1>5. /\ v \in Visits /\ sessions' = [sessions EXCEPT ![day[s]] = [old EXCEPT ![v] = row]]
      /\ LoadedFrom(s, old)
  BY <1>4, ScanTarget
<1>6. old \in [Visits -> Row] /\ old[v] \in Row /\ old[v].manual = FALSE /\ view[s].in \in Nat
  BY <1>0, <1>2, <1>4, <1>5 DEF OnlyScanned, Row
<1>7. old[v] = NoRow \/ loaded = old[v]
  <2>1. CASE visit[s] = 0
    BY <1>5, <2>1, VisitsAreCounted DEF LoadedFrom
  <2>2. CASE visit[s] \in Visits /\ ~ NextVisit(s)
    <3>1. v = visit[s]
      BY <1>4, <2>2, VisitsAreCounted DEF TargetVisit
    <3> QED
      BY <1>4, <1>5, <2>2, <3>1, VisitsAreCounted DEF LoadedFrom
  <2>3. CASE visit[s] \in Visits /\ NextVisit(s)
    <3>0. visit[s] \in Nat /\ visit[s] # 0
      BY <2>3, VisitsAreCounted
    <3>1. v = visit[s] + 1 /\ v > visit[s] /\ mode = "visits" /\ visit[s] # 0
      BY <1>4, <2>3, <3>0 DEF TargetVisit, NextVisit
    <3> QED
      BY <1>5, <3>0, <3>1 DEF LoadedFrom
  <2> QED
    BY <1>5, <2>1, <2>2, <2>3 DEF LoadedFrom
<1>8. ScannedRow(s) = Present(view[s].in, at[s]) \/ ScannedRow(s) = Present(at[s], 0)
  BY DEF ScannedRow
<1>9. row = ScannedRow(s)
  <2>1. \A i \in Nat, o \in Nat : /\ Merge(old[v], Present(i, o), old[v]) = Present(i, o)
                                  /\ \A other : Merge(other, Present(i, o), NoRow) = Present(i, o)
    BY <1>6, MergedPlain
  <2>2. at[s] \in Nat /\ 0 \in Nat
    BY <1>2
  <2> QED
    BY <1>4, <1>6, <1>7, <1>8, <2>1, <2>2
<1>10. row.manual = FALSE
  BY <1>8, <1>9 DEF Present
<1>11. row.in > 0 => \E c \in records' : c.time = row.in /\ c.type = "check_in" /\ Day(c.time) = day[s]
  <2>1. CASE CheckedIn(s) /\ ~ NextVisit(s)
    <3>1. row.in = view[s].in /\ view[s].in > 0
      BY <1>9, <2>1 DEF ScannedRow, Present, CheckedIn
    <3>2. visit[s] \in Visits /\ view[s] = sessions[day[s]][visit[s]]
      <4>1. view[s] # NoRow
        BY <3>1, PlainRows
      <4> QED
        BY <1>4, <1>5, <4>1 DEF LoadedFrom
    <3>3. \E c \in records : c.time = view[s].in /\ c.type = "check_in" /\ Day(c.time) = day[s]
      BY <1>0, <1>2, <3>1, <3>2 DEF OnlyScanned
    <3> QED
      BY <1>2, <3>1, <3>3
  <2>2. CASE ~ (CheckedIn(s) /\ ~ NextVisit(s))
    <3>1. row.in = at[s] /\ Added(s).type = "check_in"
      BY <1>2, <1>9, <2>2 DEF ScannedRow, ScanType, Present
    <3>2. Day(Added(s).time) = day[s]
      <4>1. AttendanceDay(Added(s), records \cup {Added(s)}) = Day(Added(s).time)
        BY <3>1 DEF AttendanceDay
      <4> QED
        BY <1>1, <4>1
    <3> QED
      BY <1>2, <3>1, <3>2
  <2> QED
    BY <2>1, <2>2
<1>12. ASSUME NEW c \in Days, NEW w \in Visits
       PROVE  /\ sessions'[c][w].manual = FALSE
              /\ sessions'[c][w].in > 0 =>
                    \E q \in records' : q.time = sessions'[c][w].in /\ q.type = "check_in" /\ Day(q.time) = c
  <2>1. CASE c = day[s] /\ w = v
    <3>1. sessions'[c][w] = row
      BY <1>2, <1>5, <1>6, <2>1
    <3> QED
      BY <1>10, <1>11, <2>1, <3>1
  <2>2. CASE ~ (c = day[s] /\ w = v)
    <3>1. sessions'[c][w] = sessions[c][w]
      BY <1>2, <1>4, <1>5, <1>6, <2>2
    <3>2. /\ sessions[c][w].manual = FALSE
          /\ sessions[c][w].in > 0 =>
                \E q \in records : q.time = sessions[c][w].in /\ q.type = "check_in" /\ Day(q.time) = c
      BY <1>0 DEF OnlyScanned
    <3> QED
      BY <1>2, <3>1, <3>2
  <2> QED
    BY <2>1, <2>2
<1> QED
  BY <1>3, <1>12 DEF OnlyScanned

LEMMA AcceptAgrees ==
    ASSUME Inv, AgreeInv, part = "single", NEW s \in Scanners, Accept(s)
    PROVE  StoreAgrees'
<1>1. UNCHANGED <<shift, posts, voids, edits>>
  BY DEF Accept, rule, counts
<1>2. (shift > 0 /\ ~ Corrected)' => shift > 0 /\ ~ Corrected
  BY <1>1 DEF Corrected
<1>3. (~ OvernightCorrected)' => ~ OvernightCorrected
  BY <1>1 DEF OvernightCorrected
<1> QED
  BY <1>2, <1>3, AcceptDerives, AcceptOnlyScans DEF StoreAgrees

LEMMA ClockStep ==
    ASSUME Inv, ClockAhead, Next
    PROVE  ClockAhead'
<1>0. /\ now \in Nat /\ shift \in Nat /\ edits \in Nat /\ records \in SUBSET Record
      /\ pc \in [Requests -> {"idle", "recent", "session", "previous", "decide", "edit", "records", "save"}]
      /\ at \in [Scanners -> Nat]
  BY TimesAreCounted DEF Inv, TypeOK, ClockAhead
<1>1. \A r \in records : r.time \in Nat
  BY <1>0, RecordTimes
<1>a. ASSUME now' \in Nat, now <= now', shift' = shift, edits' = edits \/ edits' = edits + 1,
             \A r \in records' : r \in records \/ r.time < now',
             \A s \in Scanners : pc'[s] = "idle" \/ (pc[s] # "idle" /\ at'[s] = at[s]) \/ at'[s] < now'
      PROVE  ClockAhead'
  <2>1. \A r \in records' : r.time < now'
    BY <1>0, <1>1, <1>a DEF ClockAhead
  <2>2. \A s \in Scanners : pc'[s] # "idle" => at'[s] < now'
    BY <1>0, <1>a DEF ClockAhead
  <2> QED
    BY <1>0, <1>a, <2>1, <2>2 DEF ClockAhead
<1>b. ASSUME UNCHANGED <<now, shift, edits, records, at>>,
             \A s \in Scanners : pc'[s] = "idle" \/ pc[s] # "idle"
      PROVE  ClockAhead'
  BY <1>0, <1>a, <1>b
<1>2. CASE Tick
  <2>1. /\ now' = now + 1 /\ UNCHANGED <<shift, edits, records, pc, at>>
    BY <1>2 DEF Tick, rule, counts, store, scanVars
  <2> QED
    BY <1>0, <1>a, <2>1
<1>3. ASSUME NEW s \in Scanners, BeginScan(s) PROVE ClockAhead'
  <2>1. /\ now' = now + 1 /\ UNCHANGED <<shift, edits, records>>
        /\ pc' = [pc EXCEPT ![s] = "recent"] /\ at' = [at EXCEPT ![s] = now]
    BY <1>3 DEF BeginScan, rule, counts, store
  <2>2. \A q \in Scanners : pc'[q] = "idle" \/ (pc[q] # "idle" /\ at'[q] = at[q]) \/ at'[q] < now'
    BY <1>0, <2>1, KindsOfRequests
  <2> QED
    BY <1>0, <1>a, <2>1, <2>2
<1>4. ASSUME NEW s \in Scanners, ReadRecent(s) \/ ReadSession(s) \/ ReadPrevious(s) PROVE ClockAhead'
  <2>1. /\ UNCHANGED <<now, shift, edits, records, at>> /\ pc[s] # "idle"
        /\ \E where : pc' = [pc EXCEPT ![s] = where]
    BY <1>4 DEF ReadRecent, ReadSession, ReadPrevious, rule, counts, store, scanVars
  <2> QED
    BY <1>0, <1>b, <2>1, KindsOfRequests
<1>5. ASSUME NEW s \in Scanners, Reject(s) \/ Accept(s) PROVE ClockAhead'
  <2>1. /\ UNCHANGED <<now, shift, edits>> /\ pc[s] # "idle"
        /\ pc' = [pc EXCEPT ![s] = "idle"] /\ at' = [at EXCEPT ![s] = 0]
        /\ records' = records \/ records' = records \cup {Added(s)}
    BY <1>5 DEF Reject, Accept, ScanEnds, rule, counts, store, Added
  <2>2. \A q \in Scanners : pc'[q] = "idle" \/ (pc[q] # "idle" /\ at'[q] = at[q])
    BY <1>0, <2>1, KindsOfRequests
  <2>3. Added(s).time < now
    BY <2>1 DEF Added, ClockAhead
  <2> QED
    BY <1>0, <1>a, <2>1, <2>2, <2>3
<1>6. CASE PostRecord
  <2>1. PICK t \in 1 .. now :
           /\ records' = records \cup {[time |-> t, type |-> "untyped", manual |-> TRUE]}
           /\ now' = IF t = now THEN now + 1 ELSE now
    BY <1>6 DEF PostRecord
  <2>2. UNCHANGED <<shift, edits, pc, at>>
    BY <1>6 DEF PostRecord, rule, scanVars
  <2>3. now' \in Nat /\ now <= now' /\ t < now'
    BY <1>0, <2>1
  <2>4. \A r \in records' : r \in records \/ r.time < now'
    BY <2>1, <2>3
  <2> QED
    BY <1>0, <1>a, <2>2, <2>3, <2>4
<1>7. ASSUME NEW r \in records, VoidRecord(r) PROVE ClockAhead'
  <2>1. UNCHANGED <<now, shift, edits, pc, at>> /\ records' = records \ {r}
    BY <1>7 DEF VoidRecord, rule, scanVars
  <2> QED
    BY <1>0, <1>a, <2>1
<1>8. ASSUME NEW e \in Editors, Edit(e) PROVE ClockAhead'
  <2>1. /\ UNCHANGED <<now, shift, records, at>> /\ (edits' = edits \/ edits' = edits + 1)
        /\ \E where : pc' = [pc EXCEPT ![e] = where]
    BY <1>8 DEF Edit, ReadVisit, Override, OverrideFails, EditEnds, rule, counts, store, scanVars
  <2>2. \A s \in Scanners : pc'[s] = pc[s]
    BY <1>0, <2>1, KindsOfRequests
  <2> QED
    BY <1>0, <1>a, <2>1, <2>2
<1>9. ASSUME NEW r \in Reporters, Report(r) PROVE ClockAhead'
  <2>1. /\ UNCHANGED <<now, shift, edits, records, at>> /\ \E where : pc' = [pc EXCEPT ![r] = where]
    BY <1>9 DEF Report, ReadRows, ReportAsStored, ReadRecords, SaveRows, ReportEnds,
                rule, counts, store, scanVars
  <2>2. \A s \in Scanners : pc'[s] = pc[s]
    BY <1>0, <2>1, KindsOfRequests
  <2> QED
    BY <1>0, <1>a, <2>1, <2>2
<1> QED
  BY <1>2, <1>3, <1>4, <1>5, <1>6, <1>7, <1>8, <1>9 DEF Next, Scan

\* What a scan reads of the day, and of the day before.
LEMMA ScanReads ==
    ASSUME Inv, AgreeInv, part = "single", UNCHANGED <<rule, store>>, NEW s \in Scanners,
           BeginScan(s) \/ ReadRecent(s) \/ ReadSession(s) \/ ReadPrevious(s),
           pc'[s] \in {"previous", "decide"}
    PROVE  ScanRead(s)'
<1>0. /\ pc \in [Requests -> {"idle", "recent", "session", "previous", "decide", "edit", "records", "save"}]
      /\ day \in [Requests -> Nat] /\ visit \in [Scanners \cup Editors -> Nat]
      /\ view \in [Scanners \cup Editors -> Row] /\ UNCHANGED <<mode, sessions>>
  BY DEF Inv, TypeOK, rule, store
<1>1. s \in Requests /\ s \in Scanners \cup Editors
  BY KindsOfRequests
<1>2. \A d : Unattended(d)' <=> Unattended(d)
  BY <1>0 DEF Unattended, StoredVisits, FirstVisit
<1>3. \A i, o : IsOvernight(i, o)' <=> IsOvernight(i, o)
  BY SameRule
<1>4. CASE BeginScan(s) \/ ReadRecent(s)
  BY <1>0, <1>1, <1>4 DEF BeginScan, ReadRecent
<1>5. CASE ReadSession(s)
  <2>1. PICK d, v, row : /\ d = Day(at[s]) /\ Loaded(s, d, v, row)
                         /\ v = IF StoredVisits(d) = {} THEN 0
                                ELSE IF mode = "visits" THEN LastVisit(d) ELSE FirstVisit(d)
                         /\ row = IF v = 0 THEN NoRow ELSE sessions[d][v]
    BY <1>5 DEF ReadSession
  <2>2. day'[s] = d /\ visit'[s] = v /\ view'[s] = row /\ at' = at
    BY <1>0, <1>1, <1>5, <2>1 DEF Loaded, ReadSession, scanVars
  <2>3. pc'[s] = "previous" => row.in = 0
    <3>1. pc'[s] = IF behavior[s] # "entry_only" /\ row.in = 0 /\ d > 1 THEN "previous" ELSE "decide"
      BY <1>0, <1>1, <1>5, <2>1 DEF ReadSession
    <3> QED
      BY <3>1
  <2>4. CASE StoredVisits(d) = {}
    <3>1. Unattended(d) /\ v = 0
      BY <2>1, <2>4 DEF Unattended
    <3>2. Unattended(d)'
      BY <1>2, <3>1
    <3> QED
      BY <2>1, <2>2, <3>1, <3>2 DEF ScanRead
  <2>5. CASE StoredVisits(d) # {}
    <3>1. v \in StoredVisits(d) /\ v # 0 /\ row = sessions[d][v] /\ row # NoRow
      BY <2>1, <2>5, VisitsAreFound, StoredRows, VisitsAreCounted
    <3>2. pc'[s] = "previous" /\ mode = "work_hours" => Unattended(d)
      BY <2>1, <2>3, <2>5, <3>1 DEF Unattended
    <3>3. (pc[s] = "previous" /\ mode = "work_hours" => Unattended(d))'
      BY <1>0, <1>2, <3>2
    <3> QED
      BY <2>1, <2>2, <3>1, <3>3 DEF ScanRead
  <2> QED
    BY <2>4, <2>5
<1>6. CASE ReadPrevious(s)
  <2>0. pc[s] = "previous" /\ pc'[s] = "decide" /\ at' = at
    BY <1>0, <1>1, <1>6 DEF ReadPrevious, scanVars
  <2>1. PICK today, before : today = Day(at[s]) /\ before = today - 1
    OBVIOUS
  <2>2. /\ visit[s] = 0 \/ view[s] # NoRow
        /\ day[s] = today /\ (mode = "work_hours" => Unattended(today))
    BY <2>0, <2>1 DEF AgreeInv, SingleAgrees, FlightAgrees, ScanRead
  <2>3. \/ /\ StoredVisits(before) # {} /\ sessions[before][LastVisit(before)].out = 0
           /\ IsOvernight(sessions[before][LastVisit(before)].in, at[s])
           /\ Loaded(s, before, LastVisit(before), sessions[before][LastVisit(before)])
        \/ UNCHANGED loadVars
    BY <1>6, <2>1 DEF ReadPrevious
  <2>4. CASE UNCHANGED loadVars
    BY <2>0, <2>1, <2>2, <2>4 DEF ScanRead, loadVars
  <2>5. CASE ~ UNCHANGED loadVars
    <3>1. PICK v, row : v = LastVisit(before) /\ row = sessions[before][v]
      OBVIOUS
    <3>2. /\ v \in StoredVisits(before) /\ row # NoRow /\ row.out = 0 /\ IsOvernight(row.in, at[s])
          /\ Loaded(s, before, v, row)
      BY <2>3, <2>5, <3>1, VisitsAreFound, StoredRows
    <3>3. day'[s] = before /\ visit'[s] = v /\ view'[s] = row
      BY <1>0, <1>1, <3>2 DEF Loaded
    <3>4. Unattended(today)
      BY <2>2, <3>2 DEF IsOvernight
    <3>5. PICK i, o : i = row.in /\ o = at[s]
      OBVIOUS
    <3>6. IsOvernight(i, o)' /\ Unattended(today)'
      BY <1>2, <1>3, <3>2, <3>4, <3>5
    <3>7. IsOvernight(view[s].in, at[s])' /\ Unattended(Day(at[s]))'
      BY <2>0, <2>1, <3>3, <3>5, <3>6
    <3> QED
      BY <2>0, <2>1, <3>2, <3>3, <3>7 DEF ScanRead
  <2> QED
    BY <2>4, <2>5
<1> QED
  BY <1>4, <1>5, <1>6

LEMMA IdleAgrees ==
    ASSUME \A r \in Requests : pc'[r] = "idle"
    PROVE  FlightAgrees'
BY KindsOfRequests DEF FlightAgrees

LEMMA ComputedAgain ==
    ASSUME UNCHANGED rule
    PROVE  \A d, old, recs : ComputedRows(d, old, recs)' = ComputedRows(d, old, recs)
<1> TAKE d, old, recs
<1>1. PICK T : T = AttendedTimes(d, recs)
  OBVIOUS
<1>2. AttendedTimes(d, recs)' = T /\ DerivedRows(T)' = DerivedRows(T)
  BY <1>1, SameRule
<1>3. DerivedRows(AttendedTimes(d, recs))' = DerivedRows(T)
  BY <1>2
<1> QED
  BY <1>1, <1>2, <1>3 DEF ComputedRows

LEMMA FlightStep ==
    ASSUME Inv, AgreeInv, part = "single", OneAtATime', UNCHANGED <<rule, store>>,
           \/ Tick
           \/ \E s \in Scanners : BeginScan(s) \/ ReadRecent(s) \/ ReadSession(s) \/ ReadPrevious(s)
           \/ \E e \in Editors : ReadVisit(e)
           \/ \E r \in Reporters : ReadRows(r) \/ ReadRecords(r)
    PROVE  FlightAgrees'
<1>0. /\ pc \in [Requests -> {"idle", "recent", "session", "previous", "decide", "edit", "records", "save"}]
      /\ at \in [Scanners -> Nat] /\ rows \in [Reporters -> [Visits -> Row]]
      /\ UNCHANGED <<mode, shift, records, sessions>> /\ edits \in Nat
      /\ \A r \in records : r.time < now
  BY DEF Inv, TypeOK, rule, store, AgreeInv, ClockAhead
<1>a. FlightAgrees
  BY DEF AgreeInv, SingleAgrees, FlightAgrees
<1>b. \A d, old, recs : ComputedRows(d, old, recs)' = ComputedRows(d, old, recs)
  BY ComputedAgain
<1>1. CASE Tick
  <2>1. UNCHANGED <<pc, at, day, visit, view, snap, rows, edits>>
    BY <1>1 DEF Tick, scanVars, loadVars, reportVars, counts
  <2>2. ASSUME NEW s \in Scanners, ScanRead(s) PROVE ScanRead(s)'
    BY <1>0, <2>1, <2>2 DEF ScanRead, Unattended, StoredVisits, FirstVisit, IsOvernight
  <2>3. ASSUME NEW r \in Reporters, rows[r] = ComputedRows(day[r], snap[r], records)
        PROVE  (rows[r] = ComputedRows(day[r], snap[r], records))'
    <3>1. PICK d, old, recs : d = day[r] /\ old = snap[r] /\ recs = records
      OBVIOUS
    <3>2. ComputedRows(d, old, recs)' = ComputedRows(d, old, recs)
      BY <1>b
    <3> QED
      BY <1>0, <2>1, <2>3, <3>1, <3>2
  <2> QED
    BY <1>0, <1>a, <2>1, <2>2, <2>3 DEF FlightAgrees
<1>2. ASSUME NEW s \in Scanners, BeginScan(s) \/ ReadRecent(s) \/ ReadSession(s) \/ ReadPrevious(s)
      PROVE  FlightAgrees'
  <2>1. s \in Requests /\ s \notin Editors /\ s \notin Reporters
    BY KindsOfRequests
  <2>2. pc'[s] # "idle"
    BY <1>0, <1>2, <2>1 DEF BeginScan, ReadRecent, ReadSession, ReadPrevious
  <2>3. \A q \in Requests : q # s => pc'[q] = "idle"
    BY <2>1, <2>2 DEF OneAtATime
  <2>4. \A r \in records : r.time < at'[s]
    <3>1. CASE BeginScan(s)
      BY <1>0, <3>1 DEF BeginScan
    <3>2. CASE ~ BeginScan(s)
      <4>1. pc[s] # "idle" /\ at' = at
        BY <1>2, <3>2 DEF ReadRecent, ReadSession, ReadPrevious, scanVars
      <4> QED
        BY <1>a, <4>1 DEF FlightAgrees
    <3> QED
      BY <3>1, <3>2
  <2>5. pc'[s] \in {"previous", "decide"} => ScanRead(s)'
    BY <1>2, ScanReads
  <2> QED
    BY <1>0, <2>1, <2>3, <2>4, <2>5, KindsOfRequests DEF FlightAgrees
<1>3. ASSUME NEW e \in Editors, ReadVisit(e) PROVE FlightAgrees'
  <2>1. e \in Requests /\ e \notin Scanners /\ e \notin Reporters
    BY KindsOfRequests
  <2>2. pc'[e] # "idle" /\ edits' = edits + 1
    BY <1>0, <1>3, <2>1 DEF ReadVisit
  <2>3. \A q \in Requests : q # e => pc'[q] = "idle"
    BY <2>1, <2>2 DEF OneAtATime
  <2>4. edits' > 0
    BY <1>0, <2>2
  <2> QED
    BY <2>1, <2>3, <2>4, KindsOfRequests DEF FlightAgrees
<1>4. ASSUME NEW r \in Reporters, ReadRows(r) \/ ReadRecords(r) PROVE FlightAgrees'
  <2>1. r \in Requests /\ r \notin Scanners /\ r \notin Editors
    BY KindsOfRequests
  <2>2. pc'[r] # "idle"
    BY <1>0, <1>4, <2>1 DEF ReadRows, ReadRecords
  <2>3. \A q \in Requests : q # r => pc'[q] = "idle"
    BY <2>1, <2>2 DEF OneAtATime
  <2>4. ASSUME pc'[r] = "save" PROVE (rows[r] = ComputedRows(day[r], snap[r], records))'
    <3>1. rows' = [rows EXCEPT ![r] = ComputedRows(day[r], snap[r], records)] /\ UNCHANGED <<day, snap>>
      BY <1>0, <1>4, <2>1, <2>4 DEF ReadRows, ReadRecords, loadVars
    <3>2. PICK d, old, recs : d = day[r] /\ old = snap[r] /\ recs = records
      OBVIOUS
    <3>3. ComputedRows(d, old, recs)' = ComputedRows(d, old, recs)
      BY <1>b
    <3> QED
      BY <1>0, <3>1, <3>2, <3>3
  <2> QED
    BY <2>1, <2>3, <2>4, KindsOfRequests DEF FlightAgrees
<1> QED
  BY <1>1, <1>2, <1>3, <1>4

LEMMA SingleStep ==
    ASSUME Inv, Inv', AgreeInv, MCNext, part = "single"
    PROVE  SingleAgrees'
<1>0. /\ pc \in [Requests -> {"idle", "recent", "session", "previous", "decide", "edit", "records", "save"}]
      /\ UNCHANGED part /\ OneAtATime /\ OneAtATime' /\ StoreAgrees /\ Next
  BY DEF Inv, TypeOK, MCNext, AgreeInv, SingleAgrees, FlightAgrees
<1>a. SUFFICES FlightAgrees' /\ StoreAgrees'
  BY DEF SingleAgrees, FlightAgrees
<1>b. ASSUME NEW r \in Requests, pc[r] # "idle", pc' = [pc EXCEPT ![r] = "idle"] PROVE FlightAgrees'
  <2>1. \A q \in Requests : pc'[q] = "idle"
    BY <1>0, <1>b DEF OneAtATime
  <2> QED
    BY <2>1, IdleAgrees
<1>c. ASSUME <<posts, voids>>' # <<posts, voids>>, pc' = pc PROVE FlightAgrees'
  <2>1. InFlight = {}
    BY <1>c DEF MCNext
  <2>2. \A q \in Requests : pc'[q] = "idle"
    BY <1>c, <2>1 DEF InFlight
  <2> QED
    BY <2>2, IdleAgrees
<1>d. posts \in Nat /\ voids \in Nat
  BY CountsOK
<1>1. ASSUME \/ Tick
             \/ \E s \in Scanners : BeginScan(s) \/ ReadRecent(s) \/ ReadSession(s) \/ ReadPrevious(s)
             \/ \E e \in Editors : ReadVisit(e)
             \/ \E r \in Reporters : ReadRows(r) \/ ReadRecords(r)
      PROVE  FlightAgrees' /\ StoreAgrees'
  <2>1. UNCHANGED <<rule, store, posts, voids>> /\ edits' \in {edits, edits + 1}
    BY <1>1 DEF Tick, BeginScan, ReadRecent, ReadSession, ReadPrevious, ReadVisit, ReadRows, ReadRecords,
                counts
  <2> QED
    BY <1>0, <1>1, <2>1, FlightStep, QuietAgrees
<1>2. ASSUME NEW s \in Scanners, Reject(s) PROVE FlightAgrees' /\ StoreAgrees'
  <2>1. UNCHANGED <<rule, store, posts, voids>> /\ edits' \in {edits, edits + 1}
    BY <1>2 DEF Reject, counts
  <2> QED
    BY <1>0, <1>2, <1>b, <2>1, QuietAgrees, KindsOfRequests DEF Reject, ScanEnds
<1>3. ASSUME NEW s \in Scanners, Accept(s) PROVE FlightAgrees' /\ StoreAgrees'
  BY <1>3, <1>b, AcceptAgrees, KindsOfRequests DEF Accept, ScanEnds
<1>4. CASE PostRecord
  <2>1. posts' # posts /\ pc' = pc
    BY <1>4, <1>d DEF PostRecord
  <2> QED
    BY <1>0, <1>4, <1>c, <2>1, PostAgrees
<1>5. ASSUME NEW r \in records, VoidRecord(r) PROVE FlightAgrees' /\ StoreAgrees'
  <2>1. voids' # voids /\ pc' = pc
    BY <1>5, <1>d DEF VoidRecord
  <2> QED
    BY <1>0, <1>5, <1>c, <2>1, VoidAgrees
<1>6. ASSUME NEW e \in Editors, Override(e) PROVE FlightAgrees' /\ StoreAgrees'
  <2>1. pc[e] = "edit" /\ edits > 0
    BY <1>6 DEF Override, AgreeInv, SingleAgrees, FlightAgrees
  <2> QED
    BY <1>0, <1>6, <1>b, <2>1, OverrideAgrees, KindsOfRequests DEF Override, EditEnds
<1>7. ASSUME NEW e \in Editors, OverrideFails(e) PROVE FlightAgrees' /\ StoreAgrees'
  <2>1. UNCHANGED <<rule, store, posts, voids>> /\ edits' \in {edits, edits + 1}
    BY <1>7 DEF OverrideFails, counts
  <2> QED
    BY <1>0, <1>7, <1>b, <2>1, QuietAgrees, KindsOfRequests DEF OverrideFails, EditEnds
<1>8. ASSUME NEW r \in Reporters, ReportAsStored(r) PROVE FlightAgrees' /\ StoreAgrees'
  <2>1. UNCHANGED <<rule, store, posts, voids>> /\ edits' \in {edits, edits + 1}
    BY <1>8 DEF ReportAsStored, counts
  <2> QED
    BY <1>0, <1>8, <1>b, <2>1, QuietAgrees, KindsOfRequests DEF ReportAsStored, ReportEnds
<1>9. ASSUME NEW r \in Reporters, SaveRows(r) PROVE FlightAgrees' /\ StoreAgrees'
  BY <1>0, <1>9, <1>b, SaveAgrees, KindsOfRequests DEF SaveRows, ReportEnds
<1> QED
  BY <1>0, <1>1, <1>2, <1>3, <1>4, <1>5, <1>6, <1>7, <1>8, <1>9 DEF Next, Scan, Edit, Report

-----------------------------------------------------------------------------
(* Scans that overlap. *)

\* A step that stores nothing leaves every attended day its visits.
LEMMA QuietPresent ==
    ASSUME OverlapPresent, UNCHANGED <<rule, store>>,
           \A s \in Scanners :
              /\ PresentOrNone(view'[s])
              /\ pc'[s] \in {"previous", "decide"} => day'[s] = Day(at'[s])
    PROVE  OverlapPresent'
<1>1. UNCHANGED <<shift, records, sessions>>
  BY DEF rule, store
<1>2. \A d, recs : AttendedTimes(d, recs)' = AttendedTimes(d, recs)
  BY SameRule
<1>3. ASSUME NEW d \in Days
      PROVE  AttendedTimes(d, records)' = {} \/ \E v \in Visits : sessions'[d][v].status = "present"
  BY <1>1, <1>2 DEF OverlapPresent
<1> QED
  BY <1>1, <1>3 DEF OverlapPresent, PresentOrNone

\* The steps before the last, and a refusal.
LEMMA ScanPresent ==
    ASSUME Inv, OverlapPresent, NEW s \in Scanners,
           BeginScan(s) \/ ReadRecent(s) \/ ReadSession(s) \/ ReadPrevious(s) \/ Reject(s)
    PROVE  OverlapPresent'
<1>0. /\ pc \in [Requests -> {"idle", "recent", "session", "previous", "decide", "edit", "records", "save"}]
      /\ day \in [Requests -> Nat] /\ visit \in [Scanners \cup Editors -> Nat] /\ at \in [Scanners -> Nat]
      /\ view \in [Scanners \cup Editors -> Row] /\ UNCHANGED <<rule, store>>
  BY DEF Inv, TypeOK, BeginScan, ReadRecent, ReadSession, ReadPrevious, Reject
<1>1. s \in Requests /\ s \in Scanners \cup Editors
  BY KindsOfRequests
<1>2. \A q \in Scanners : /\ PresentOrNone(view[q])
                          /\ pc[q] \in {"previous", "decide"} => day[q] = Day(at[q])
  BY DEF OverlapPresent
<1>a. ASSUME PresentOrNone(view'[s]), pc'[s] \in {"previous", "decide"} => day'[s] = Day(at'[s]),
             \A q \in Scanners : q # s => /\ view'[q] = view[q] /\ day'[q] = day[q]
                                          /\ pc'[q] = pc[q] /\ at'[q] = at[q]
      PROVE  OverlapPresent'
  <2>1. \A q \in Scanners :
           /\ PresentOrNone(view'[q])
           /\ pc'[q] \in {"previous", "decide"} => day'[q] = Day(at'[q])
    BY <1>2, <1>a
  <2> QED
    BY <1>0, <2>1, QuietPresent
<1>b. PresentOrNone(NoRow)
  BY DEF PresentOrNone
<1>3. CASE BeginScan(s) \/ ReadRecent(s)
  <2>1. UNCHANGED <<day, view>> /\ pc'[s] \in {"recent", "session"}
    BY <1>0, <1>1, <1>3 DEF BeginScan, ReadRecent, loadVars
  <2>2. \A q \in Scanners : q # s => pc'[q] = pc[q] /\ at'[q] = at[q]
    BY <1>0, <1>1, <1>3, KindsOfRequests DEF BeginScan, ReadRecent
  <2> QED
    BY <1>2, <1>a, <2>1, <2>2
<1>4. CASE ReadSession(s)
  <2>1. PICK d, v, row : /\ d = Day(at[s]) /\ Loaded(s, d, v, row)
                         /\ v = IF StoredVisits(d) = {} THEN 0
                                ELSE IF mode = "visits" THEN LastVisit(d) ELSE FirstVisit(d)
                         /\ row = IF v = 0 THEN NoRow ELSE sessions[d][v]
    BY <1>4 DEF ReadSession
  <2>2. /\ day'[s] = d /\ view'[s] = row /\ at' = at
        /\ \A q \in Scanners : q # s => view'[q] = view[q] /\ day'[q] = day[q] /\ pc'[q] = pc[q]
    BY <1>0, <1>1, <1>4, <2>1, KindsOfRequests DEF Loaded, ReadSession, scanVars
  <2>3. PresentOrNone(row)
    <3>1. CASE v = 0
      BY <1>b, <2>1, <3>1
    <3>2. CASE v # 0
      <4>1. v \in Visits /\ row = sessions[d][v]
        BY <2>1, <3>2, VisitsAreFound, StoredRows
      <4>2. d \in Days
        <5>1. at[s] \in Times
          BY <1>4 DEF ReadSession, Inv, StepsOK
        <5> QED
          BY <2>1, <5>1, TimesAreCounted
      <4> QED
        BY <4>1, <4>2 DEF OverlapPresent
    <3> QED
      BY <3>1, <3>2
  <2> QED
    BY <1>a, <2>1, <2>2, <2>3
<1>5. CASE ReadPrevious(s)
  <2>1. PlainDays /\ at[s] \in Nat \ {0} /\ pc[s] = "previous"
    BY <1>5, TimesAreCounted DEF OverlapPresent, PlainDays, ReadPrevious, Inv, StepsOK
  <2>2. \A i : ~ IsOvernight(i, at[s])
    BY <2>1, NotOvernight
  <2>3. UNCHANGED loadVars /\ at' = at /\ \A q \in Scanners : q # s => pc'[q] = pc[q]
    BY <1>0, <1>1, <1>5, <2>2, KindsOfRequests DEF ReadPrevious, scanVars
  <2> QED
    BY <1>2, <1>a, <2>1, <2>3 DEF loadVars
<1>6. CASE Reject(s)
  <2>1. /\ pc'[s] = "idle" /\ view'[s] = NoRow
        /\ \A q \in Scanners : q # s => view'[q] = view[q] /\ day'[q] = day[q] /\ pc'[q] = pc[q] /\ at'[q] = at[q]
    BY <1>0, <1>1, <1>6, KindsOfRequests DEF Reject, ScanEnds, Loaded
  <2> QED
    BY <1>a, <1>b, <2>1
<1> QED
  BY <1>3, <1>4, <1>5, <1>6

\* What a scan writes is a presence, whatever another scan has written meanwhile.
LEMMA MergedPresent ==
    ASSUME NEW loaded, NEW live \in Row, PresentOrNone(loaded), PresentOrNone(live),
           NEW i \in Nat, NEW o \in Nat
    PROVE  Merge(loaded, Present(i, o), live).status = "present"
<1>1. PICK want : want = Present(i, o)
  OBVIOUS
<1>2. want \in Row /\ want.status = "present"
  <2>1. want \in Row
    BY <1>1, PresentRow
  <2>2. want.status = "present"
    BY <1>1 DEF Present
  <2> QED
    BY <2>1, <2>2
<1>3. CASE live = NoRow
  BY <1>1, <1>2, <1>3 DEF Merge
<1>4. CASE live # NoRow /\ loaded = NoRow
  <2>1. Merge(loaded, want, live) = [want EXCEPT !.manual = live.manual]
    BY <1>4 DEF Merge
  <2> QED
    BY <1>1, <1>2, <2>1 DEF Row
<1>5. CASE live # NoRow /\ loaded # NoRow
  <2>1. loaded.status = "present" /\ live.status = "present"
    BY <1>5 DEF PresentOrNone
  <2>2. Merge(loaded, want, live).status = live.status
    BY <1>2, <1>5, <2>1 DEF Merge, Row
  <2> QED
    BY <1>1, <2>1, <2>2
<1> QED
  BY <1>3, <1>4, <1>5

LEMMA AcceptPresent ==
    ASSUME Inv, AgreeInv, OverlapPresent, NEW s \in Scanners, Accept(s)
    PROVE  OverlapPresent'
<1>0. /\ pc \in [Requests -> {"idle", "recent", "session", "previous", "decide", "edit", "records", "save"}]
      /\ day \in [Requests -> Nat] /\ at \in [Scanners -> Nat] /\ view \in [Scanners \cup Editors -> Row]
      /\ sessions \in [Days -> [Visits -> Row]] /\ records \in SUBSET Record
  BY DEF Inv, TypeOK
<1>1. s \in Requests /\ s \in Scanners \cup Editors
  BY KindsOfRequests
<1>2. /\ pc[s] = "decide" /\ day[s] = Day(at[s]) /\ day[s] \in Days /\ at[s] \in Times /\ at[s] \in Nat
      /\ PlainDays /\ UNCHANGED rule /\ shift' = shift
  BY TimesAreCounted DEF Accept, OverlapPresent, Inv, StepsOK, PlainDays, rule
<1>3. PICK d, v, loaded, live, row :
         /\ d = day[s] /\ v = TargetVisit(s) /\ loaded = (IF NextVisit(s) THEN NoRow ELSE view[s])
         /\ live = sessions[d][v] /\ row = Merge(loaded, ScannedRow(s), live)
  OBVIOUS
<1>4. /\ v \in Visits /\ records' = records \cup {Added(s)}
      /\ sessions' = [sessions EXCEPT ![d][v] = row]
  BY <1>3 DEF Accept, Added
<1>5. row.status = "present"
  <2>1. live \in Row /\ PresentOrNone(live) /\ PresentOrNone(loaded)
    BY <1>0, <1>2, <1>3, <1>4 DEF OverlapPresent, PresentOrNone
  <2>2. view[s].in \in Nat /\ 0 \in Nat
    BY <1>0, <1>1 DEF Row
  <2>3. \E i, o \in Nat : ScannedRow(s) = Present(i, o)
    BY <1>2, <2>2 DEF ScannedRow
  <2> QED
    BY <1>3, <2>1, <2>3, MergedPresent
<1>6. \A c \in Days, w \in Visits :
         /\ c = d /\ w = v => sessions'[c][w] = row
         /\ ~ (c = d /\ w = v) => sessions'[c][w] = sessions[c][w]
  BY <1>0, <1>2, <1>3, <1>4
<1>7. \A q \in Scanners :
         /\ PresentOrNone(view'[q])
         /\ pc'[q] \in {"previous", "decide"} => day'[q] = Day(at'[q])
  <2>1. /\ pc'[s] = "idle" /\ view'[s] = NoRow
        /\ \A q \in Scanners : q # s => view'[q] = view[q] /\ day'[q] = day[q] /\ pc'[q] = pc[q] /\ at'[q] = at[q]
    BY <1>0, <1>1, KindsOfRequests DEF Accept, ScanEnds, Loaded
  <2> QED
    BY <2>1 DEF OverlapPresent, PresentOrNone
<1>8. ASSUME NEW c \in Days, NEW w \in Visits PROVE PresentOrNone(sessions'[c][w])
  BY <1>5, <1>6 DEF OverlapPresent, PresentOrNone
<1>9. ASSUME NEW c \in Days
      PROVE  AttendedTimes(c, records)' = {} \/ \E w \in Visits : sessions'[c][w].status = "present"
  <2>1. CASE c = d
    BY <1>4, <1>5, <1>6, <2>1
  <2>2. CASE c # d
    <3>1. Added(s).time = at[s] /\ Added(s) \in Record
      BY <1>2 DEF Added, ScanType, Record
    <3>2. \A r \in Record : Day(r.time) = c => (r \in records' <=> r \in records)
      BY <1>2, <1>3, <1>4, <2>2, <3>1
    <3>3. c \in Nat /\ records' \in SUBSET Record
      BY <1>0, <1>4, <3>1, TimesAreCounted
    <3>4. AttendedTimes(c, records') = AttendedTimes(c, records)
      BY <1>0, <1>2, <3>2, <3>3, OwnDay
    <3>5. AttendedTimes(c, records)' = AttendedTimes(c, records)
      BY <1>2, <3>4, SameRule
    <3>6. \A w \in Visits : sessions'[c][w] = sessions[c][w]
      BY <1>6, <2>2
    <3> QED
      BY <3>5, <3>6 DEF OverlapPresent
  <2> QED
    BY <2>1, <2>2
<1>10. shift' = 0
  BY <1>2 DEF OverlapPresent
<1>b. \A q \in Scanners : PresentOrNone(view[q])'
  BY <1>7 DEF PresentOrNone
<1>c. \A c \in Days, w \in Visits : PresentOrNone(sessions[c][w])'
  BY <1>8 DEF PresentOrNone
<1> QED
  BY <1>7, <1>9, <1>10, <1>b, <1>c DEF OverlapPresent

LEMMA PostPresent ==
    ASSUME Inv, AgreeInv, OverlapPresent, part = "overlap", PostRecord
    PROVE  OverlapPresent'
<1>0. sessions \in [Days -> [Visits -> Row]] /\ records \in SUBSET Record /\ now \in Times /\ now \in Nat
  BY TimesAreCounted DEF Inv, TypeOK
<1>1. PICK t \in 1 .. now :
         /\ records' = records \cup {[time |-> t, type |-> "untyped", manual |-> TRUE]}
         /\ sessions' = [sessions EXCEPT ![Day(t)] =
                Recomputed(Day(t), records \cup {[time |-> t, type |-> "untyped", manual |-> TRUE]})]
  BY DEF PostRecord
<1>2. UNCHANGED <<rule, pc, scanVars, loadVars>> /\ shift' = shift
  BY DEF PostRecord, rule
<1>3. PICK r, d : r = [time |-> t, type |-> "untyped", manual |-> TRUE] /\ d = Day(t)
  OBVIOUS
<1>4. t \in Times /\ r \in Record /\ r.time = t /\ d \in Days /\ d \in Nat /\ PlainDays
  <2>1. t \in Times
    BY <1>0, ConstantsAssumption DEF Times
  <2> QED
    BY <1>3, <2>1, TimesAreCounted DEF Record, OverlapPresent, PlainDays
<1>5. records' = records \cup {r} /\ records' \in SUBSET Record
  BY <1>0, <1>1, <1>3, <1>4
<1>6. PICK T : T = AttendedTimes(d, records')
  OBVIOUS
<1>7. T \in SUBSET (Nat \ {0}) /\ IsFiniteSet(T)
  BY <1>5, <1>6, AttendedAreTimes
<1>8. T # {}
  <2>1. DaysClear(records')
    BY <1>4 DEF DaysClear
  <2>2. T = {q.time : q \in {p \in records' : AttendanceDay(p, records') = d}}
    BY <1>4, <1>5, <1>6, <2>1, AttendedAlone
  <2>3. AttendanceDay(r, records') = d
    BY <1>3, <1>4, PlainDay
  <2> QED
    BY <1>5, <2>2, <2>3
<1>9. sessions' = [sessions EXCEPT ![d] = DerivedRows(T)]
  <2>1. \A v \in Visits : sessions[d][v].manual = FALSE
    BY <1>4 DEF Inv, NoneCorrected
  <2>2. sessions[d] \in [Visits -> Row]
    BY <1>0, <1>4
  <2>3. Recomputed(d, records') = DerivedRows(T)
    BY <1>5, <1>6, <2>1, <2>2, RebuiltPlain DEF Recomputed
  <2> QED
    BY <1>1, <1>3, <1>5, <2>3
<1>10. \A v \in Visits : PresentOrNone(DerivedRows(T)[v])
  <2> TAKE v \in Visits
  <2>1. DerivedRows(T)[v] = NoRow \/ \E i, o : DerivedRows(T)[v] = Present(i, o)
    BY <1>7, <1>8, DerivedOf
  <2> QED
    BY <2>1, RowKinds DEF PresentOrNone
<1>11. DerivedRows(T)[1].status = "present"
  <2>1. 1 \in Visits /\ 2 * 1 - 1 = 1 /\ ~ 1 > 1 /\ Cardinality(T) >= 1
    BY <1>7, <1>8, VisitsAreCounted, DerivedOf
  <2>2. 2 * 1 - 1 <= Cardinality(T)
    BY <1>7, <2>1, FS_CardinalityType
  <2>3. \E i, o : DerivedRows(T)[1] = Present(i, o)
    BY <1>7, <1>8, <2>1, <2>2, DerivedOf
  <2> QED
    BY <2>3, RowKinds
<1>12. ASSUME NEW c \in Days
       PROVE  /\ \A v \in Visits : PresentOrNone(sessions'[c][v])
              /\ AttendedTimes(c, records)' = {} \/ \E v \in Visits : sessions'[c][v].status = "present"
  <2>1. CASE c = d
    <3>1. sessions'[c] = DerivedRows(T)
      BY <1>0, <1>9, <2>1
    <3> QED
      BY <1>10, <1>11, <3>1, VisitsAreCounted
  <2>2. CASE c # d
    <3>1. sessions'[c] = sessions[c]
      BY <1>0, <1>9, <2>2
    <3>2. \A q \in Record : Day(q.time) = c => (q \in records' <=> q \in records)
      BY <1>3, <1>4, <1>5, <2>2
    <3>3. c \in Nat
      BY TimesAreCounted
    <3>4. AttendedTimes(c, records') = AttendedTimes(c, records)
      BY <1>0, <1>4, <1>5, <3>2, <3>3, OwnDay
    <3>5. AttendedTimes(c, records)' = AttendedTimes(c, records)
      BY <1>2, <3>4, SameRule
    <3> QED
      BY <3>1, <3>5 DEF OverlapPresent
  <2> QED
    BY <2>1, <2>2
<1>13. \A q \in Scanners :
          /\ PresentOrNone(view'[q])
          /\ pc'[q] \in {"previous", "decide"} => day'[q] = Day(at'[q])
  BY <1>2 DEF OverlapPresent, scanVars, loadVars, PresentOrNone
<1>14. shift' = 0
  BY <1>2 DEF OverlapPresent
<1>b. \A q \in Scanners : PresentOrNone(view[q])'
  BY <1>13 DEF PresentOrNone
<1>c. \A c \in Days, w \in Visits : PresentOrNone(sessions[c][w])'
  BY <1>12 DEF PresentOrNone
<1> QED
  BY <1>12, <1>13, <1>14, <1>b, <1>c DEF OverlapPresent

LEMMA OverlapStep ==
    ASSUME Inv, AgreeInv, MCNext, part = "overlap"
    PROVE  OverlapPresent'
<1>0. /\ OverlapPresent /\ Next /\ InFlight' \subseteq Scanners /\ voids' = 0 /\ voids = 0
      /\ \A r \in Editors \cup Reporters : pc[r] = "idle"
      /\ pc \in [Requests -> {"idle", "recent", "session", "previous", "decide", "edit", "records", "save"}]
  BY DEF Inv, TypeOK, MCNext, AgreeInv, NoneCorrected
<1>1. CASE Tick
  <2>1. UNCHANGED <<rule, store, pc, at, day, view>>
    BY <1>1 DEF Tick, scanVars, loadVars
  <2>2. \A s \in Scanners : /\ PresentOrNone(view'[s])
                            /\ pc'[s] \in {"previous", "decide"} => day'[s] = Day(at'[s])
    BY <1>0, <2>1 DEF OverlapPresent
  <2> QED
    BY <1>0, <2>1, <2>2, QuietPresent
<1>2. ASSUME NEW s \in Scanners, Scan(s) PROVE OverlapPresent'
  BY <1>0, <1>2, ScanPresent, AcceptPresent DEF Scan
<1>3. CASE PostRecord
  BY <1>0, <1>3, PostPresent
<1>4. ASSUME NEW r \in records, VoidRecord(r) PROVE FALSE
  BY <1>0, <1>4 DEF VoidRecord
<1>5. ASSUME NEW e \in Editors, Edit(e) PROVE FALSE
  <2>1. pc[e] = "idle" /\ e \in Requests /\ e \notin Scanners
    BY <1>0, KindsOfRequests
  <2>2. pc'[e] = "edit"
    BY <1>0, <1>5, <2>1 DEF Edit, ReadVisit, Override, OverrideFails
  <2> QED
    BY <1>0, <2>1, <2>2 DEF InFlight
<1>6. ASSUME NEW r \in Reporters, Report(r) PROVE FALSE
  <2>1. pc[r] = "idle" /\ r \in Requests /\ r \notin Scanners
    BY <1>0, KindsOfRequests
  <2>2. pc'[r] = "records"
    BY <1>0, <1>6, <2>1 DEF Report, ReadRows, ReportAsStored, ReadRecords, SaveRows
  <2> QED
    BY <1>0, <2>1, <2>2 DEF InFlight
<1> QED
  BY <1>0, <1>1, <1>2, <1>3, <1>4, <1>5, <1>6 DEF Next

-----------------------------------------------------------------------------

LEMMA InitialAgree == MCInit => AgreeInv
<1> SUFFICES ASSUME MCInit PROVE AgreeInv
  OBVIOUS
<1> USE DEF MCInit, Init
<1>1. shift \in Nat /\ edits \in Nat
  BY ConstantsAssumption
<1>2. /\ \A r \in Requests : pc[r] = "idle"
      /\ records = {} /\ sessions = [d \in Days |-> NoRows] /\ \A s \in Scanners : view[s] = NoRow
  OBVIOUS
<1>3. ASSUME NEW d \in Days
      PROVE  sessions[d] = NoRows /\ AttendedTimes(d, records) = {}
  BY <1>2 DEF AttendedTimes
<1>4. \A d \in Days, v \in Visits : sessions[d][v] = NoRow
  BY <1>2 DEF NoRows
<1>5. OnlyScanned
  BY <1>2, <1>4, PlainRows DEF OnlyScanned, TypedOnly, Apart
<1>6. StoreAgrees
  BY <1>3, <1>5 DEF StoreAgrees, Agrees
<1>7. SingleAgrees
  BY <1>2, <1>6, KindsOfRequests DEF SingleAgrees, FlightAgrees
<1>8. part = "overlap" => OverlapPresent
  BY <1>2, <1>3, <1>4, KindsOfRequests DEF OverlapPresent, PresentOrNone
<1>9. ClockAhead
  BY <1>1, <1>2, KindsOfRequests DEF ClockAhead
<1> QED
  BY <1>7, <1>8, <1>9 DEF AgreeInv

LEMMA AgreeStep ==
    ASSUME Inv, Inv', AgreeInv, [MCNext]_<<vars, part>>
    PROVE  AgreeInv'
<1>1. CASE UNCHANGED <<vars, part>>
  <2>1. ClockAhead'
    BY <1>1 DEF AgreeInv, ClockAhead, vars
  <2>2. UNCHANGED <<rule, store, posts, voids>> /\ edits' \in {edits, edits + 1} /\ UNCHANGED part
    BY <1>1 DEF vars, rule, store
  <2>3. ASSUME part = "single" PROVE SingleAgrees'
    <3>1. StoreAgrees'
      BY <2>2, <2>3, QuietAgrees DEF AgreeInv, SingleAgrees, FlightAgrees
    <3>2. ASSUME NEW s \in Scanners, ScanRead(s) PROVE ScanRead(s)'
      BY <1>1, <3>2 DEF vars, ScanRead, Unattended, StoredVisits, FirstVisit, IsOvernight
    <3>3. ASSUME NEW r \in Reporters, rows[r] = ComputedRows(day[r], snap[r], records)
          PROVE  (rows[r] = ComputedRows(day[r], snap[r], records))'
      <4>1. PICK d, old, recs : d = day[r] /\ old = snap[r] /\ recs = records
        OBVIOUS
      <4>2. ComputedRows(d, old, recs)' = ComputedRows(d, old, recs)
        BY <2>2, ComputedAgain
      <4> QED
        BY <1>1, <3>3, <4>1, <4>2 DEF vars
    <3>4. UNCHANGED <<pc, records, at, edits>>
      BY <1>1 DEF vars
    <3> QED
      BY <2>3, <3>1, <3>2, <3>3, <3>4 DEF AgreeInv, SingleAgrees, FlightAgrees
  <2>4. ASSUME part = "overlap" PROVE OverlapPresent'
    <3>1. UNCHANGED <<pc, at, day, view>>
      BY <1>1 DEF vars
    <3> QED
      BY <2>2, <2>4, <3>1, QuietPresent DEF AgreeInv, OverlapPresent
  <2> QED
    BY <2>1, <2>2, <2>3, <2>4 DEF AgreeInv
<1>2. CASE MCNext
  <2>1. ClockAhead'
    BY <1>2, ClockStep DEF AgreeInv, MCNext
  <2>2. part = "single" => SingleAgrees'
    BY <1>2, SingleStep
  <2>3. part = "overlap" => OverlapPresent'
    BY <1>2, OverlapStep
  <2>4. part' = part
    BY <1>2 DEF MCNext
  <2> QED
    BY <2>1, <2>2, <2>3, <2>4 DEF AgreeInv
<1> QED
  BY <1>1, <1>2

LEMMA AgreeAlways == MCSpec => [](Inv /\ AgreeInv)
<1>1. Inv /\ AgreeInv /\ [MCNext]_<<vars, part>> => (Inv /\ AgreeInv)'
  BY StepInv, AgreeStep
<1>2. MCInit => Inv /\ AgreeInv
  BY InitialInv, InitialAgree
<1> QED
  BY <1>1, <1>2, PTL DEF MCSpec

\* A day whose visits are those its records give, and none is a correction, is
\* what a rebuild would write, and present if anyone came.
LEMMA AgreedDays ==
    ASSUME Inv, NEW d \in Days, Agrees(d), ~ HasOverride(d)
    PROVE  /\ \/ sessions[d] = NoRows /\ AttendedTimes(d, records) = {}
              \/ sessions[d] = Recomputed(d, records)
           /\ AttendedTimes(d, records) = {} \/ \E v \in Visits : sessions[d][v].status = "present"
<1>1. sessions[d] \in [Visits -> Row] /\ records \in SUBSET Record
  BY DEF Inv, TypeOK
<1>2. PICK T : T = AttendedTimes(d, records)
  OBVIOUS
<1>3. T \in SUBSET (Nat \ {0}) /\ IsFiniteSet(T)
  BY <1>1, <1>2, AttendedAreTimes
<1>4. (sessions[d] = NoRows /\ T = {}) \/ sessions[d] = DerivedRows(T)
  BY <1>2 DEF Agrees
<1>5. Recomputed(d, records) = DerivedRows(T)
  <2>1. \A v \in Visits : sessions[d][v].manual \in BOOLEAN
    BY <1>1 DEF Row
  <2>2. \A v \in Visits : sessions[d][v].manual = FALSE
    BY <2>1 DEF HasOverride
  <2> QED
    BY <1>1, <1>2, <2>2, RebuiltPlain DEF Recomputed
<1>6. ASSUME T # {} PROVE DerivedRows(T)[1].status = "present"
  <2>1. 1 \in Visits /\ 2 * 1 - 1 = 1 /\ ~ 1 > 1 /\ Cardinality(T) >= 1
    BY <1>3, <1>6, VisitsAreCounted, DerivedOf
  <2>2. 2 * 1 - 1 <= Cardinality(T)
    BY <1>3, <2>1, FS_CardinalityType
  <2>3. \E i, o : DerivedRows(T)[1] = Present(i, o)
    BY <1>3, <1>6, <2>1, <2>2, DerivedOf
  <2> QED
    BY <2>3, RowKinds
<1> QED
  BY <1>2, <1>4, <1>5, <1>6, VisitsAreCounted

\* Requests that come one after the other leave what a rebuild from the records
\* would write: whatever the scans, the corrections and the reports before it,
\* recomputing a day changes no visit of it, unless the day has a correction by
\* hand or a record of an overnight shift was corrected.
THEOREM VisitsFollowRecords == MCSpec => []SequentialAgree
<1>1. Inv /\ AgreeInv => SequentialAgree
  <2> SUFFICES ASSUME Inv, AgreeInv, part = "single", ~ OvernightCorrected, NEW d \in Days, ~ HasOverride(d)
               PROVE  \/ sessions[d] = NoRows /\ AttendedTimes(d, records) = {}
                      \/ sessions[d] = Recomputed(d, records)
    BY DEF SequentialAgree, DerivedAgree
  <2>1. Agrees(d)
    BY DEF AgreeInv, SingleAgrees, FlightAgrees, StoreAgrees
  <2> QED
    BY <2>1, AgreedDays
<1> QED
  BY <1>1, AgreeAlways, PTL

\* Nobody with a record is absent: of requests one after the other, and of scans
\* that overlap each other and a manual record, none leaves a day with a valid
\* record absent or without a visit, unless the day has a correction by hand or
\* a record of an overnight shift was corrected.
THEOREM RecordedArePresent == MCSpec => []RecordedNotAbsent
<1>1. Inv /\ AgreeInv => RecordedNotAbsent
  <2> SUFFICES ASSUME Inv, AgreeInv, ~ OvernightCorrected, NEW d \in Days, ~ HasOverride(d)
               PROVE  AttendedTimes(d, records) = {} \/ \E v \in Visits : sessions[d][v].status = "present"
    BY DEF RecordedNotAbsent
  <2>1. CASE part = "single"
    <3>1. Agrees(d)
      BY <2>1 DEF AgreeInv, SingleAgrees, FlightAgrees, StoreAgrees
    <3> QED
      BY <3>1, AgreedDays
  <2>2. CASE part = "overlap"
    BY <2>2 DEF AgreeInv, OverlapPresent
  <2> QED
    BY <2>1, <2>2 DEF Inv, TypeOK
<1> QED
  BY <1>1, AgreeAlways, PTL
=============================================================================
