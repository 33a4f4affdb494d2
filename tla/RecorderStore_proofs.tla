------------------------ MODULE RecorderStore_proofs ------------------------
(* Theorems about the flight recorder's store, for any kinds of line, any    *)
(* retention, any limits and any number of triggers, kills and power         *)
(* failures.                                                                 *)
EXTENDS RecorderStore, FiniteSetTheorems, SequenceTheorems, WellFoundedInduction, TLAPS

USE DEF disk, vars

-----------------------------------------------------------------------------
(* Time.                                                                     *)

\* A segment starts at most its length before every moment in it.
LEMMA BucketBounds ==
    ASSUME NEW t \in Nat
    PROVE  /\ Bucket(t) \in Int
           /\ t < Bucket(t) + Segment
           /\ Bucket(t) <= t
<1>1. Segment \in Nat /\ Segment > 0
  BY StoreAssumption
<1>2. t % Segment \in 0..(Segment - 1)
  BY <1>1
<1>3. QED
  BY <1>1, <1>2 DEF Bucket

\* Deletion by the name of a segment takes only lines past their window.
LEMMA ExpiredIsOld ==
    ASSUME now \in Nat, NEW l, log[l].at \in Nat, log[l].kind \in Kinds, Expired(l)
    PROVE  log[l].at < now - Keep[log[l].kind]
<1>1. Keep[log[l].kind] \in Nat /\ Segment \in Nat
  BY StoreAssumption
<1>2. now - Bucket(log[l].at) > Keep[log[l].kind] + Segment
  BY DEF Expired
<1>3. QED
  BY <1>1, <1>2, BucketBounds

-----------------------------------------------------------------------------
(* Incidents that change.                                                    *)

\* An incident keeps what identifies it.
SameIncident(x, y) ==
    /\ x.name = y.name /\ x.at = y.at /\ x.until = y.until /\ x.run = y.run
    /\ x.mark = y.mark /\ x.sealed = y.sealed /\ x.restart = y.restart

\* Its copies stay, or are gone.
KeepsCopies(x, y) ==
    \/ x.torn = y.torn /\ x.pre = y.pre /\ x.after = y.after
    \/ x.torn /\ x.after = {}

\* Incidents J are incidents I, of which some may be gone or emptied.
Outlives(J, I) ==
    /\ J \in Seq(Incident) /\ Len(J) = Len(I)
    /\ \A i \in 1..Len(I) :
         /\ SameIncident(J[i], I[i]) /\ KeepsCopies(J[i], I[i])
         /\ J[i].complete = I[i].complete

\* Presence is a field like another.
LEMMA PresenceSet ==
    ASSUME NEW x \in Incident, NEW b \in BOOLEAN
    PROVE  LET y == [x EXCEPT !.present = b]
           IN  /\ y \in Incident /\ y.present = b
               /\ SameIncident(y, x) /\ KeepsCopies(y, x) /\ y.complete = x.complete
  BY DEF Incident, SameIncident, KeepsCopies

\* The copies of an incident are gone.
LEMMA EmptySet ==
    ASSUME NEW x \in Incident
    PROVE  LET y == [x EXCEPT !.pre = {}, !.after = {}, !.torn = TRUE]
           IN  /\ y \in Incident /\ y.present = x.present
               /\ SameIncident(y, x) /\ KeepsCopies(y, x) /\ y.complete = x.complete
  BY DEF Incident, SameIncident, KeepsCopies

\* A line joins what an incident has received.
LEMMA AfterSet ==
    ASSUME NEW x \in Incident, NEW l \in Nat
    PROVE  LET y == [x EXCEPT !.after = @ \cup {l}]
           IN  /\ y \in Incident /\ y.after = x.after \cup {l}
               /\ SameIncident(y, x) /\ y.pre = x.pre /\ y.complete = x.complete
               /\ y.torn = x.torn /\ y.present = x.present
  BY DEF Incident, SameIncident

\* An incident is marked complete.
LEMMA CompleteSet ==
    ASSUME NEW x \in Incident
    PROVE  LET y == [x EXCEPT !.complete = TRUE]
           IN  /\ y \in Incident /\ y.present = x.present
               /\ SameIncident(y, x) /\ KeepsCopies(y, x)
  BY DEF Incident, SameIncident, KeepsCopies

\* Incidents may be taken from disk: the others stay, and all keep the rest.
LEMMA KeepingOutlives ==
    ASSUME NEW I \in Seq(Incident), NEW D
    PROVE  /\ Outlives(Keeping(I, D), I)
           /\ \A i \in 1..Len(I) : Keeping(I, D)[i].present <=> i \in D
<1>1. DOMAIN I = 1..Len(I) /\ Len(I) \in Nat /\ \A i \in 1..Len(I) : I[i] \in Incident
  OBVIOUS
<1> DEFINE y(i) == [I[i] EXCEPT !.present = (i \in D)]
<1>2. Keeping(I, D) = [i \in 1..Len(I) |-> y(i)]
  BY <1>1 DEF Keeping
<1>3. ASSUME NEW i \in 1..Len(I)
      PROVE  /\ y(i) \in Incident /\ (y(i).present <=> i \in D)
             /\ SameIncident(y(i), I[i]) /\ KeepsCopies(y(i), I[i])
             /\ y(i).complete = I[i].complete
  <2> DEFINE b == i \in D
             z == [I[i] EXCEPT !.present = b]
  <2>1. b \in BOOLEAN /\ I[i] \in Incident
    BY <1>1
  <2> HIDE DEF b
  <2>2. /\ z \in Incident /\ z.present = b
        /\ SameIncident(z, I[i]) /\ KeepsCopies(z, I[i]) /\ z.complete = I[i].complete
    BY <2>1, PresenceSet
  <2> HIDE DEF z
  <2>3. y(i) = z
    BY DEF z, b
  <2> HIDE DEF y
  <2>4. z.present <=> i \in D
    BY <2>2 DEF b
  <2>5. QED
    BY <2>2, <2>3, <2>4
<1> HIDE DEF y
<1>4. Keeping(I, D) \in Seq(Incident) /\ Len(Keeping(I, D)) = Len(I)
  BY <1>1, <1>2, <1>3
<1>5. \A i \in 1..Len(I) : Keeping(I, D)[i] = y(i)
  BY <1>2
<1>6. QED
  BY <1>3, <1>4, <1>5 DEF Outlives

\* So may their copies, and then all stay on disk.
LEMMA EmptiedOutlives ==
    ASSUME NEW I \in Seq(Incident), NEW T
    PROVE  /\ Outlives(Emptied(I, T), I)
           /\ \A i \in 1..Len(I) : Emptied(I, T)[i].present = I[i].present
<1>1. DOMAIN I = 1..Len(I) /\ Len(I) \in Nat /\ \A i \in 1..Len(I) : I[i] \in Incident
  OBVIOUS
<1> DEFINE z(i) == [I[i] EXCEPT !.pre = {}, !.after = {}, !.torn = TRUE]
           y(i) == IF i \in T THEN z(i) ELSE I[i]
<1>2. Emptied(I, T) = [i \in 1..Len(I) |-> y(i)]
  BY <1>1 DEF Emptied
<1>3. ASSUME NEW i \in 1..Len(I)
      PROVE  /\ y(i) \in Incident /\ y(i).present = I[i].present
             /\ SameIncident(y(i), I[i]) /\ KeepsCopies(y(i), I[i])
             /\ y(i).complete = I[i].complete
  <2>1. I[i] \in Incident
    BY <1>1
  <2>2. /\ z(i) \in Incident /\ z(i).present = I[i].present
        /\ SameIncident(z(i), I[i]) /\ KeepsCopies(z(i), I[i])
        /\ z(i).complete = I[i].complete
    BY <2>1, EmptySet
  <2> HIDE DEF z
  <2>3. SameIncident(I[i], I[i]) /\ KeepsCopies(I[i], I[i])
    BY DEF SameIncident, KeepsCopies
  <2>4. QED
    BY <2>1, <2>2, <2>3
<1> HIDE DEF y
<1>4. Emptied(I, T) \in Seq(Incident) /\ Len(Emptied(I, T)) = Len(I)
  BY <1>1, <1>2, <1>3
<1>5. \A i \in 1..Len(I) : Emptied(I, T)[i] = y(i)
  BY <1>2
<1>6. QED
  BY <1>3, <1>4, <1>5 DEF Outlives

\* What outlives what outlived incidents outlives them.
LEMMA OutlivesTwice ==
    ASSUME NEW I \in Seq(Incident), NEW J, NEW K, Outlives(J, I), Outlives(K, J)
    PROVE  Outlives(K, I)
  BY DEF Outlives, SameIncident, KeepsCopies

-----------------------------------------------------------------------------
(* Trims.                                                                    *)

\* Victims are finitely many, and so are the removals.
LEMMA RemovalsCounted ==
    ASSUME NEW I \in Seq(Incident), NEW a, NEW R
    PROVE  /\ IsFiniteSet(Victims(I, a))
           /\ Removals(I, a, R) \in Nat
<1>1. IsFiniteSet(1..Len(I))
  BY FS_Interval
<1>2. Victims(I, a) \in SUBSET (1..Len(I))
  BY DEF Victims, OnDisk
<1>3. IsFiniteSet(Victims(I, a))
  BY <1>1, <1>2, FS_Subset
<1>4. Cardinality(Victims(I, a)) \in Nat
  BY <1>3, FS_CardinalityType
<1>5. IsFiniteSet(0..(Cardinality(Victims(I, a)) - 1))
  BY <1>4, FS_Interval
<1>6. Removals(I, a, R) \in Nat
  <2> DEFINE before == {k \in 0..(Cardinality(Victims(I, a)) - 1) :
                          \A j \in 0..k : ~Fits(I, Without(I, a, j), R)}
  <2>1. IsFiniteSet(before)
    BY <1>5, FS_Subset
  <2>2. QED
    BY <2>1, FS_CardinalityType DEF Removals
<1>7. QED
  BY <1>3, <1>6

\* Incidents J are what a trim of I, run to its end or cut short, leaves.
Trimmed(J, I, a) ==
    /\ Outlives(J, I)
    /\ \E k \in Nat : \A i \in 1..Len(I) : J[i].present <=> i \in Without(I, a, k)

\* A trim that runs to its end.
LEMMA TrimTrims ==
    ASSUME NEW I \in Seq(Incident), NEW a, NEW R
    PROVE  Trimmed(Trim(I, a, R), I, a)
<1> DEFINE k == Removals(I, a, R)
<1>1. k \in Nat
  BY RemovalsCounted
<1> HIDE DEF k
<1>2. Trim(I, a, R) = Keeping(I, Without(I, a, k))
  BY DEF Trim, k
<1>3. QED
  BY <1>1, <1>2, KeepingOutlives DEF Trimmed

\* A trim that does not.
LEMMA CutTrims ==
    ASSUME NEW I \in Seq(Incident), NEW a, NEW R, TrimCut(I, a, R)
    PROVE  Trimmed(incidents', I, a)
<1> DEFINE J == incidents'
<1>1. Removals(I, a, R) \in Nat
  BY RemovalsCounted
<1>2. PICK k \in 0..Removals(I, a, R), m \in 0..Removals(I, a, R) :
         J = Emptied(Keeping(I, Without(I, a, k)), Without(I, a, k) \ Without(I, a, m))
  BY DEF TrimCut
<1> HIDE DEF J
<1> DEFINE T == Without(I, a, k) \ Without(I, a, m)
           K == Keeping(I, Without(I, a, k))
<1>3. k \in Nat
  BY <1>1, <1>2
<1>4. J = Emptied(K, T)
  BY <1>2
<1> HIDE DEF T
<1>5. Outlives(K, I) /\ \A i \in 1..Len(I) : K[i].present <=> i \in Without(I, a, k)
  BY KeepingOutlives
<1> HIDE DEF K
<1>6. K \in Seq(Incident) /\ Len(K) = Len(I)
  BY <1>5 DEF Outlives
<1>7. Outlives(J, K) /\ \A i \in 1..Len(K) : J[i].present = K[i].present
  BY <1>4, <1>6, EmptiedOutlives
<1>8. Outlives(J, I)
  BY <1>5, <1>7, OutlivesTwice
<1>9. QED
  BY <1>3, <1>5, <1>6, <1>7, <1>8 DEF Trimmed, J

\* Of the incidents on disk a trim removes lesser names before greater ones,
\* never the least and never the active one.
LEMMA LeastGoFirst ==
    ASSUME NEW I \in Seq(Incident), NEW a, NEW k \in Nat,
           NEW r \in OnDisk(I), r \notin Without(I, a, k)
    PROVE  /\ r # a
           /\ \E e \in OnDisk(I) : Before(I, e, r)
           /\ \A p \in Without(I, a, k) :
                 p = a \/ (\A e \in OnDisk(I) : ~Before(I, e, p)) \/ Before(I, r, p)
<1> DEFINE lesser(d) == {c \in Victims(I, a) : Before(I, c, d)}
<1>1. IsFiniteSet(Victims(I, a))
  BY RemovalsCounted
<1>2. r \in Victims(I, a) /\ ~(Cardinality(lesser(r)) >= k)
  BY DEF Without
<1>3. ASSUME NEW p \in Without(I, a, k), p # a, NEW e \in OnDisk(I), Before(I, e, p)
      PROVE  Before(I, r, p)
  <2>1. p \in OnDisk(I) /\ p \in Victims(I, a)
    BY <1>3 DEF Without, Victims
  <2>2. Cardinality(lesser(p)) >= k
    BY <1>3, <2>1 DEF Without
  <2>3. \A c \in OnDisk(I) : I[c].name \in Nat
    <3>1. \A c \in OnDisk(I) : I[c] \in Incident
      BY DEF OnDisk
    <3>2. \A x \in Incident : x.name \in Nat
      BY DEF Incident
    <3>3. QED
      BY <3>1, <3>2
  <2>4. SUFFICES ASSUME ~Before(I, r, p) PROVE FALSE
    OBVIOUS
  <2>5. lesser(p) \in SUBSET lesser(r) /\ lesser(r) \in SUBSET Victims(I, a)
    <3>1. Victims(I, a) \subseteq OnDisk(I)
      BY DEF Victims
    <3>2. QED
      BY <2>1, <2>3, <2>4, <3>1 DEF Before
  <2>6. IsFiniteSet(lesser(r)) /\ IsFiniteSet(lesser(p))
    BY <1>1, <2>5, FS_Subset
  <2>7. Cardinality(lesser(p)) <= Cardinality(lesser(r))
    BY <2>5, <2>6, FS_Subset
  <2>8. Cardinality(lesser(p)) \in Nat /\ Cardinality(lesser(r)) \in Nat
    BY <2>6, FS_CardinalityType
  <2>9. QED
    BY <1>2, <2>2, <2>7, <2>8
<1>4. r # a /\ \E e \in OnDisk(I) : Before(I, e, r)
  BY <1>2 DEF Victims
<1>5. QED
  BY <1>3, <1>4

-----------------------------------------------------------------------------
(* Incidents that are made.                                                  *)

\* A free name is a name.
LEMMA FreeName ==
    ASSUME TypeOK, NEW name \in FreeNames
    PROVE  name \in Nat
<1>1. now \in 0..MaxTime /\ Names \in [0..MaxTime -> SUBSET Nat]
  BY StoreAssumption DEF TypeOK
<1>2. Names[now] \in SUBSET Nat
  BY <1>1
<1>3. QED
  BY <1>2 DEF FreeNames

\* The directory a trigger makes is an incident of this moment.
LEMMA FreshIncident ==
    ASSUME TypeOK, NEW name \in FreeNames, NEW copied \in SUBSET rolling,
           NEW sealed \in BOOLEAN, NEW r \in Nat, NEW again \in BOOLEAN
    PROVE  LET f == Fresh(name, copied, sealed, r, again)
           IN  /\ f \in Incident
               /\ f.at = now /\ f.until = now + Post /\ f.run = r
               /\ f.mark = Len(log) /\ f.pre = copied /\ f.after = {}
               /\ f.sealed = sealed /\ f.restart = again
               /\ f.complete = FALSE /\ f.torn = FALSE /\ f.present = TRUE
<1>1. now \in Nat /\ now + Post \in Nat /\ Len(log) \in Nat /\ name \in Nat
  BY FreeName, StoreAssumption DEF TypeOK
<1>2. copied \in SUBSET Nat
  BY DEF TypeOK, Lines
<1>3. QED
  BY <1>1, <1>2 DEF Fresh, Incident

\* Making one leaves the others as they are.
LEMMA MadeIncident ==
    ASSUME TypeOK, NEW f \in Incident
    PROVE  /\ Append(incidents, f) \in Seq(Incident)
           /\ Len(Append(incidents, f)) = Len(incidents) + 1
           /\ \A i \in 1..Len(incidents) : Append(incidents, f)[i] = incidents[i]
           /\ Append(incidents, f)[Len(incidents) + 1] = f
<1>1. incidents \in Seq(Incident)
  BY DEF TypeOK
<1>2. QED
  BY <1>1, AppendProperties

\* The incident a step makes is of this moment; one that is sealed and not
\* emptied has all lines, and one that a live daemon opens is the active one.
MadeNow(x, i) ==
    /\ x.at = now /\ x.until = now + Post /\ x.mark = Len(log) /\ x.run = run'
    /\ x.after = {} /\ ~x.complete /\ now' = now
    /\ x.sealed /\ ~x.torn => x.pre = rolling
    /\ up' /\ x.sealed /\ ~x.restart => active' = i

\* What an incident made, and perhaps trimmed for, leaves behind.
LEMMA MakeEffect ==
    ASSUME TypeOK, NEW f \in Incident, MadeNow(f, Len(incidents) + 1), NEW J,
           Outlives(J, Append(incidents, f))
    PROVE  /\ J \in Seq(Incident)
           /\ Len(J) = Len(incidents) + 1
           /\ \A i \in 1..Len(incidents) :
                /\ SameIncident(J[i], incidents[i]) /\ KeepsCopies(J[i], incidents[i])
                /\ J[i].complete = incidents[i].complete
           /\ MadeNow(J[Len(incidents) + 1], Len(incidents) + 1)
<1> DEFINE I == Append(incidents, f)
           n == Len(incidents) + 1
<1>1. /\ I \in Seq(Incident) /\ Len(I) = n
      /\ \A i \in 1..Len(incidents) : I[i] = incidents[i]
      /\ I[n] = f
  BY MadeIncident
<1>2. Len(incidents) \in Nat
  BY DEF TypeOK
<1>3. Outlives(J, I)
  OBVIOUS
<1> HIDE DEF I
<1>4. /\ J \in Seq(Incident) /\ Len(J) = n
      /\ \A i \in 1..Len(incidents) :
           /\ SameIncident(J[i], incidents[i]) /\ KeepsCopies(J[i], incidents[i])
           /\ J[i].complete = incidents[i].complete
  BY <1>1, <1>2, <1>3 DEF Outlives
<1>5. SameIncident(J[n], f) /\ KeepsCopies(J[n], f) /\ J[n].complete = f.complete
  BY <1>1, <1>2, <1>3 DEF Outlives
<1>6. MadeNow(J[n], n)
  BY <1>5 DEF SameIncident, KeepsCopies, MadeNow
<1>7. QED
  BY <1>4, <1>6

\* An incident that is only half made.
LEMMA HalfMadeEffect ==
    ASSUME TypeOK, NEW r \in Nat, NEW again \in BOOLEAN, HalfMade(r, again),
           r = run', now' = now, ~up'
    PROVE  /\ incidents' \in Seq(Incident)
           /\ Len(incidents') = Len(incidents) + 1
           /\ \A i \in 1..Len(incidents) :
                /\ SameIncident(incidents'[i], incidents[i])
                /\ KeepsCopies(incidents'[i], incidents[i])
                /\ incidents'[i].complete = incidents[i].complete
           /\ MadeNow(incidents'[Len(incidents) + 1], Len(incidents) + 1)
<1>0. rolling \in SUBSET rolling
  OBVIOUS
<1>1. PICK name \in FreeNames :
         \/ \E copied \in SUBSET rolling :
              incidents' = With(name, copied, FALSE, r, again)
         \/ TrimCut(With(name, rolling, TRUE, r, again), Len(incidents) + 1, rolling)
  BY Zenon DEF HalfMade
<1>2. CASE \E copied \in SUBSET rolling : incidents' = With(name, copied, FALSE, r, again)
  <2>1. PICK copied \in SUBSET rolling : incidents' = With(name, copied, FALSE, r, again)
    BY <1>2
  <2> DEFINE f == Fresh(name, copied, FALSE, r, again)
  <2>2. f \in Incident
    BY FreshIncident
  <2>3. MadeNow(f, Len(incidents) + 1)
    BY DEF Fresh, MadeNow
  <2>4. incidents' = Append(incidents, f)
    BY <2>1 DEF With
  <2> HIDE DEF f
  <2>5. incidents' \in Seq(Incident)
    BY <2>2, <2>4, MadeIncident
  <2>6. Outlives(incidents', incidents')
    BY <2>5 DEF Outlives, SameIncident, KeepsCopies
  <2>7. QED
    BY <2>2, <2>3, <2>4, <2>6, MakeEffect
<1>3. CASE TrimCut(With(name, rolling, TRUE, r, again), Len(incidents) + 1, rolling)
  <2> DEFINE f == Fresh(name, rolling, TRUE, r, again)
             I == Append(incidents, f)
  <2>1. f \in Incident
    BY <1>0, FreshIncident
  <2>2. MadeNow(f, Len(incidents) + 1)
    BY DEF Fresh, MadeNow
  <2>3. TrimCut(I, Len(incidents) + 1, rolling)
    BY <1>3 DEF With
  <2> HIDE DEF f
  <2>4. I \in Seq(Incident)
    BY <2>1, MadeIncident
  <2>5. Outlives(incidents', I)
    <3> HIDE DEF I
    <3>1. QED
      BY <2>3, <2>4, CutTrims DEF Trimmed
  <2>6. QED
    BY <2>1, <2>2, <2>5, MakeEffect
<1>4. QED
  BY <1>1, <1>2, <1>3

\* A tick marks at most the active incident complete.
LEMMA ClosedEffect ==
    ASSUME TypeOK
    PROVE  /\ Closing \in Seq(Incident)
           /\ Len(Closing) = Len(incidents)
           /\ \A i \in 1..Len(incidents) :
                /\ SameIncident(Closing[i], incidents[i])
                /\ KeepsCopies(Closing[i], incidents[i])
                /\ Closing[i].present = incidents[i].present
                /\ Closing[i].complete => incidents[i].complete \/ (i = active /\ Ending)
<1>1. /\ incidents \in Seq(Incident) /\ DOMAIN incidents = 1..Len(incidents)
      /\ Len(incidents) \in Nat
      /\ \A i \in 1..Len(incidents) : incidents[i] \in Incident
  BY DEF TypeOK
<1> DEFINE z(i) == [incidents[i] EXCEPT !.complete = TRUE]
           y(i) == IF i = active /\ Ending THEN z(i) ELSE incidents[i]
<1>2. Closing = [i \in 1..Len(incidents) |-> y(i)]
  BY <1>1 DEF Closing
<1>3. ASSUME NEW i \in 1..Len(incidents)
      PROVE  /\ y(i) \in Incident
             /\ SameIncident(y(i), incidents[i]) /\ KeepsCopies(y(i), incidents[i])
             /\ y(i).present = incidents[i].present
             /\ y(i).complete => incidents[i].complete \/ (i = active /\ Ending)
  <2>1. incidents[i] \in Incident
    BY <1>1
  <2>2. /\ z(i) \in Incident /\ z(i).present = incidents[i].present
        /\ SameIncident(z(i), incidents[i]) /\ KeepsCopies(z(i), incidents[i])
    BY <2>1, CompleteSet
  <2> HIDE DEF z
  <2>3. SameIncident(incidents[i], incidents[i]) /\ KeepsCopies(incidents[i], incidents[i])
    BY DEF SameIncident, KeepsCopies
  <2>4. QED
    BY <2>1, <2>2, <2>3
<1> HIDE DEF y
<1>4. Closing \in Seq(Incident) /\ Len(Closing) = Len(incidents)
  BY <1>1, <1>2, <1>3
<1>5. \A i \in 1..Len(incidents) : Closing[i] = y(i)
  BY <1>2
<1>6. QED
  BY <1>3, <1>4, <1>5

\* And so does one that is cut short in its trim.
LEMMA TickEffect ==
    ASSUME TypeOK, Trimmed(incidents', Closing, StillActive)
    PROVE  /\ incidents' \in Seq(Incident)
           /\ Len(incidents') = Len(incidents)
           /\ \A i \in 1..Len(incidents) :
                /\ SameIncident(incidents'[i], incidents[i])
                /\ KeepsCopies(incidents'[i], incidents[i])
                /\ incidents'[i].complete => \/ incidents[i].complete
                                             \/ now > incidents[i].until
<1>1. /\ Closing \in Seq(Incident)
      /\ Len(Closing) = Len(incidents)
      /\ \A i \in 1..Len(incidents) :
           /\ SameIncident(Closing[i], incidents[i])
           /\ KeepsCopies(Closing[i], incidents[i])
           /\ Closing[i].complete => incidents[i].complete \/ (i = active /\ Ending)
  BY ClosedEffect
<1>2. Outlives(incidents', Closing)
  BY DEF Trimmed
<1>3. incidents' \in Seq(Incident) /\ Len(incidents') = Len(incidents)
  BY <1>1, <1>2 DEF Outlives
<1>4. ASSUME NEW i \in 1..Len(incidents)
      PROVE  /\ SameIncident(incidents'[i], incidents[i])
             /\ KeepsCopies(incidents'[i], incidents[i])
             /\ incidents'[i].complete => \/ incidents[i].complete
                                          \/ now > incidents[i].until
  <2>1. /\ SameIncident(incidents'[i], Closing[i]) /\ KeepsCopies(incidents'[i], Closing[i])
        /\ incidents'[i].complete = Closing[i].complete
    BY <1>1, <1>2 DEF Outlives
  <2>2. SameIncident(Closing[i], incidents[i]) /\ KeepsCopies(Closing[i], incidents[i])
    BY <1>1
  <2>3. SameIncident(incidents'[i], incidents[i]) /\ KeepsCopies(incidents'[i], incidents[i])
    BY <2>1, <2>2 DEF SameIncident, KeepsCopies
  <2>4. incidents'[i].complete => incidents[i].complete \/ (i = active /\ Ending)
    BY <1>1, <2>1
  <2>5. QED
    BY <2>3, <2>4 DEF Ending
<1>5. QED
  BY <1>3, <1>4

-----------------------------------------------------------------------------
(* What a step does to the incidents and to the lines: it writes a line, or  *)
(* it writes none.                                                           *)

\* The incident that takes the line of this step: none does when the daemon
\* dies with it.
Takes(i) == up' /\ Receives(i)

\* A step that writes a line.
Writes ==
    /\ Len(log') = Len(log) + 1
    /\ \A l \in 1..Len(log) : log'[l] = log[l]
    /\ log'[Len(log) + 1].at = now /\ log'[Len(log) + 1].run = run
    /\ log'[Len(log) + 1].kept => Len(log) + 1 \in rolling'
    /\ rolling \subseteq rolling' /\ lost' = lost /\ now' = now /\ run' = run /\ up
    /\ incidents' \in Seq(Incident) /\ Len(incidents') = Len(incidents)
    /\ \A i \in 1..Len(incidents) :
         /\ SameIncident(incidents'[i], incidents[i])
         /\ incidents'[i].pre = incidents[i].pre
         /\ incidents'[i].complete = incidents[i].complete
         /\ incidents'[i].torn = incidents[i].torn
         /\ incidents'[i].present = incidents[i].present
         /\ Takes(i) => incidents'[i].after = incidents[i].after \cup {Len(log) + 1}
         /\ ~Takes(i) => incidents'[i].after = incidents[i].after
    /\ active' = IF up' THEN active ELSE 0

\* A step that writes no line.
Quiet ==
    /\ log' = log /\ lost \subseteq lost' /\ now' \in Nat /\ now' >= now
    /\ rolling \ rolling' \subseteq lost' \cup {l \in rolling : Expired(l) /\ now' = now}
    /\ Len(incidents') \in {Len(incidents), Len(incidents) + 1}
    /\ \A i \in 1..Len(incidents) :
         /\ SameIncident(incidents'[i], incidents[i])
         /\ KeepsCopies(incidents'[i], incidents[i])
         /\ incidents'[i].complete => \/ incidents[i].complete
                                      \/ now > incidents[i].until
    /\ Len(incidents') = Len(incidents) + 1
         => MadeNow(incidents'[Len(incidents) + 1], Len(incidents) + 1)
    /\ run' \in {run, run + 1}
    /\ up' /\ run' = run => up /\ (active' # active => ~InWindow)

\* The log grows by the line.
LEMMA LineWritten ==
    ASSUME TypeOK, NEW kind \in Kinds, Written(kind)
    PROVE  /\ log' \in Seq([kind : Kinds, at : Nat, run : Nat, kept : BOOLEAN])
           /\ Len(log') = Len(log) + 1
           /\ \A l \in 1..Len(log) : log'[l] = log[l]
           /\ log'[Len(log) + 1].at = now
           /\ log'[Len(log) + 1].run = run
           /\ log'[Len(log) + 1].kept => Len(log) + 1 \in rolling'
           /\ rolling \subseteq rolling' /\ rolling' \subseteq rolling \cup {Len(log) + 1}
           /\ Lines \subseteq Lines' /\ Len(log) + 1 \in Lines'
           /\ lost' = lost /\ safe' = safe /\ now' = now /\ run' = run /\ up
<1> DEFINE b == Room(kind)
           L == [kind : Kinds, at : Nat, run : Nat, kept : BOOLEAN]
           e == [kind |-> kind, at |-> now, run |-> run, kept |-> b]
<1>1. b \in BOOLEAN
  BY DEF Room
<1>2. /\ log' = Append(log, e)
      /\ rolling' = IF b THEN rolling \cup {Len(log) + 1} ELSE rolling
      /\ lost' = lost /\ safe' = safe /\ now' = now /\ run' = run /\ up
  BY DEF Written
<1> HIDE DEF b
<1>3. e \in L
  BY <1>1 DEF TypeOK
<1>4. e.at = now /\ e.run = run /\ e.kept = b
  OBVIOUS
<1>5. log \in Seq(L)
  BY DEF TypeOK
<1> HIDE DEF L, e
<1>6. /\ log' \in Seq(L) /\ Len(log') = Len(log) + 1 /\ log'[Len(log) + 1] = e
      /\ \A l \in 1..Len(log) : log'[l] = log[l]
  BY <1>2, <1>3, <1>5, AppendProperties
<1>7. Lines \subseteq Lines' /\ Len(log) + 1 \in Lines'
  BY <1>5, <1>6 DEF Lines
<1>8. QED
  BY <1>1, <1>2, <1>4, <1>6, <1>7 DEF L

\* What a line does to the incidents.
LEMMA AppendEffect ==
    ASSUME TypeOK, NEW kind \in Kinds, AppendLine(kind)
    PROVE  Writes
<1>1. /\ incidents \in Seq(Incident) /\ DOMAIN incidents = 1..Len(incidents)
      /\ Len(incidents) \in Nat /\ Len(log) + 1 \in Nat
      /\ \A i \in 1..Len(incidents) : incidents[i] \in Incident
  BY DEF TypeOK
<1>2. Written(kind) /\ up' = up /\ active' = active
  BY DEF AppendLine
<1> DEFINE n == Len(log) + 1
           z(i) == [incidents[i] EXCEPT !.after = @ \cup {n}]
           y(i) == IF Receives(i) THEN z(i) ELSE incidents[i]
<1>3. incidents' = [i \in 1..Len(incidents) |-> y(i)]
  BY <1>1 DEF AppendLine
<1>4. ASSUME NEW i \in 1..Len(incidents)
      PROVE  /\ y(i) \in Incident /\ SameIncident(y(i), incidents[i])
             /\ y(i).pre = incidents[i].pre /\ y(i).complete = incidents[i].complete
             /\ y(i).torn = incidents[i].torn /\ y(i).present = incidents[i].present
             /\ Receives(i) => y(i).after = incidents[i].after \cup {n}
             /\ ~Receives(i) => y(i).after = incidents[i].after
  <2>1. incidents[i] \in Incident /\ n \in Nat
    BY <1>1
  <2> HIDE DEF n
  <2>2. /\ z(i) \in Incident /\ z(i).after = incidents[i].after \cup {n}
        /\ SameIncident(z(i), incidents[i]) /\ z(i).pre = incidents[i].pre
        /\ z(i).complete = incidents[i].complete
        /\ z(i).torn = incidents[i].torn /\ z(i).present = incidents[i].present
    BY <2>1, AfterSet
  <2> HIDE DEF z
  <2>3. SameIncident(incidents[i], incidents[i])
    BY DEF SameIncident
  <2>4. QED
    BY <2>1, <2>2, <2>3
<1> HIDE DEF y
<1>5. incidents' \in Seq(Incident) /\ Len(incidents') = Len(incidents)
  BY <1>1, <1>3, <1>4
<1>6. \A i \in 1..Len(incidents) : incidents'[i] = y(i)
  BY <1>3
<1>7. up
  BY <1>2, LineWritten
<1>8. \A i \in 1..Len(incidents) :
         /\ SameIncident(incidents'[i], incidents[i])
         /\ incidents'[i].pre = incidents[i].pre
         /\ incidents'[i].complete = incidents[i].complete
         /\ incidents'[i].torn = incidents[i].torn
         /\ incidents'[i].present = incidents[i].present
         /\ Takes(i) => incidents'[i].after = incidents[i].after \cup {n}
         /\ ~Takes(i) => incidents'[i].after = incidents[i].after
  BY <1>2, <1>4, <1>6, <1>7 DEF Takes
<1>9. QED
  BY <1>2, <1>5, <1>7, <1>8, LineWritten DEF Writes

\* A line a daemon dies with reaches no incident.
LEMMA LastLineEffect ==
    ASSUME TypeOK, NEW kind \in Kinds, KillInAppend(kind)
    PROVE  Writes
<1>1. /\ Written(kind) /\ ~up' /\ active' = 0 /\ incidents' = incidents
  BY DEF KillInAppend, Gone
<1>2. incidents \in Seq(Incident)
  BY DEF TypeOK
<1>3. \A i \in 1..Len(incidents) : SameIncident(incidents'[i], incidents[i]) /\ ~Takes(i)
  BY <1>1 DEF SameIncident, Takes
<1>4. QED
  BY <1>1, <1>2, <1>3, LineWritten DEF Writes

\* Incidents that nothing happens to.
LEMMA Untouched ==
    ASSUME incidents' = incidents
    PROVE  \A i \in 1..Len(incidents) :
              /\ SameIncident(incidents'[i], incidents[i])
              /\ KeepsCopies(incidents'[i], incidents[i])
              /\ incidents'[i].complete = incidents[i].complete
  BY DEF SameIncident, KeepsCopies

\* Every step writes a line or is quiet, and leaves a sequence of incidents.
LEMMA WritesOrQuiet ==
    ASSUME TypeOK, [Next]_vars
    PROVE  (Writes \/ Quiet) /\ incidents' \in Seq(Incident)
<1>0. /\ Len(incidents) \in Nat /\ now \in Nat /\ run \in Nat /\ run + 1 \in Nat
      /\ incidents \in Seq(Incident) /\ rolling \in SUBSET rolling
      /\ \A i \in 1..Len(incidents) : incidents[i] \in Incident
  BY DEF TypeOK
<1>1. ASSUME NEW kind \in Kinds, AppendLine(kind)
      PROVE  Writes /\ incidents' \in Seq(Incident)
  BY <1>1, AppendEffect DEF Writes
<1>2. ASSUME NEW kind \in Kinds, KillInAppend(kind)
      PROVE  Writes /\ incidents' \in Seq(Incident)
  BY <1>2, LastLineEffect DEF Writes
<1>3. CASE Noted
  BY <1>1, <1>3, StoreAssumption DEF Noted
<1>4. CASE Trigger
  <2> DEFINE n == Len(incidents) + 1
  <2>1. /\ log' = log /\ lost' = lost /\ now' = now /\ rolling' = rolling /\ run' = run
        /\ up' = up /\ up /\ active' = n /\ ~InWindow
    BY <1>4 DEF Trigger
  <2>2. PICK name \in FreeNames :
           incidents' = Trim(With(name, rolling, TRUE, run, FALSE), n, rolling)
    BY <1>4 DEF Trigger
  <2> DEFINE f == Fresh(name, rolling, TRUE, run, FALSE)
             I == Append(incidents, f)
  <2>3. f \in Incident
    BY <1>0, FreshIncident
  <2>4. MadeNow(f, n)
    BY <2>1 DEF Fresh, MadeNow
  <2>5. incidents' = Trim(I, n, rolling)
    BY <2>2 DEF With
  <2> HIDE DEF f
  <2>6. I \in Seq(Incident)
    BY <2>3, MadeIncident
  <2>7. Outlives(incidents', I)
    <3> HIDE DEF I
    <3>1. QED
      BY <2>5, <2>6, TrimTrims DEF Trimmed
  <2>8. /\ incidents' \in Seq(Incident)
        /\ Len(incidents') = n
        /\ \A i \in 1..Len(incidents) :
             /\ SameIncident(incidents'[i], incidents[i])
             /\ KeepsCopies(incidents'[i], incidents[i])
             /\ incidents'[i].complete = incidents[i].complete
        /\ MadeNow(incidents'[n], n)
    BY <2>3, <2>4, <2>7, MakeEffect
  <2>9. QED
    BY <1>0, <2>1, <2>8 DEF Quiet
<1>5. ASSUME ~up', run' = run, now' = now, log' = log, lost' = lost, rolling' = rolling,
             HalfMade(run, FALSE)
      PROVE  Quiet /\ incidents' \in Seq(Incident)
  <2>1. FALSE \in BOOLEAN /\ run \in Nat
    BY <1>0
  <2>2. /\ incidents' \in Seq(Incident)
        /\ Len(incidents') = Len(incidents) + 1
        /\ \A i \in 1..Len(incidents) :
             /\ SameIncident(incidents'[i], incidents[i])
             /\ KeepsCopies(incidents'[i], incidents[i])
             /\ incidents'[i].complete = incidents[i].complete
        /\ MadeNow(incidents'[Len(incidents) + 1], Len(incidents) + 1)
    BY <1>5, <2>1, HalfMadeEffect
  <2>3. QED
    BY <1>0, <1>5, <2>2 DEF Quiet
<1>6. CASE Tick
  <2>1. /\ log' = log /\ lost' = lost /\ now' = now /\ rolling' = Left /\ run' = run
        /\ up' = up /\ up /\ active' = StillActive
        /\ incidents' = Trim(Closing, StillActive, Left)
    BY <1>6 DEF Tick
  <2>2. Closing \in Seq(Incident)
    BY ClosedEffect
  <2>3. Trimmed(incidents', Closing, StillActive)
    BY <2>1, <2>2, TrimTrims
  <2>4. /\ incidents' \in Seq(Incident) /\ Len(incidents') = Len(incidents)
        /\ \A i \in 1..Len(incidents) :
             /\ SameIncident(incidents'[i], incidents[i])
             /\ KeepsCopies(incidents'[i], incidents[i])
             /\ incidents'[i].complete => \/ incidents[i].complete
                                          \/ now > incidents[i].until
    BY <2>3, TickEffect
  <2>5. active' # active => ~InWindow
    <3>1. ASSUME Ending PROVE ~InWindow
      <4>1. active # 0 /\ now > incidents[active].until /\ active \in 1..Len(incidents)
        BY <1>0, <3>1 DEF Ending, TypeOK
      <4>2. incidents[active].until \in Nat
        BY <1>0, <4>1 DEF Incident
      <4>3. QED
        BY <1>0, <4>1, <4>2 DEF InWindow
    <3>2. QED
      BY <2>1, <3>1 DEF StillActive
  <2>6. rolling \ rolling' \subseteq lost' \cup {l \in rolling : Expired(l) /\ now' = now}
    BY <2>1 DEF Left
  <2>7. QED
    BY <1>0, <2>1, <2>4, <2>5, <2>6 DEF Quiet
<1>7. CASE KillInTick
  <2>1. /\ log' = log /\ lost' = lost /\ now' = now /\ run' = run /\ ~up'
    BY <1>7 DEF KillInTick, Gone
  <2>2. rolling \ rolling' \subseteq {l \in rolling : Expired(l) /\ now' = now}
    BY <1>7, <2>1 DEF KillInTick, Left
  <2>3. /\ incidents' \in Seq(Incident) /\ Len(incidents') = Len(incidents)
        /\ \A i \in 1..Len(incidents) :
             /\ SameIncident(incidents'[i], incidents[i])
             /\ KeepsCopies(incidents'[i], incidents[i])
             /\ incidents'[i].complete => \/ incidents[i].complete
                                          \/ now > incidents[i].until
    <3>1. CASE incidents' = incidents
      BY <1>0, <3>1, Untouched
    <3>2. CASE TrimCut(Closing, StillActive, Left)
      <4>1. Closing \in Seq(Incident)
        BY ClosedEffect
      <4>2. Trimmed(incidents', Closing, StillActive)
        BY <3>2, <4>1, CutTrims
      <4>3. QED
        BY <4>2, TickEffect
    <3>3. QED
      BY <1>7, <3>1, <3>2 DEF KillInTick
  <2>4. QED
    BY <1>0, <2>1, <2>2, <2>3 DEF Quiet
<1>8. CASE Pass
  <2>1. /\ now' = now + 1 /\ up' = up /\ run' = run /\ log' = log
        /\ rolling' = rolling /\ lost' = lost /\ incidents' = incidents
        /\ active' = active
    BY <1>8 DEF Pass
  <2>2. ASSUME up' PROVE up
    BY <2>1, <2>2
  <2>3. QED
    BY <1>0, <2>1, <2>2, Untouched DEF Quiet
<1>9. CASE Kill
  <2>1. /\ now' = now /\ up' = FALSE /\ run' = run /\ log' = log
        /\ rolling' = rolling /\ lost' = lost /\ incidents' = incidents
    BY <1>9 DEF Kill, Gone
  <2>2. QED
    BY <1>0, <2>1, Untouched DEF Quiet
<1>10. CASE KillInTrigger
  <2>1. /\ now' = now /\ ~up' /\ run' = run /\ log' = log
        /\ rolling' = rolling /\ lost' = lost /\ HalfMade(run, FALSE)
    BY <1>10 DEF KillInTrigger, Gone
  <2>2. QED
    BY <1>5, <2>1
<1>11. CASE PowerLoss
  <2>1. PICK T \in {{}, OnDisk(incidents)} : incidents' = Emptied(incidents, T)
    BY <1>11, Zenon DEF PowerLoss
  <2>2. Outlives(incidents', incidents)
    BY <1>0, <2>1, EmptiedOutlives
  <2>3. /\ now' = now /\ up' = FALSE /\ run' = run /\ log' = log
        /\ rolling' = rolling \cap safe /\ lost' = lost \cup (rolling \ safe)
    BY <1>11 DEF PowerLoss, Gone
  <2>4. rolling \ rolling' \subseteq lost' /\ lost \subseteq lost'
    BY <2>3
  <2>5. QED
    BY <1>0, <2>2, <2>3, <2>4 DEF Quiet, Outlives
<1>12. CASE Restart
  <2> DEFINE n == Len(incidents) + 1
  <2>1. /\ log' = log /\ lost' = lost /\ now' = now /\ rolling' = rolling
        /\ run' = run + 1
    BY <1>12 DEF Restart
  <2>2. CASE incidents' = incidents
    BY <1>0, <2>1, <2>2, Untouched DEF Quiet
  <2>3. CASE \E name \in FreeNames :
               incidents' = Trim(With(name, rolling, TRUE, run + 1, TRUE), n, rolling)
    <3>1. PICK name \in FreeNames :
             incidents' = Trim(With(name, rolling, TRUE, run + 1, TRUE), n, rolling)
      BY <2>3
    <3> DEFINE f == Fresh(name, rolling, TRUE, run + 1, TRUE)
               I == Append(incidents, f)
    <3>2. f \in Incident
      BY <1>0, FreshIncident
    <3>3. MadeNow(f, n)
      BY <2>1 DEF Fresh, MadeNow
    <3>4. incidents' = Trim(I, n, rolling)
      BY <3>1 DEF With
    <3> HIDE DEF f
    <3>5. I \in Seq(Incident)
      BY <3>2, MadeIncident
    <3>6. Outlives(incidents', I)
      <4> HIDE DEF I
      <4>1. QED
        BY <3>4, <3>5, TrimTrims DEF Trimmed
    <3>7. /\ incidents' \in Seq(Incident)
          /\ Len(incidents') = n
          /\ \A i \in 1..Len(incidents) :
               /\ SameIncident(incidents'[i], incidents[i])
               /\ KeepsCopies(incidents'[i], incidents[i])
               /\ incidents'[i].complete = incidents[i].complete
          /\ MadeNow(incidents'[n], n)
      BY <3>2, <3>3, <3>6, MakeEffect
    <3>8. QED
      BY <1>0, <2>1, <3>7 DEF Quiet
  <2>4. QED
    BY <1>12, <2>2, <2>3 DEF Restart
<1>13. CASE KillInRestart
  <2>1. /\ log' = log /\ lost' = lost /\ now' = now /\ rolling' = rolling
        /\ run' = run + 1 /\ ~up' /\ HalfMade(run + 1, TRUE)
    BY <1>13 DEF KillInRestart
  <2>2. TRUE \in BOOLEAN /\ run + 1 \in Nat
    BY <1>0
  <2>3. /\ incidents' \in Seq(Incident)
        /\ Len(incidents') = Len(incidents) + 1
        /\ \A i \in 1..Len(incidents) :
             /\ SameIncident(incidents'[i], incidents[i])
             /\ KeepsCopies(incidents'[i], incidents[i])
             /\ incidents'[i].complete = incidents[i].complete
        /\ MadeNow(incidents'[Len(incidents) + 1], Len(incidents) + 1)
    BY <2>1, <2>2, HalfMadeEffect
  <2>4. QED
    BY <1>0, <2>1, <2>3 DEF Quiet
<1>14. CASE UNCHANGED vars
  <2>1. /\ now' = now /\ up' = up /\ run' = run /\ log' = log
        /\ rolling' = rolling /\ lost' = lost /\ incidents' = incidents
        /\ active' = active
    BY <1>14
  <2>2. ASSUME up' PROVE up
    BY <2>1, <2>2
  <2>3. QED
    BY <1>0, <2>1, <2>2, Untouched DEF Quiet
<1>15. QED
  BY <1>1, <1>2, <1>3, <1>4, <1>6, <1>7, <1>8, <1>9, <1>10, <1>11, <1>12, <1>13, <1>14
     DEF Next

-----------------------------------------------------------------------------
(* Type correctness.                                                         *)

\* The ranges of the parts hold at the start.
LEMMA InitTypes == Init => TypeOK
<1> SUFFICES ASSUME Init PROVE TypeOK
  OBVIOUS
<1>1. now \in 0..MaxTime /\ up \in BOOLEAN /\ run \in Nat /\ ticked \in BOOLEAN
  <2>1. MaxTime \in Nat
    BY StoreAssumption
  <2>2. now = 0 /\ up \in BOOLEAN /\ run \in Nat /\ ticked \in BOOLEAN
    BY DEF Init
  <2>3. QED
    BY <2>1, <2>2
<1>2. handles \in [Kinds -> Int]
  BY DEF Init, Closed
<1>3. /\ log \in Seq([kind : Kinds, at : Nat, run : Nat, kept : BOOLEAN])
      /\ incidents \in Seq(Incident) /\ active \in 0..Len(incidents)
  BY DEF Init
<1>4. rolling \subseteq Lines /\ safe \subseteq Lines /\ lost \subseteq Lines
  BY DEF Init
<1>5. QED
  BY <1>1, <1>2, <1>3, <1>4 DEF TypeOK

\* The lines a step leaves are lines of the log.
LinesOK ==
    /\ log \in Seq([kind : Kinds, at : Nat, run : Nat, kept : BOOLEAN])
    /\ rolling \subseteq Lines /\ safe \subseteq Lines /\ lost \subseteq Lines

\* A write adds one.
LEMMA WrittenLines ==
    ASSUME TypeOK, NEW kind \in Kinds, Written(kind)
    PROVE  LinesOK' /\ now' = now /\ run' = run
  BY LineWritten DEF TypeOK, LinesOK

\* Other steps sync, delete or lose lines.
LEMMA FewerLines ==
    ASSUME TypeOK, log' = log, rolling' \subseteq rolling,
           safe' \subseteq safe \cup rolling, lost' \subseteq lost \cup rolling
    PROVE  LinesOK'
<1>1. Lines' = Lines
  BY DEF Lines
<1>2. QED
  BY <1>1 DEF TypeOK, LinesOK

\* Every step keeps the ranges.
LEMMA StepTypes == TypeOK /\ [Next]_vars => TypeOK'
<1> SUFFICES ASSUME TypeOK, [Next]_vars PROVE TypeOK'
  OBVIOUS
<1>0. /\ Len(incidents) \in Nat /\ now \in 0..MaxTime /\ MaxTime \in Nat /\ run \in Nat
      /\ run + 1 \in Nat /\ active \in 0..Len(incidents) /\ handles \in [Kinds -> Int]
      /\ up \in BOOLEAN /\ ticked \in BOOLEAN /\ incidents \in Seq(Incident)
      /\ rolling \in SUBSET rolling
  BY StoreAssumption DEF TypeOK
<1>1. incidents' \in Seq(Incident)
  BY WritesOrQuiet
<1>2. Len(incidents') \in {Len(incidents), Len(incidents) + 1}
  BY WritesOrQuiet DEF Writes, Quiet
<1>3. Synced \subseteq safe \cup rolling
  BY DEF Synced
<1>4. ASSUME LinesOK', now' \in 0..MaxTime, run' \in Nat, up' \in BOOLEAN,
             ticked' \in BOOLEAN, handles' \in [Kinds -> Int],
             active' \in 0..Len(incidents')
      PROVE  TypeOK'
  BY <1>1, <1>4 DEF TypeOK, LinesOK
<1>5. 0 \in 0..Len(incidents') /\ active \in 0..Len(incidents')
  BY <1>0, <1>2
<1>6. ASSUME NEW kind \in Kinds, AppendLine(kind) PROVE TypeOK'
  <2>1. LinesOK' /\ now' = now /\ run' = run
    BY <1>6, WrittenLines DEF AppendLine
  <2>2. Bucket(now) \in Int
    BY <1>0, BucketBounds
  <2>3. handles' \in [Kinds -> Int] /\ up' = up /\ active' = active /\ ticked' = ticked
    BY <1>0, <1>6, <2>2 DEF AppendLine
  <2>4. QED
    BY <1>0, <1>4, <1>5, <2>1, <2>3
<1>7. ASSUME Gone
      PROVE  /\ now' = now /\ run' = run /\ up' = FALSE /\ ticked' = FALSE
             /\ active' = 0 /\ handles' \in [Kinds -> Int]
  <2>1. Closed \in Int
    BY DEF Closed
  <2>2. QED
    BY <1>7, <2>1 DEF Gone
<1>8. ASSUME NEW kind \in Kinds, KillInAppend(kind) PROVE TypeOK'
  <2>1. LinesOK' /\ Gone
    BY <1>8, WrittenLines DEF KillInAppend
  <2>2. QED
    BY <1>0, <1>4, <1>5, <1>7, <2>1
<1>9. ASSUME Gone, LinesOK' PROVE TypeOK'
  BY <1>0, <1>4, <1>5, <1>7, <1>9
<1>10. CASE Noted
  BY <1>6, <1>10, StoreAssumption DEF Noted
<1>11. CASE Trigger
  <2> DEFINE n == Len(incidents) + 1
  <2>1. /\ log' = log /\ lost' = lost /\ now' = now /\ rolling' = rolling /\ run' = run
        /\ up' = up /\ active' = n /\ safe' = Synced /\ handles' = handles /\ ticked' = ticked
    BY <1>11 DEF Trigger
  <2>2. PICK name \in FreeNames :
           incidents' = Trim(With(name, rolling, TRUE, run, FALSE), n, rolling)
    BY <1>11 DEF Trigger
  <2> DEFINE I == With(name, rolling, TRUE, run, FALSE)
  <2>3. I \in Seq(Incident) /\ Len(I) = n
    <3>1. Fresh(name, rolling, TRUE, run, FALSE) \in Incident
      BY <1>0, FreshIncident
    <3>2. QED
      BY <3>1, MadeIncident DEF With
  <2> HIDE DEF I
  <2>4. Outlives(incidents', I)
    BY <2>2, <2>3, TrimTrims DEF Trimmed, I
  <2>5. Len(incidents') = n
    BY <2>3, <2>4 DEF Outlives
  <2>6. LinesOK'
    BY <1>3, <2>1, FewerLines
  <2>7. active' \in 0..Len(incidents')
    BY <1>0, <2>1, <2>5
  <2>8. QED
    BY <1>0, <1>4, <2>1, <2>6, <2>7
<1>12. CASE Tick
  <2>1. /\ log' = log /\ lost' = lost /\ now' = now /\ rolling' = Left /\ run' = run
        /\ up' = up /\ active' \in {0, active} /\ safe' = Synced /\ handles' = handles
        /\ ticked' = TRUE
    BY <1>12 DEF Tick, StillActive
  <2>2. LinesOK'
    BY <1>3, <2>1, FewerLines DEF Left
  <2>3. active' \in 0..Len(incidents')
    BY <1>5, <2>1
  <2>4. QED
    BY <1>0, <1>4, <2>1, <2>2, <2>3
<1>13. CASE Pass
  <2>1. /\ now' = now + 1 /\ now < MaxTime /\ ticked' = FALSE /\ up' = up /\ run' = run
        /\ log' = log /\ rolling' = rolling /\ safe' = safe /\ lost' = lost
        /\ handles' = handles /\ active' = active
    BY <1>13 DEF Pass
  <2>2. LinesOK'
    BY <2>1, FewerLines
  <2>3. now' \in 0..MaxTime
    BY <1>0, <2>1
  <2>4. QED
    BY <1>0, <1>4, <1>5, <2>1, <2>2, <2>3
<1>14. CASE Kill
  <2>1. LinesOK'
    BY <1>3, <1>14, FewerLines DEF Kill
  <2>2. QED
    BY <1>9, <1>14, <2>1 DEF Kill
<1>15. CASE KillInTrigger
  <2>1. LinesOK'
    BY <1>3, <1>15, FewerLines DEF KillInTrigger
  <2>2. QED
    BY <1>9, <1>15, <2>1 DEF KillInTrigger
<1>16. CASE KillInTick
  <2>1. log' = log /\ lost' = lost /\ safe' = Synced /\ rolling' \subseteq rolling
    BY <1>16 DEF KillInTick, Left
  <2>2. LinesOK'
    BY <1>3, <2>1, FewerLines
  <2>3. QED
    BY <1>9, <1>16, <2>2 DEF KillInTick
<1>17. CASE PowerLoss
  <2>1. log' = log /\ safe' = safe /\ rolling' \subseteq rolling
        /\ lost' \subseteq lost \cup rolling
    BY <1>17 DEF PowerLoss
  <2>2. LinesOK'
    BY <2>1, FewerLines
  <2>3. QED
    BY <1>9, <1>17, <2>2 DEF PowerLoss
<1>18. CASE Restart
  <2>1. /\ now' = now /\ log' = log /\ rolling' = rolling /\ safe' = safe /\ lost' = lost
        /\ handles' = handles /\ active' = active /\ ticked' = ticked
        /\ up' = TRUE /\ run' = run + 1
    BY <1>18 DEF Restart
  <2>2. LinesOK'
    BY <2>1, FewerLines
  <2>3. QED
    BY <1>0, <1>4, <1>5, <2>1, <2>2
<1>19. CASE KillInRestart
  <2>1. /\ now' = now /\ log' = log /\ rolling' = rolling /\ safe' = safe /\ lost' = lost
        /\ handles' = handles /\ active' = active /\ ticked' = ticked
        /\ up' = up /\ run' = run + 1
    BY <1>19 DEF KillInRestart
  <2>2. LinesOK'
    BY <2>1, FewerLines
  <2>3. QED
    BY <1>0, <1>4, <1>5, <2>1, <2>2
<1>20. CASE UNCHANGED vars
  BY <1>20 DEF TypeOK, Lines
<1>21. QED
  BY <1>6, <1>8, <1>10, <1>11, <1>12, <1>13, <1>14, <1>15, <1>16, <1>17, <1>18, <1>19, <1>20
     DEF Next

\* The recorder's state stays within its ranges.
THEOREM TypeCorrect == Spec => []TypeOK
  BY InitTypes, StepTypes, PTL DEF Spec

-----------------------------------------------------------------------------
(* The window before an incident.                                            *)

\* Lines are of the past, and what is in no segment any more is past its
\* window.
Aged ==
    \A l \in 1..Len(log) :
        /\ log[l].at <= now
        /\ (log[l].kept /\ l \notin lost /\ l \notin rolling)
              => log[l].at < now - Keep[log[l].kind]

\* An incident begins behind the lines there were.
Marked == \A i \in 1..Len(incidents) : incidents[i].mark <= Len(log)

\* WindowKept of incidents trimmed away, too.
Frozen ==
    \A i \in 1..Len(incidents) : \A l \in 1..incidents[i].mark :
        (/\ incidents[i].sealed /\ ~incidents[i].torn /\ log[l].kept /\ l \notin lost
         /\ log[l].at >= incidents[i].at - Keep[log[l].kind])
            => l \in incidents[i].pre

WindowInv == TypeOK /\ Aged /\ Marked /\ Frozen

\* A line has its kind, and its kind a window.
LEMMA LineTypes ==
    ASSUME TypeOK, NEW l \in 1..Len(log)
    PROVE  /\ log[l].kind \in Kinds /\ log[l].at \in Nat /\ log[l].run \in Nat
           /\ Keep[log[l].kind] \in Nat
<1> DEFINE L == [kind : Kinds, at : Nat, run : Nat, kept : BOOLEAN]
<1>1. log \in Seq(L)
  BY DEF TypeOK
<1>2. log[l] \in L
  <2> HIDE DEF L
  <2>1. QED
    BY <1>1
<1>3. QED
  BY <1>2, StoreAssumption

\* The lengths, and what an incident is.
LEMMA IncidentTypes ==
    ASSUME TypeOK
    PROVE  /\ Len(incidents) \in Nat /\ Len(log) \in Nat /\ now \in Nat /\ run \in Nat
           /\ DOMAIN incidents = 1..Len(incidents)
           /\ \A i \in 1..Len(incidents) :
                /\ incidents[i].at \in Nat /\ incidents[i].until \in Nat
                /\ incidents[i].mark \in Nat /\ incidents[i].run \in Nat
<1>1. incidents \in Seq(Incident) /\ now \in Nat /\ run \in Nat
      /\ log \in Seq([kind : Kinds, at : Nat, run : Nat, kept : BOOLEAN])
  BY DEF TypeOK
<1>2. Len(log) \in Nat
  BY <1>1
<1>3. Len(incidents) \in Nat /\ DOMAIN incidents = 1..Len(incidents)
      /\ \A i \in 1..Len(incidents) : incidents[i] \in Incident
  BY <1>1
<1>4. \A x \in Incident : x.at \in Nat /\ x.until \in Nat /\ x.mark \in Nat /\ x.run \in Nat
  BY DEF Incident
<1>5. QED
  BY <1>1, <1>2, <1>3, <1>4

\* Segments are deleted only behind the window.
LEMMA StepAged == WindowInv /\ [Next]_vars => Aged'
<1> SUFFICES ASSUME TypeOK, Aged, [Next]_vars,
                    NEW l \in 1..Len(log')
             PROVE  /\ log'[l].at <= now'
                    /\ (log'[l].kept /\ l \notin lost' /\ l \notin rolling')
                         => log'[l].at < now' - Keep[log'[l].kind]
  BY DEF WindowInv, Aged
<1>0. now \in Nat /\ Len(log) \in Nat
  BY IncidentTypes
<1>1. CASE Writes
  <2>1. CASE l = Len(log) + 1
    BY <1>0, <1>1, <2>1 DEF Writes
  <2>2. CASE l \in 1..Len(log)
    <3>1. log'[l] = log[l] /\ now' = now /\ lost' = lost /\ rolling \subseteq rolling'
      BY <1>1, <2>2 DEF Writes
    <3>2. QED
      BY <2>2, <3>1 DEF Aged
  <2>3. QED
    BY <1>0, <1>1, <2>1, <2>2 DEF Writes
<1>2. CASE Quiet
  <2>1. /\ log' = log /\ lost \subseteq lost' /\ now' \in Nat /\ now' >= now
        /\ rolling \ rolling' \subseteq lost' \cup {k \in rolling : Expired(k) /\ now' = now}
    BY <1>2 DEF Quiet
  <2>2. log[l].at \in Nat /\ log[l].kind \in Kinds /\ Keep[log[l].kind] \in Nat
    BY <2>1, LineTypes
  <2>3. log[l].at <= now
        /\ ((log[l].kept /\ l \notin lost /\ l \notin rolling)
              => log[l].at < now - Keep[log[l].kind])
    BY <2>1 DEF Aged
  <2>4. ASSUME log[l].kept, l \notin lost', l \notin rolling'
        PROVE  log[l].at < now' - Keep[log[l].kind]
    <3>1. CASE l \notin rolling
      BY <1>0, <2>1, <2>2, <2>3, <2>4, <3>1
    <3>2. CASE l \in rolling
      <4>1. Expired(l) /\ now' = now
        BY <2>1, <2>4, <3>2
      <4>2. QED
        BY <1>0, <2>2, <4>1, ExpiredIsOld
    <3>3. QED
      BY <3>1, <3>2
  <2>5. QED
    BY <1>0, <2>1, <2>2, <2>3, <2>4
<1>3. QED
  BY <1>1, <1>2, WritesOrQuiet

\* The log only grows.
LEMMA StepMarked == WindowInv /\ [Next]_vars => Marked'
<1> SUFFICES ASSUME TypeOK, Marked, [Next]_vars, NEW i \in 1..Len(incidents')
             PROVE  incidents'[i].mark <= Len(log')
  BY DEF WindowInv, Marked
<1>0. Len(incidents) \in Nat /\ Len(log) \in Nat
      /\ \A j \in 1..Len(incidents) : incidents[j].mark \in Nat
  BY IncidentTypes
<1>1. CASE Writes
  <2>1. Len(log') = Len(log) + 1 /\ i \in 1..Len(incidents)
        /\ incidents'[i].mark = incidents[i].mark
    BY <1>1 DEF Writes, SameIncident
  <2>2. QED
    BY <1>0, <2>1 DEF Marked
<1>2. CASE Quiet
  <2>1. CASE i \in 1..Len(incidents)
    BY <1>2, <2>1 DEF Quiet, SameIncident, Marked
  <2>2. CASE i = Len(incidents) + 1 /\ Len(incidents') = Len(incidents) + 1
    BY <1>0, <1>2, <2>2 DEF Quiet, MadeNow
  <2>3. QED
    BY <1>0, <1>2, <2>1, <2>2 DEF Quiet
<1>3. QED
  BY <1>1, <1>2, WritesOrQuiet

\* What was copied stays copied.
LEMMA StepFrozen == WindowInv /\ [Next]_vars => Frozen'
<1> SUFFICES ASSUME TypeOK, Aged, Marked, Frozen, [Next]_vars,
                    NEW i \in 1..Len(incidents'), NEW l \in 1..incidents'[i].mark,
                    incidents'[i].sealed, ~incidents'[i].torn, log'[l].kept, l \notin lost',
                    log'[l].at >= incidents'[i].at - Keep[log'[l].kind]
             PROVE  l \in incidents'[i].pre
  BY DEF WindowInv, Frozen
<1>0. /\ Len(incidents) \in Nat /\ Len(log) \in Nat /\ now \in Nat
      /\ \A j \in 1..Len(incidents) : incidents[j].mark \in Nat
  BY IncidentTypes
<1>1. CASE Writes
  <2>1. /\ i \in 1..Len(incidents)
        /\ incidents'[i].at = incidents[i].at /\ incidents'[i].mark = incidents[i].mark
        /\ incidents'[i].pre = incidents[i].pre /\ incidents'[i].torn = incidents[i].torn
        /\ incidents'[i].sealed = incidents[i].sealed
    BY <1>1 DEF Writes, SameIncident
  <2>2. l \in 1..Len(log) /\ l \in 1..incidents[i].mark
    BY <1>0, <2>1 DEF Marked
  <2>3. log'[l] = log[l] /\ lost' = lost
    BY <1>1, <2>2 DEF Writes
  <2>4. QED
    BY <2>1, <2>2, <2>3 DEF Frozen
<1>2. CASE Quiet
  <2>0. log' = log /\ lost \subseteq lost'
    BY <1>2 DEF Quiet
  <2>1. CASE i \in 1..Len(incidents)
    <3>1. SameIncident(incidents'[i], incidents[i]) /\ KeepsCopies(incidents'[i], incidents[i])
      BY <1>2, <2>1 DEF Quiet
    <3>2. /\ incidents'[i].at = incidents[i].at /\ incidents'[i].mark = incidents[i].mark
          /\ incidents'[i].pre = incidents[i].pre /\ ~incidents[i].torn
          /\ incidents[i].sealed
      BY <3>1 DEF SameIncident, KeepsCopies
    <3>3. l \in 1..incidents[i].mark
      BY <3>2
    <3>4. QED
      BY <2>0, <2>1, <3>2, <3>3 DEF Frozen
  <2>2. CASE i = Len(incidents) + 1 /\ Len(incidents') = Len(incidents) + 1
    <3>1. MadeNow(incidents'[i], i)
      BY <1>2, <2>2 DEF Quiet
    <3>2. /\ incidents'[i].at = now /\ incidents'[i].mark = Len(log)
          /\ incidents'[i].pre = rolling
      BY <3>1 DEF MadeNow
    <3>3. l \in 1..Len(log)
      BY <3>2
    <3>4. log[l].at \in Nat /\ Keep[log[l].kind] \in Nat
      BY <3>3, LineTypes
    <3>5. (l \notin lost /\ l \notin rolling) => log[l].at < now - Keep[log[l].kind]
      BY <2>0, <3>3 DEF Aged
    <3>6. QED
      BY <1>0, <2>0, <3>2, <3>4, <3>5
  <2>3. QED
    BY <1>0, <1>2, <2>1, <2>2 DEF Quiet
<1>3. QED
  BY <1>1, <1>2, WritesOrQuiet

\* The invariant behind WindowKept holds throughout.
LEMMA WindowInvariant == Spec => []WindowInv
<1>1. Init => WindowInv
  <2> SUFFICES ASSUME Init PROVE WindowInv
    OBVIOUS
  <2>1. log = <<>> /\ incidents = <<>> /\ TypeOK
    BY InitTypes DEF Init
  <2>2. QED
    BY <2>1 DEF WindowInv, Aged, Marked, Frozen
<1>2. WindowInv /\ [Next]_vars => WindowInv'
  <2>1. WindowInv /\ [Next]_vars => TypeOK'
    BY StepTypes DEF WindowInv
  <2>2. QED
    BY <2>1, StepAged, StepMarked, StepFrozen DEF WindowInv
<1>3. QED
  BY <1>1, <1>2, PTL DEF Spec

\* A sealed incident holds the window before it, whatever deletion, rotation,
\* trims, kills and restarts came between (recorder.py:60-61, 105-107).
THEOREM WindowIsKept == Spec => []WindowKept
<1>1. WindowInv => WindowKept
  <2> SUFFICES ASSUME TypeOK, Frozen PROVE WindowKept
    BY DEF WindowInv
  <2>1. DOMAIN incidents = 1..Len(incidents)
    BY DEF TypeOK
  <2>2. QED
    BY <2>1 DEF Frozen, WindowKept
<1>2. QED
  BY <1>1, WindowInvariant, PTL

-----------------------------------------------------------------------------
(* The window behind an incident.                                            *)

\* Incidents and lines are of runs so far.
Runs ==
    /\ \A i \in 1..Len(incidents) : incidents[i].run <= run
    /\ \A l \in 1..Len(log) : log[l].run <= run

\* Of the incidents a trigger of this run made, at most the active one is
\* still within its window: the others were replaced behind it.
OpenIsActive ==
    \A i \in 1..Len(incidents) :
        (/\ up /\ incidents[i].sealed /\ ~incidents[i].restart
         /\ incidents[i].run = run /\ now <= incidents[i].until)
            => i = active

Ended == \A i \in 1..Len(incidents) : incidents[i].complete => now > incidents[i].until

\* after.jsonl holds lines of the window.
Received ==
    \A i \in 1..Len(incidents) : \A l \in incidents[i].after :
        /\ l \in 1..Len(log) /\ l > incidents[i].mark
        /\ log[l].at <= incidents[i].until

\* It misses none but a line a run ended with, of incidents trimmed away too.
Whole ==
    \A i \in 1..Len(incidents) :
        (incidents[i].sealed /\ ~incidents[i].restart /\ ~incidents[i].torn) =>
            \A l \in (incidents[i].mark + 1)..Len(log) :
                (log[l].run = incidents[i].run /\ log[l].at <= incidents[i].until)
                    => \/ l \in incidents[i].after
                       \/ Cardinality(incidents[i].after) >= AfterCap
                       \/ LastOfItsRun(l)

AfterInv == WindowInv /\ Runs /\ OpenIsActive /\ Ended /\ Received /\ Whole

\* A new run is later than every incident there is.
LEMMA StepRuns == AfterInv /\ [Next]_vars => Runs'
<1> SUFFICES ASSUME TypeOK, Runs, [Next]_vars PROVE Runs'
  BY DEF AfterInv, WindowInv
<1>0. /\ Len(incidents) \in Nat /\ Len(log) \in Nat /\ run \in Nat
      /\ \A j \in 1..Len(incidents) : incidents[j].run \in Nat
      /\ \A l \in 1..Len(log) : log[l].run \in Nat
  BY IncidentTypes, LineTypes
<1>1. CASE Writes
  <2>1. /\ Len(log') = Len(log) + 1 /\ run' = run
        /\ \A l \in 1..Len(log) : log'[l] = log[l]
        /\ log'[Len(log) + 1].run = run
        /\ Len(incidents') = Len(incidents)
        /\ \A i \in 1..Len(incidents) : incidents'[i].run = incidents[i].run
    BY <1>1 DEF Writes, SameIncident
  <2>2. \A l \in 1..Len(log') : log'[l].run <= run'
    BY <1>0, <2>1 DEF Runs
  <2>3. \A i \in 1..Len(incidents') : incidents'[i].run <= run'
    BY <1>0, <2>1 DEF Runs
  <2>4. QED
    BY <2>2, <2>3 DEF Runs
<1>2. CASE Quiet
  <2>0. log' = log /\ run' \in {run, run + 1}
    BY <1>2 DEF Quiet
  <2>1. ASSUME NEW i \in 1..Len(incidents') PROVE incidents'[i].run <= run'
    <3>1. CASE i \in 1..Len(incidents)
      <4>1. incidents'[i].run = incidents[i].run
        BY <1>2, <3>1 DEF Quiet, SameIncident
      <4>2. incidents[i].run <= run
        BY <3>1 DEF Runs
      <4>3. QED
        BY <1>0, <2>0, <3>1, <4>1, <4>2
    <3>2. CASE i = Len(incidents) + 1 /\ Len(incidents') = Len(incidents) + 1
      <4>1. incidents'[i].run = run'
        BY <1>2, <3>2 DEF Quiet, MadeNow
      <4>2. QED
        BY <1>0, <2>0, <4>1
    <3>3. QED
      BY <1>0, <1>2, <3>1, <3>2 DEF Quiet
  <2>2. \A l \in 1..Len(log') : log'[l].run <= run'
    BY <1>0, <2>0 DEF Runs
  <2>3. QED
    BY <2>1, <2>2 DEF Runs
<1>3. QED
  BY <1>1, <1>2, WritesOrQuiet

\* An incident gives its place up only behind its window.
LEMMA StepOpen == AfterInv /\ [Next]_vars => OpenIsActive'
<1> SUFFICES ASSUME TypeOK, Runs, OpenIsActive, [Next]_vars,
                    NEW i \in 1..Len(incidents'),
                    up', incidents'[i].sealed, ~incidents'[i].restart,
                    incidents'[i].run = run', now' <= incidents'[i].until
             PROVE  i = active'
  BY DEF AfterInv, WindowInv, OpenIsActive
<1>0. Len(incidents) \in Nat /\ run \in Nat /\ now \in Nat
      /\ \A j \in 1..Len(incidents) : incidents[j].run \in Nat /\ incidents[j].until \in Nat
  BY IncidentTypes
<1>1. CASE Writes
  <2>1. /\ i \in 1..Len(incidents)
        /\ incidents'[i].sealed = incidents[i].sealed
        /\ incidents'[i].restart = incidents[i].restart
        /\ incidents'[i].run = incidents[i].run /\ incidents'[i].until = incidents[i].until
    BY <1>1 DEF Writes, SameIncident
  <2>2. up /\ run' = run /\ now' = now /\ active' = active
    BY <1>1 DEF Writes
  <2>3. QED
    BY <2>1, <2>2 DEF OpenIsActive
<1>2. CASE Quiet
  <2>1. CASE i \in 1..Len(incidents)
    <3>1. SameIncident(incidents'[i], incidents[i]) /\ run' \in {run, run + 1}
          /\ now' \in Nat /\ now' >= now
          /\ (run' = run => up /\ (active' # active => ~InWindow))
      BY <1>2, <2>1 DEF Quiet
    <3>2. /\ incidents[i].sealed /\ ~incidents[i].restart
          /\ incidents[i].run = run' /\ now' <= incidents[i].until
      BY <3>1 DEF SameIncident
    <3>3. run' = run
      BY <1>0, <2>1, <3>1, <3>2 DEF Runs
    <3>4. now <= incidents[i].until
      BY <1>0, <2>1, <3>1, <3>2
    <3>5. i = active
      BY <2>1, <3>1, <3>2, <3>3, <3>4 DEF OpenIsActive
    <3>6. InWindow
      BY <1>0, <2>1, <3>4, <3>5 DEF InWindow
    <3>7. QED
      BY <3>1, <3>3, <3>5, <3>6
  <2>2. CASE i = Len(incidents) + 1 /\ Len(incidents') = Len(incidents) + 1
    BY <1>2, <2>2 DEF Quiet, MadeNow
  <2>3. QED
    BY <1>0, <1>2, <2>1, <2>2 DEF Quiet
<1>3. QED
  BY <1>1, <1>2, WritesOrQuiet

\* An incident is marked complete behind its window.
LEMMA StepEnded == AfterInv /\ [Next]_vars => Ended'
<1> SUFFICES ASSUME TypeOK, Ended, [Next]_vars,
                    NEW i \in 1..Len(incidents'), incidents'[i].complete
             PROVE  now' > incidents'[i].until
  BY DEF AfterInv, WindowInv, Ended
<1>0. Len(incidents) \in Nat /\ now \in Nat
      /\ \A j \in 1..Len(incidents) : incidents[j].until \in Nat
  BY IncidentTypes
<1>1. CASE Writes
  BY <1>1 DEF Writes, SameIncident, Ended
<1>2. CASE Quiet
  <2>1. CASE i \in 1..Len(incidents)
    <3>1. /\ incidents'[i].until = incidents[i].until /\ now' \in Nat /\ now' >= now
          /\ incidents[i].complete \/ now > incidents[i].until
      BY <1>2, <2>1 DEF Quiet, SameIncident
    <3>2. now > incidents[i].until
      BY <2>1, <3>1 DEF Ended
    <3>3. QED
      BY <1>0, <2>1, <3>1, <3>2
  <2>2. CASE i = Len(incidents) + 1 /\ Len(incidents') = Len(incidents) + 1
    BY <1>2, <2>2 DEF Quiet, MadeNow
  <2>3. QED
    BY <1>0, <1>2, <2>1, <2>2 DEF Quiet
<1>3. QED
  BY <1>1, <1>2, WritesOrQuiet

\* Who takes a line is within its window.
LEMMA TakesInWindow ==
    ASSUME NEW i, Takes(i)
    PROVE  i = active /\ now <= incidents[i].until /\ Cardinality(incidents[i].after) < AfterCap
  BY DEF Takes, Receives, InWindow

\* A line an incident receives is of its window.
LEMMA StepReceived == AfterInv /\ [Next]_vars => Received'
<1> SUFFICES ASSUME TypeOK, Marked, Received, [Next]_vars,
                    NEW i \in 1..Len(incidents'), NEW l \in incidents'[i].after
             PROVE  /\ l \in 1..Len(log') /\ l > incidents'[i].mark
                    /\ log'[l].at <= incidents'[i].until
  BY DEF AfterInv, WindowInv, Received
<1>0. Len(incidents) \in Nat /\ now \in Nat /\ Len(log) \in Nat
      /\ \A j \in 1..Len(incidents) : incidents[j].mark \in Nat
  BY IncidentTypes
<1>1. CASE Writes
  <2>1. /\ i \in 1..Len(incidents)
        /\ incidents'[i].mark = incidents[i].mark /\ incidents'[i].until = incidents[i].until
        /\ Takes(i) => incidents'[i].after = incidents[i].after \cup {Len(log) + 1}
        /\ ~Takes(i) => incidents'[i].after = incidents[i].after
    BY <1>1 DEF Writes, SameIncident
  <2>2. Len(log') = Len(log) + 1 /\ log'[Len(log) + 1].at = now
        /\ \A k \in 1..Len(log) : log'[k] = log[k]
    BY <1>1 DEF Writes
  <2>3. CASE l \in incidents[i].after
    <3>1. l \in 1..Len(log) /\ l > incidents[i].mark /\ log[l].at <= incidents[i].until
      BY <2>1, <2>3 DEF Received
    <3>2. QED
      BY <1>0, <2>1, <2>2, <3>1
  <2>4. CASE l = Len(log) + 1 /\ Takes(i)
    <3>1. now <= incidents[i].until /\ incidents[i].mark <= Len(log)
      BY <2>1, <2>4, TakesInWindow DEF Marked
    <3>2. QED
      BY <1>0, <2>1, <2>2, <2>4, <3>1
  <2>5. QED
    BY <2>1, <2>3, <2>4
<1>2. CASE Quiet
  <2>1. CASE i \in 1..Len(incidents)
    <3>1. /\ log' = log /\ SameIncident(incidents'[i], incidents[i])
          /\ KeepsCopies(incidents'[i], incidents[i])
      BY <1>2, <2>1 DEF Quiet
    <3>2. l \in incidents[i].after
      BY <3>1 DEF KeepsCopies
    <3>3. QED
      BY <2>1, <3>1, <3>2 DEF SameIncident, Received
  <2>2. CASE i = Len(incidents) + 1 /\ Len(incidents') = Len(incidents) + 1
    BY <1>2, <2>2 DEF Quiet, MadeNow
  <2>3. QED
    BY <1>0, <1>2, <2>1, <2>2 DEF Quiet
<1>3. QED
  BY <1>1, <1>2, WritesOrQuiet

\* The last line of an ended run stays that.
LEMMA LastStaysLast ==
    ASSUME TypeOK, Runs, [Next]_vars, NEW l \in 1..Len(log), LastOfItsRun(l)
    PROVE  LastOfItsRun(l)'
<1>0. /\ Len(log) \in Nat /\ run \in Nat /\ DOMAIN log = 1..Len(log)
      /\ \A k \in 1..Len(log) : log[k].run \in Nat /\ log[k].run <= run
  BY IncidentTypes, LineTypes DEF TypeOK, Runs
<1>1. /\ ~(up /\ log[l].run = run)
      /\ \A k \in 1..Len(log) : k > l => log[k].run # log[l].run
  BY <1>0 DEF LastOfItsRun, Lines
<1>2. CASE Writes
  <2>1. /\ Len(log') = Len(log) + 1 /\ run' = run /\ up
        /\ \A k \in 1..Len(log) : log'[k] = log[k]
        /\ log'[Len(log) + 1].run = run
    BY <1>2 DEF Writes
  <2>2. DOMAIN log' = 1..(Len(log) + 1)
    BY <2>1, StepTypes DEF TypeOK
  <2>3. log[l].run # run /\ log'[l] = log[l]
    BY <1>1, <2>1
  <2>4. \A k \in 1..(Len(log) + 1) : k > l => log'[k].run # log'[l].run
    BY <1>0, <1>1, <2>1, <2>3
  <2>5. QED
    BY <2>1, <2>2, <2>3, <2>4 DEF LastOfItsRun, Lines
<1>3. CASE Quiet
  <2>1. /\ log' = log /\ run' \in {run, run + 1}
        /\ (up' /\ run' = run => up)
    BY <1>3 DEF Quiet
  <2>2. ~(up' /\ log[l].run = run')
    BY <1>0, <1>1, <2>1
  <2>3. QED
    BY <1>0, <1>1, <2>1, <2>2 DEF LastOfItsRun, Lines
<1>4. QED
  BY <1>2, <1>3, WritesOrQuiet

\* A line of the window is received while there is room, unless the daemon
\* dies with it.
LEMMA StepWhole == AfterInv /\ [Next]_vars => Whole'
<1> SUFFICES ASSUME TypeOK, Marked, Runs, Received, OpenIsActive, Whole, [Next]_vars,
                    NEW i \in 1..Len(incidents'),
                    incidents'[i].sealed, ~incidents'[i].restart, ~incidents'[i].torn,
                    NEW l \in (incidents'[i].mark + 1)..Len(log'),
                    log'[l].run = incidents'[i].run, log'[l].at <= incidents'[i].until
             PROVE  \/ l \in incidents'[i].after
                    \/ Cardinality(incidents'[i].after) >= AfterCap
                    \/ LastOfItsRun(l)'
  BY DEF AfterInv, WindowInv, Whole
<1>0. /\ Len(incidents) \in Nat /\ now \in Nat /\ Len(log) \in Nat
      /\ \A j \in 1..Len(incidents) : incidents[j].mark \in Nat
  BY IncidentTypes
<1>1. CASE Writes
  <2>1. /\ i \in 1..Len(incidents)
        /\ incidents'[i].mark = incidents[i].mark /\ incidents'[i].until = incidents[i].until
        /\ incidents'[i].run = incidents[i].run /\ incidents'[i].sealed = incidents[i].sealed
        /\ incidents'[i].restart = incidents[i].restart
        /\ incidents'[i].torn = incidents[i].torn
        /\ Takes(i) => incidents'[i].after = incidents[i].after \cup {Len(log) + 1}
        /\ ~Takes(i) => incidents'[i].after = incidents[i].after
    BY <1>1 DEF Writes, SameIncident
  <2>2. /\ Len(log') = Len(log) + 1 /\ log'[Len(log) + 1].at = now
        /\ log'[Len(log) + 1].run = run /\ up
        /\ \A k \in 1..Len(log) : log'[k] = log[k]
    BY <1>1 DEF Writes
  <2>3. Cardinality(incidents[i].after) \in Nat /\ AfterCap \in Nat
    <3>1. incidents[i].after \in SUBSET (1..Len(log))
      BY <2>1 DEF Received
    <3>2. IsFiniteSet(incidents[i].after)
      <4>1. Len(log) \in Int /\ 1 \in Int
        BY <1>0
      <4>2. IsFiniteSet(1..Len(log))
        BY <4>1, FS_Interval
      <4>3. QED
        BY <3>1, <4>2, FS_Subset
    <3>3. QED
      BY <3>2, FS_CardinalityType, StoreAssumption
  <2>4. CASE l \in 1..Len(log)
    <3>1. \/ l \in incidents[i].after
          \/ Cardinality(incidents[i].after) >= AfterCap
          \/ LastOfItsRun(l)
      <4>1. l \in (incidents[i].mark + 1)..Len(log)
        BY <1>0, <2>1, <2>4
      <4>2. log[l].run = incidents[i].run /\ log[l].at <= incidents[i].until
        BY <2>1, <2>2, <2>4
      <4>3. incidents[i].sealed /\ ~incidents[i].restart /\ ~incidents[i].torn
        BY <2>1
      <4>4. QED
        BY <2>1, <4>1, <4>2, <4>3 DEF Whole
    <3>2. CASE LastOfItsRun(l)
      BY <2>4, <3>2, LastStaysLast
    <3>3. CASE l \in incidents[i].after \/ Cardinality(incidents[i].after) >= AfterCap
      BY <2>1, <2>3, <3>3, TakesInWindow
    <3>4. QED
      BY <3>1, <3>2, <3>3
  <2>5. CASE l = Len(log) + 1 /\ up'
    <3>1. i = active
      BY <2>1, <2>2, <2>5 DEF OpenIsActive
    <3>2. InWindow
      BY <1>0, <2>1, <2>2, <2>5, <3>1 DEF InWindow
    <3>3. CASE Takes(i)
      BY <2>1, <2>5, <3>3
    <3>4. CASE ~Takes(i)
      <4>1. ~(Cardinality(incidents[i].after) < AfterCap)
        BY <2>5, <3>1, <3>2, <3>4 DEF Takes, Receives
      <4>2. QED
        BY <2>1, <2>3, <3>4, <4>1
    <3>5. QED
      BY <3>3, <3>4
  <2>6. CASE l = Len(log) + 1 /\ ~up'
    <3>1. DOMAIN log' = 1..(Len(log) + 1)
      BY <2>2, StepTypes DEF TypeOK
    <3>2. \A k \in 1..(Len(log) + 1) : ~(k > l)
      BY <1>0, <2>6
    <3>3. QED
      BY <2>6, <3>1, <3>2 DEF LastOfItsRun, Lines
  <2>7. QED
    BY <1>0, <2>1, <2>2, <2>4, <2>5, <2>6
<1>2. CASE Quiet
  <2>1. CASE i \in 1..Len(incidents)
    <3>1. /\ log' = log /\ SameIncident(incidents'[i], incidents[i])
          /\ KeepsCopies(incidents'[i], incidents[i])
      BY <1>2, <2>1 DEF Quiet
    <3>2. incidents'[i].after = incidents[i].after /\ ~incidents[i].torn
      BY <3>1 DEF KeepsCopies
    <3>3. /\ incidents'[i].mark = incidents[i].mark /\ incidents'[i].until = incidents[i].until
          /\ incidents'[i].run = incidents[i].run /\ incidents[i].sealed
          /\ ~incidents[i].restart
      BY <3>1 DEF SameIncident
    <3>4. \/ l \in incidents[i].after
          \/ Cardinality(incidents[i].after) >= AfterCap
          \/ LastOfItsRun(l)
      BY <2>1, <3>1, <3>2, <3>3 DEF Whole
    <3>5. l \in 1..Len(log)
      BY <1>0, <2>1, <3>1, <3>3
    <3>6. CASE LastOfItsRun(l)
      BY <3>5, <3>6, LastStaysLast
    <3>7. QED
      BY <3>2, <3>4, <3>6
  <2>2. CASE i = Len(incidents) + 1 /\ Len(incidents') = Len(incidents) + 1
    <3>1. incidents'[i].mark = Len(log) /\ log' = log
      BY <1>2, <2>2 DEF Quiet, MadeNow
    <3>2. QED
      BY <1>0, <3>1
  <2>3. QED
    BY <1>0, <1>2, <2>1, <2>2 DEF Quiet
<1>3. QED
  BY <1>1, <1>2, WritesOrQuiet

\* The invariant behind AfterExact holds throughout.
LEMMA AfterInvariant == Spec => []AfterInv
<1>1. Init => AfterInv
  <2> SUFFICES ASSUME Init PROVE AfterInv
    OBVIOUS
  <2>1. log = <<>> /\ incidents = <<>> /\ TypeOK
    BY InitTypes DEF Init
  <2>2. WindowInv
    BY <2>1 DEF WindowInv, Aged, Marked, Frozen
  <2>3. QED
    BY <2>1, <2>2 DEF AfterInv, Runs, OpenIsActive, Ended, Received, Whole
<1>2. AfterInv /\ [Next]_vars => AfterInv'
  <2>1. AfterInv /\ [Next]_vars => WindowInv'
    BY StepTypes, StepAged, StepMarked, StepFrozen DEF AfterInv, WindowInv
  <2>2. QED
    BY <2>1, StepRuns, StepOpen, StepEnded, StepReceived, StepWhole DEF AfterInv
<1>3. QED
  BY <1>1, <1>2, PTL DEF Spec

\* after.jsonl is the post-window and nothing else, lacks at most the line a
\* run died with, and complete is said behind it only (recorder.py:72-76,
\* 84, 108).
THEOREM AfterIsExact == Spec => []AfterExact
<1>1. AfterInv => AfterExact
  <2> SUFFICES ASSUME TypeOK, Ended, Received, Whole PROVE AfterExact
    BY DEF AfterInv, WindowInv
  <2>1. DOMAIN incidents = 1..Len(incidents)
    BY IncidentTypes
  <2>2. QED
    BY <2>1 DEF AfterExact, Ended, Received, Whole
<1>2. QED
  BY <1>1, AfterInvariant, PTL

-----------------------------------------------------------------------------
(* What trims remove.                                                        *)

\* Every removed incident leaves a lesser name on disk, and what outlives one
\* made after it sorts behind that one or before all made till then.
ByName(I) ==
    /\ \A r \in 1..Len(I) : ~I[r].present =>
         \E p \in OnDisk(I) : Before(I, p, r)
    /\ \A r, p \in 1..Len(I) :
         (~I[r].present /\ I[p].present /\ p < r) =>
            \/ Before(I, r, p)
            \/ \A q \in 1..r : ~Before(I, q, p)

\* Only the daemon has an open incident: the youngest, which is on disk.
ActiveLast == active # 0 => up /\ active = Len(incidents) /\ incidents[active].present

RetentionInv == TypeOK /\ ByName(incidents) /\ ActiveLast

\* If any incident is on disk, one of them has the least name.
LEMMA LeastOnDisk ==
    ASSUME NEW I \in Seq(Incident), NEW d \in OnDisk(I)
    PROVE  \E e \in OnDisk(I) : \A c \in OnDisk(I) : I[e].name <= I[c].name
<1> DEFINE T == {I[c].name : c \in OnDisk(I)}
           R == OpToRel(<, Nat)
<1>1. \A c \in OnDisk(I) : I[c].name \in Nat
  <2>1. \A c \in OnDisk(I) : I[c] \in Incident
    BY DEF OnDisk
  <2>2. \A x \in Incident : x.name \in Nat
    BY DEF Incident
  <2>3. QED
    BY <2>1, <2>2
<1>2. T \subseteq Nat /\ T # {}
  BY <1>1
<1>3. IsWellFoundedOn(R, Nat)
  BY NatLessThanWellFounded
<1>4. PICK x \in T : \A y \in T : ~ (<<y, x>> \in R)
  <2> HIDE DEF T, R
  <2>1. QED
    BY <1>2, <1>3, WFMin
<1>5. \A y \in T : ~(y < x)
  BY <1>2, <1>4 DEF OpToRel
<1>6. PICK e \in OnDisk(I) : x = I[e].name
  BY <1>4
<1>7. ASSUME NEW c \in OnDisk(I) PROVE I[e].name <= I[c].name
  <2>1. I[c].name \in T
    OBVIOUS
  <2>2. /\ I[c].name \in Nat
        /\ I[e].name \in Nat
    BY <1>1
  <2>3. ~(I[c].name < I[e].name)
    <3> HIDE DEF T, R
    <3>1. ~(I[c].name < x)
      BY <1>5, <2>1
    <3>2. QED
      BY <1>6, <3>1
  <2> HIDE DEF T, R
  <2>4. QED
    BY <2>2, <2>3
<1>8. QED
  BY <1>7

\* A trim, run to its end or cut short, keeps the order and the incident it is
\* told to spare.
LEMMA TrimByName ==
    ASSUME NEW I \in Seq(Incident), NEW a, NEW J, Trimmed(J, I, a), ByName(I),
           a = 0 \/ (a = Len(I) /\ a \in 1..Len(I) /\ I[a].present)
    PROVE  /\ ByName(J)
           /\ a # 0 => J[a].present
<1>0. PICK k \in Nat : \A i \in 1..Len(I) : J[i].present <=> i \in Without(I, a, k)
  BY DEF Trimmed
<1> DEFINE left == Without(I, a, k)
<1>1. /\ Len(J) = Len(I) /\ Len(I) \in Nat /\ J \in Seq(Incident)
      /\ \A i \in 1..Len(I) : J[i].name = I[i].name
  BY DEF Trimmed, Outlives, SameIncident
<1>2. \A i \in 1..Len(I) : J[i].present <=> i \in left
  BY <1>0
<1>3. OnDisk(I) = {i \in 1..Len(I) : I[i].present}
  BY DEF OnDisk
<1>4. left \subseteq OnDisk(I)
  BY DEF Without
<1>5. \A r \in OnDisk(I) : r \notin left =>
        /\ r # a
        /\ \E e \in OnDisk(I) : Before(I, e, r)
        /\ \A p \in left : p = a \/ (\A e \in OnDisk(I) : ~Before(I, e, p)) \/ Before(I, r, p)
  BY LeastGoFirst
<1>6. OnDisk(J) = left
  <2>1. OnDisk(J) = {i \in 1..Len(I) : J[i].present}
    BY <1>1 DEF OnDisk
  <2>2. QED
    BY <1>2, <1>3, <1>4, <2>1
<1>7. \A i \in 1..Len(I) : I[i].name \in Nat
  <2>1. \A i \in 1..Len(I) : I[i] \in Incident
    OBVIOUS
  <2>2. \A x \in Incident : x.name \in Nat
    BY DEF Incident
  <2>3. QED
    BY <2>1, <2>2
<1> HIDE DEF left
<1>8. ASSUME NEW r \in 1..Len(J), ~J[r].present
      PROVE  \E p \in OnDisk(J) : Before(J, p, r)
  <2>1. PICK d \in OnDisk(I) : Before(I, d, r)
    <3>1. CASE I[r].present
      BY <1>1, <1>2, <1>3, <1>5, <1>8, <3>1
    <3>2. CASE ~I[r].present
      BY <1>1, <1>8, <3>2 DEF ByName
    <3>3. QED
      BY <3>1, <3>2
  <2>2. PICK e \in OnDisk(I) : \A c \in OnDisk(I) : I[e].name <= I[c].name
    BY <2>1, LeastOnDisk
  <2>3. e \in left
    <3>1. \A c \in OnDisk(I) : ~Before(I, c, e)
      BY <1>3, <1>7, <2>2 DEF Before
    <3>2. QED
      BY <1>5, <3>1
  <2>4. e \in 1..Len(I) /\ r \in 1..Len(I) /\ d \in 1..Len(I)
    BY <1>1, <1>3
  <2>5. Before(J, e, r)
    BY <1>1, <1>7, <2>1, <2>2, <2>4 DEF Before
  <2>6. QED
    BY <1>6, <2>3, <2>5
<1>9. ASSUME NEW r \in 1..Len(J), NEW p \in 1..Len(J),
             ~J[r].present, J[p].present, p < r
      PROVE  \/ Before(J, r, p)
             \/ \A q \in 1..r : ~Before(J, q, p)
  <2>1. r \in 1..Len(I) /\ p \in 1..Len(I) /\ r \notin left /\ p \in left
    BY <1>1, <1>2, <1>9
  <2>2. I[p].present
    BY <1>3, <1>4, <2>1
  <2>3. \/ Before(I, r, p)
        \/ \A q \in 1..r : ~Before(I, q, p)
    <3>1. CASE ~I[r].present
      BY <1>9, <2>1, <2>2, <3>1 DEF ByName
    <3>2. CASE I[r].present
      <4>1. r \in OnDisk(I)
        BY <1>3, <2>1, <3>2
      <4>2. r # a /\ (p = a \/ (\A e \in OnDisk(I) : ~Before(I, e, p)) \/ Before(I, r, p))
        BY <1>5, <2>1, <4>1
      <4>3. p # a
        BY <1>1, <1>9, <2>1
      <4>4. CASE \A e \in OnDisk(I) : ~Before(I, e, p)
        <5>1. ASSUME NEW q \in 1..r PROVE ~Before(I, q, p)
          <6>1. q \in 1..Len(I)
            BY <1>1, <2>1
          <6>2. CASE I[q].present
            BY <1>3, <4>4, <6>1, <6>2
          <6>3. CASE ~I[q].present
            <7>1. PICK e \in OnDisk(I) : Before(I, e, q)
              BY <6>1, <6>3 DEF ByName
            <7>2. ~Before(I, e, p) /\ e \in 1..Len(I)
              BY <1>3, <4>4
            <7>3. QED
              BY <1>7, <2>1, <6>1, <7>1, <7>2 DEF Before
          <6>4. QED
            BY <6>2, <6>3
        <5>2. QED
          BY <5>1
      <4>5. QED
        BY <4>2, <4>3, <4>4
    <3>3. QED
      BY <3>1, <3>2
  <2>4. \A q \in 1..r : q \in 1..Len(I)
    BY <1>1, <2>1
  <2>5. QED
    BY <1>1, <2>1, <2>3, <2>4 DEF Before
<1>10. ASSUME a # 0 PROVE J[a].present
  <2>1. a \in OnDisk(I) /\ a \in 1..Len(I)
    BY <1>3, <1>10
  <2>2. QED
    BY <1>2, <1>5, <2>1
<1>11. QED
  BY <1>8, <1>9, <1>10 DEF ByName

\* An incident made is the youngest, whatever its name.
LEMMA AppendByName ==
    ASSUME TypeOK, ByName(incidents), NEW f \in Incident, f.present
    PROVE  /\ Append(incidents, f) \in Seq(Incident)
           /\ Len(Append(incidents, f)) = Len(incidents) + 1
           /\ ByName(Append(incidents, f))
           /\ Append(incidents, f)[Len(incidents) + 1].present
<1> DEFINE I == Append(incidents, f)
<1>1. /\ I \in Seq(Incident) /\ Len(I) = Len(incidents) + 1
      /\ \A i \in 1..Len(incidents) : I[i] = incidents[i]
      /\ I[Len(incidents) + 1] = f
  BY MadeIncident
<1>2. Len(incidents) \in Nat /\ DOMAIN incidents = 1..Len(incidents)
  BY IncidentTypes
<1> HIDE DEF I
<1>3. DOMAIN I = 1..(Len(incidents) + 1)
  BY <1>1
<1>4. \A r \in 1..Len(I) : ~I[r].present => r \in 1..Len(incidents)
  BY <1>1, <1>2
<1>5. ASSUME NEW r \in 1..Len(I), ~I[r].present
      PROVE  \E p \in OnDisk(I) : Before(I, p, r)
  <2>1. r \in 1..Len(incidents) /\ ~incidents[r].present
    BY <1>1, <1>4, <1>5
  <2>2. PICK p \in OnDisk(incidents) : Before(incidents, p, r)
    BY <2>1 DEF ByName
  <2>3. p \in 1..Len(incidents) /\ incidents[p].present
    BY <1>2 DEF OnDisk
  <2>4. p \in OnDisk(I) /\ Before(I, p, r)
    BY <1>1, <1>2, <1>3, <2>1, <2>2, <2>3 DEF OnDisk, Before
  <2>5. QED
    BY <2>4
<1>6. ASSUME NEW r \in 1..Len(I), NEW p \in 1..Len(I), ~I[r].present, I[p].present, p < r
      PROVE  \/ Before(I, r, p)
             \/ \A q \in 1..r : ~Before(I, q, p)
  <2>1. r \in 1..Len(incidents) /\ ~incidents[r].present
    BY <1>1, <1>4, <1>6
  <2>2. p \in 1..Len(incidents) /\ incidents[p].present
    BY <1>1, <1>2, <1>6, <2>1
  <2>3. \/ Before(incidents, r, p)
        \/ \A q \in 1..r : ~Before(incidents, q, p)
    BY <1>6, <2>1, <2>2 DEF ByName
  <2>4. \A q \in 1..r : q \in 1..Len(incidents)
    BY <1>2, <2>1
  <2>5. QED
    BY <1>1, <2>1, <2>2, <2>3, <2>4 DEF Before
<1>7. QED
  BY <1>1, <1>5, <1>6 DEF ByName, I

\* Incidents of which none comes or goes stay in order.
LEMMA SameByName ==
    ASSUME ByName(incidents), NEW J \in Seq(Incident), Len(J) = Len(incidents),
           incidents \in Seq(Incident),
           \A i \in 1..Len(incidents) : /\ J[i].present = incidents[i].present
                                        /\ J[i].name = incidents[i].name
    PROVE  ByName(J)
<1>1. Len(incidents) \in Nat /\ DOMAIN incidents = 1..Len(incidents)
      /\ DOMAIN J = 1..Len(incidents)
  OBVIOUS
<1>2. OnDisk(J) = OnDisk(incidents) /\ OnDisk(J) \subseteq 1..Len(incidents)
  BY <1>1 DEF OnDisk
<1>3. \A c, d \in 1..Len(incidents) : Before(J, c, d) <=> Before(incidents, c, d)
  BY DEF Before
<1>4. ASSUME NEW r \in 1..Len(J), ~J[r].present
      PROVE  \E p \in OnDisk(J) : Before(J, p, r)
  <2>1. PICK p \in OnDisk(incidents) : Before(incidents, p, r)
    BY <1>4 DEF ByName
  <2>2. QED
    BY <1>2, <1>3, <2>1
<1>5. ASSUME NEW r \in 1..Len(J), NEW p \in 1..Len(J), ~J[r].present, J[p].present, p < r
      PROVE  \/ Before(J, r, p)
             \/ \A q \in 1..r : ~Before(J, q, p)
  <2>1. \/ Before(incidents, r, p)
        \/ \A q \in 1..r : ~Before(incidents, q, p)
    BY <1>5 DEF ByName
  <2>2. \A q \in 1..r : q \in 1..Len(incidents)
    BY <1>1
  <2>3. QED
    BY <1>3, <2>1, <2>2
<1>6. QED
  BY <1>4, <1>5 DEF ByName

\* An incident half made has its name and is on disk.
LEMMA HalfMadeByName ==
    ASSUME TypeOK, ByName(incidents), NEW r \in Nat, NEW again \in BOOLEAN,
           HalfMade(r, again)
    PROVE  ByName(incidents')
<1>0. rolling \in SUBSET rolling /\ Len(incidents) \in Nat
  BY IncidentTypes
<1>1. PICK name \in FreeNames :
         \/ \E copied \in SUBSET rolling :
              incidents' = With(name, copied, FALSE, r, again)
         \/ TrimCut(With(name, rolling, TRUE, r, again), Len(incidents) + 1, rolling)
  BY Zenon DEF HalfMade
<1>2. CASE \E copied \in SUBSET rolling : incidents' = With(name, copied, FALSE, r, again)
  <2>1. PICK copied \in SUBSET rolling : incidents' = With(name, copied, FALSE, r, again)
    BY <1>2
  <2> DEFINE f == Fresh(name, copied, FALSE, r, again)
  <2>2. f \in Incident /\ f.present
    BY FreshIncident
  <2>3. incidents' = Append(incidents, f)
    BY <2>1 DEF With
  <2> HIDE DEF f
  <2>4. QED
    BY <2>2, <2>3, AppendByName
<1>3. CASE TrimCut(With(name, rolling, TRUE, r, again), Len(incidents) + 1, rolling)
  <2> DEFINE f == Fresh(name, rolling, TRUE, r, again)
             I == Append(incidents, f)
             n == Len(incidents) + 1
  <2>1. f \in Incident /\ f.present
    BY <1>0, FreshIncident
  <2>2. TrimCut(I, n, rolling)
    BY <1>3 DEF With
  <2> HIDE DEF f
  <2>3. I \in Seq(Incident) /\ Len(I) = n /\ ByName(I) /\ I[n].present
    BY <2>1, AppendByName
  <2> HIDE DEF I
  <2>4. Trimmed(incidents', I, n)
    BY <2>2, <2>3, CutTrims
  <2>5. n \in 1..Len(I)
    BY <1>0, <2>3
  <2>6. QED
    BY <2>3, <2>4, <2>5, TrimByName
<1>4. QED
  BY <1>1, <1>2, <1>3

\* Every step leaves the incidents on disk in order.
LEMMA StepRetention == RetentionInv /\ [Next]_vars => RetentionInv'
<1> SUFFICES ASSUME TypeOK, ByName(incidents), ActiveLast, [Next]_vars
             PROVE  ByName(incidents') /\ ActiveLast'
  BY StepTypes DEF RetentionInv, ByName, OnDisk, Before
<1>0. /\ Len(incidents) \in Nat /\ run \in Nat /\ run + 1 \in Nat
      /\ rolling \in SUBSET rolling /\ active \in 0..Len(incidents)
      /\ incidents \in Seq(Incident) /\ incidents' \in Seq(Incident)
  BY IncidentTypes, WritesOrQuiet DEF TypeOK
<1>1. ASSUME Len(incidents') = Len(incidents), active' = 0 \/ (active' = active /\ up' = up),
             \A i \in 1..Len(incidents) : /\ incidents'[i].present = incidents[i].present
                                          /\ incidents'[i].name = incidents[i].name
      PROVE  ByName(incidents') /\ ActiveLast'
  <2>1. ByName(incidents')
    BY <1>0, <1>1, SameByName
  <2>2. ActiveLast'
    BY <1>0, <1>1 DEF ActiveLast
  <2>3. QED
    BY <2>1, <2>2
<1>2. ASSUME Writes, up' => up PROVE ByName(incidents') /\ ActiveLast'
  <2>1. Len(incidents') = Len(incidents)
        /\ \A i \in 1..Len(incidents) : /\ incidents'[i].present = incidents[i].present
                                        /\ incidents'[i].name = incidents[i].name
    BY <1>2 DEF Writes, SameIncident
  <2>2. ByName(incidents')
    BY <1>0, <2>1, SameByName
  <2>3. ActiveLast'
    BY <1>0, <1>2, <2>1 DEF Writes, ActiveLast
  <2>4. QED
    BY <2>2, <2>3
<1>3. ASSUME NEW kind \in Kinds, AppendLine(kind) \/ KillInAppend(kind)
      PROVE  ByName(incidents') /\ ActiveLast'
  <2>1. Writes
    BY <1>3, AppendEffect, LastLineEffect
  <2>2. QED
    BY <1>2, <2>1 DEF Writes
<1>4. CASE Noted
  BY <1>3, <1>4, StoreAssumption DEF Noted
<1>5. CASE Trigger
  <2> DEFINE n == Len(incidents) + 1
  <2>1. PICK name \in FreeNames :
           incidents' = Trim(With(name, rolling, TRUE, run, FALSE), n, rolling)
    BY <1>5 DEF Trigger
  <2> DEFINE f == Fresh(name, rolling, TRUE, run, FALSE)
             I == Append(incidents, f)
  <2>2. f \in Incident /\ f.present
    BY <1>0, FreshIncident
  <2>3. incidents' = Trim(I, n, rolling) /\ active' = n /\ up'
    BY <1>5, <2>1 DEF Trigger, With
  <2> HIDE DEF f
  <2>4. I \in Seq(Incident) /\ Len(I) = n /\ ByName(I) /\ I[n].present
    BY <2>2, AppendByName
  <2> HIDE DEF I
  <2>5. Trimmed(incidents', I, n)
    BY <2>3, <2>4, TrimTrims
  <2>6. n \in 1..Len(I)
    BY <1>0, <2>4
  <2>7. ByName(incidents') /\ incidents'[n].present
    BY <1>0, <2>4, <2>5, <2>6, TrimByName
  <2>8. Len(incidents') = n
    BY <2>4, <2>5 DEF Trimmed, Outlives
  <2>9. QED
    BY <2>3, <2>7, <2>8 DEF ActiveLast
<1>6. ASSUME Trimmed(incidents', Closing, StillActive)
      PROVE  /\ ByName(incidents') /\ Len(incidents') = Len(incidents)
             /\ StillActive # 0 =>
                  StillActive = Len(incidents) /\ incidents'[StillActive].present
  <2>1. /\ Closing \in Seq(Incident)
        /\ Len(Closing) = Len(incidents)
        /\ \A i \in 1..Len(incidents) : /\ Closing[i].present = incidents[i].present
                                        /\ Closing[i].name = incidents[i].name
    BY ClosedEffect DEF SameIncident
  <2>2. ByName(Closing)
    BY <1>0, <2>1, SameByName
  <2>3. StillActive \in {0, active}
    BY DEF StillActive
  <2>4. StillActive = 0 \/ (StillActive = Len(Closing) /\ StillActive \in 1..Len(Closing)
                            /\ Closing[StillActive].present)
    BY <1>0, <2>1, <2>3 DEF ActiveLast
  <2>5. ByName(incidents') /\ (StillActive # 0 => incidents'[StillActive].present)
    BY <1>6, <2>1, <2>2, <2>4, TrimByName
  <2>6. QED
    BY <1>6, <2>1, <2>4, <2>5 DEF Trimmed, Outlives
<1>7. CASE Tick
  <2>1. /\ incidents' = Trim(Closing, StillActive, Left)
        /\ active' = StillActive /\ up'
    BY <1>7 DEF Tick
  <2>2. Trimmed(incidents', Closing, StillActive)
    BY <2>1, ClosedEffect, TrimTrims
  <2>3. QED
    BY <1>6, <2>1, <2>2 DEF ActiveLast
<1>8. CASE KillInTick
  <2>1. active' = 0
    BY <1>8 DEF KillInTick, Gone
  <2>2. CASE incidents' = incidents
    BY <1>1, <2>1, <2>2
  <2>3. CASE TrimCut(Closing, StillActive, Left)
    <3>1. Trimmed(incidents', Closing, StillActive)
      BY <2>3, ClosedEffect, CutTrims
    <3>2. QED
      BY <1>6, <2>1, <3>1 DEF ActiveLast
  <2>4. QED
    BY <1>8, <2>2, <2>3 DEF KillInTick
<1>9. CASE Pass
  BY <1>1, <1>9 DEF Pass
<1>10. CASE Kill
  BY <1>1, <1>10 DEF Kill, Gone
<1>11. CASE KillInTrigger
  <2>1. HalfMade(run, FALSE) /\ active' = 0
    BY <1>11 DEF KillInTrigger, Gone
  <2>2. ByName(incidents')
    BY <1>0, <2>1, HalfMadeByName
  <2>3. QED
    BY <2>1, <2>2 DEF ActiveLast
<1>12. CASE PowerLoss
  <2>1. PICK T \in {{}, OnDisk(incidents)} : incidents' = Emptied(incidents, T)
    BY <1>12, Zenon DEF PowerLoss
  <2>2. /\ active' = 0 /\ Outlives(incidents', incidents)
        /\ \A i \in 1..Len(incidents) : incidents'[i].present = incidents[i].present
    BY <1>0, <1>12, <2>1, EmptiedOutlives DEF PowerLoss, Gone
  <2>3. QED
    BY <1>1, <2>2 DEF Outlives, SameIncident
<1>13. CASE Restart
  <2>1. active' = active /\ active = 0
    BY <1>13 DEF Restart, ActiveLast
  <2>2. CASE incidents' = incidents
    BY <1>1, <2>1, <2>2
  <2>3. CASE \E name \in FreeNames :
               incidents' = Trim(With(name, rolling, TRUE, run + 1, TRUE),
                                 Len(incidents) + 1, rolling)
    <3> DEFINE n == Len(incidents) + 1
    <3>1. PICK name \in FreeNames :
             incidents' = Trim(With(name, rolling, TRUE, run + 1, TRUE), n, rolling)
      BY <2>3
    <3> DEFINE f == Fresh(name, rolling, TRUE, run + 1, TRUE)
               I == Append(incidents, f)
    <3>2. f \in Incident /\ f.present
      BY <1>0, FreshIncident
    <3>3. incidents' = Trim(I, n, rolling)
      BY <3>1 DEF With
    <3> HIDE DEF f
    <3>4. I \in Seq(Incident) /\ Len(I) = n /\ ByName(I) /\ I[n].present
      BY <3>2, AppendByName
    <3> HIDE DEF I
    <3>5. Trimmed(incidents', I, n)
      BY <3>3, <3>4, TrimTrims
    <3>6. n \in 1..Len(I)
      BY <1>0, <3>4
    <3>7. ByName(incidents')
      BY <1>0, <3>4, <3>5, <3>6, TrimByName
    <3>8. QED
      BY <2>1, <3>7 DEF ActiveLast
  <2>4. QED
    BY <1>13, <2>2, <2>3 DEF Restart
<1>14. CASE KillInRestart
  <2>1. HalfMade(run + 1, TRUE) /\ active' = active /\ active = 0
    BY <1>14 DEF KillInRestart, ActiveLast
  <2>2. ByName(incidents')
    BY <1>0, <2>1, HalfMadeByName
  <2>3. QED
    BY <2>1, <2>2 DEF ActiveLast
<1>15. CASE UNCHANGED vars
  BY <1>1, <1>15
<1>16. QED
  BY <1>3, <1>4, <1>5, <1>7, <1>8, <1>9, <1>10, <1>11, <1>12, <1>13, <1>14, <1>15 DEF Next

\* The invariant behind Retention holds throughout.
LEMMA RetentionInvariant == Spec => []RetentionInv
<1>1. Init => RetentionInv
  <2> SUFFICES ASSUME Init PROVE RetentionInv
    OBVIOUS
  <2>1. incidents = <<>> /\ active = 0 /\ TypeOK
    BY InitTypes DEF Init
  <2>2. QED
    BY <2>1 DEF RetentionInv, ByName, ActiveLast
<1>2. QED
  BY <1>1, StepRetention, PTL DEF Spec

\* Trims go by name: the least name there ever was and the open incident
\* survive every trim, complete or cut short by a death, and an incident that
\* outlives a younger one sorts behind it or before all made till then
\* (recorder.py:87, 96-102).
THEOREM RetentionHolds == Spec => []Retention
<1>1. RetentionInv => Retention
  <2> SUFFICES ASSUME TypeOK, ByName(incidents), ActiveLast PROVE Retention
    BY DEF RetentionInv
  <2>1. DOMAIN incidents = 1..Len(incidents)
    BY IncidentTypes
  <2>2. QED
    BY <2>1 DEF ByName, ActiveLast, Retention
<1>2. QED
  BY <1>1, RetentionInvariant, PTL

\* The names are in the order the incidents were made: no two of one second,
\* and local time never goes back.
NamedInOrder ==
    \A q, r \in DOMAIN incidents : q < r => Before(incidents, q, r)

\* "Keep the earliest incident as well as recent ones": the first incident is
\* on disk, and what is not there is older than the others that are.
EarliestKept ==
    /\ Len(incidents) > 0 => incidents[1].present
    /\ \A r, p \in DOMAIN incidents :
         (~incidents[r].present /\ incidents[p].present) => p = 1 \/ p > r

\* What the comment at recorder.py:98 promises holds as long as the names come
\* in the order of the incidents.
THEOREM EarliestSurvives == Spec => [](NamedInOrder => EarliestKept)
<1>1. RetentionInv => (NamedInOrder => EarliestKept)
  <2> SUFFICES ASSUME TypeOK, ByName(incidents), NamedInOrder PROVE EarliestKept
    BY DEF RetentionInv
  <2>1. /\ DOMAIN incidents = 1..Len(incidents) /\ Len(incidents) \in Nat
        /\ incidents \in Seq(Incident)
    BY IncidentTypes DEF TypeOK
  <2>2. \A i \in 1..Len(incidents) : incidents[i].name \in Nat
    <3>1. \A i \in 1..Len(incidents) : incidents[i] \in Incident
      BY <2>1
    <3>2. \A x \in Incident : x.name \in Nat
      BY DEF Incident
    <3>3. QED
      BY <3>1, <3>2
  <2>3. \A q, r \in 1..Len(incidents) : q < r => incidents[q].name < incidents[r].name
    BY <2>1 DEF NamedInOrder, Before
  <2>4. ASSUME Len(incidents) > 0, ~incidents[1].present PROVE FALSE
    <3>1. 1 \in 1..Len(incidents)
      BY <2>1, <2>4
    <3>2. PICK p \in OnDisk(incidents) : Before(incidents, p, 1)
      BY <2>4, <3>1 DEF ByName
    <3>3. p \in 1..Len(incidents) /\ incidents[p].present
      BY <2>1 DEF OnDisk
    <3>4. 1 < p
      BY <2>1, <2>4, <3>3
    <3>5. incidents[1].name < incidents[p].name
      BY <2>3, <3>1, <3>3, <3>4
    <3>6. QED
      BY <2>2, <3>1, <3>2, <3>3, <3>5 DEF Before
  <2>5. ASSUME NEW r \in 1..Len(incidents), NEW p \in 1..Len(incidents),
               ~incidents[r].present, incidents[p].present, p # 1, ~(p > r)
        PROVE  FALSE
    <3>1. p < r /\ 1 < p /\ 1 \in 1..r /\ 1 \in 1..Len(incidents)
      BY <2>1, <2>5
    <3>2. Before(incidents, r, p) \/ ~Before(incidents, 1, p)
      BY <2>5, <3>1 DEF ByName
    <3>3. incidents[p].name < incidents[r].name /\ incidents[1].name < incidents[p].name
      BY <2>3, <3>1
    <3>4. QED
      BY <2>2, <3>1, <3>2, <3>3 DEF Before
  <2>6. QED
    BY <2>1, <2>4, <2>5 DEF EarliestKept
<1>2. QED
  BY <1>1, RetentionInvariant, PTL
=============================================================================
