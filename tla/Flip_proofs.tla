---------------------------- MODULE Flip_proofs ----------------------------
(* Theorems about the primary plane, for any resources and addresses, any    *)
(* size of the proof cache and any activity of the accelerator.              *)
EXTENDS FlipSafety, FiniteSetTheorems, TLAPS

USE DEF hwVars, pinVars, flipVars, ownVars, dptVars, ctlVars, vars

-----------------------------------------------------------------------------
(* Counting pins.                                                            *)

\* Entries of a proof cache P that speak of resource q.
About(P, q) == {e \in Entries : P[e].r = q}
Count(P, q) == Cardinality(About(P, q))
One(s, q) == IF s = q THEN 1 ELSE 0

\* A count is a number.
LEMMA CountType == \A P, q : IsFiniteSet(About(P, q)) /\ Count(P, q) \in Nat
<1> SUFFICES ASSUME NEW P, NEW q PROVE IsFiniteSet(About(P, q)) /\ Count(P, q) \in Nat
  OBVIOUS
<1>1. IsFiniteSet(Entries)
  BY CacheAssumption, FS_Interval DEF Entries
<1>2. About(P, q) \in SUBSET Entries
  BY DEF About
<1>3. IsFiniteSet(About(P, q))
  BY <1>1, <1>2, FS_Subset
<1>4. QED
  BY <1>3, FS_CardinalityType DEF Count

\* Caches that differ in validity only count the same.
LEMMA CountSame ==
    ASSUME NEW P, NEW Q, NEW q, \A e \in Entries : P[e].r = Q[e].r
    PROVE  Count(P, q) = Count(Q, q)
<1>1. About(P, q) = About(Q, q)
  BY DEF About
<1>2. QED
  BY <1>1 DEF Count

\* An entry given to another resource takes its count along.
LEMMA CountMove ==
    \A P, Q, q : \A e \in Entries :
        (\A f \in Entries \ {e} : Q[f].r = P[f].r)
            => Count(Q, q) = Count(P, q) - One(P[e].r, q) + One(Q[e].r, q)
<1> SUFFICES ASSUME NEW P, NEW Q, NEW q, NEW e \in Entries,
                    \A f \in Entries \ {e} : Q[f].r = P[f].r
             PROVE  Count(Q, q) = Count(P, q) - One(P[e].r, q) + One(Q[e].r, q)
  OBVIOUS
<1> DEFINE rest == {f \in Entries \ {e} : P[f].r = q}
<1>1. rest = {f \in Entries \ {e} : Q[f].r = q}
  OBVIOUS
<1>2. /\ About(P, q) = IF P[e].r = q THEN rest \cup {e} ELSE rest
      /\ About(Q, q) = IF Q[e].r = q THEN rest \cup {e} ELSE rest
  BY <1>1 DEF About
<1>3. IsFiniteSet(rest)
  <2>1. rest \in SUBSET About(P, q)
    BY DEF About
  <2>2. QED
    BY <2>1, CountType, FS_Subset
<1>4. e \notin rest
  OBVIOUS
<1> HIDE DEF rest
<1>5. Cardinality(rest) \in Nat /\ Cardinality(rest \cup {e}) = Cardinality(rest) + 1
  BY <1>3, <1>4, FS_CardinalityType, FS_AddElement
<1>6. /\ Count(P, q) = Cardinality(rest) + One(P[e].r, q)
      /\ Count(Q, q) = Cardinality(rest) + One(Q[e].r, q)
  BY <1>2, <1>5 DEF Count, One
<1>7. One(P[e].r, q) \in Int /\ One(Q[e].r, q) \in Int
  BY DEF One
<1>8. QED
  BY <1>5, <1>6, <1>7

\* Whoever has an entry is counted.
LEMMA CountPositive ==
    ASSUME NEW P, NEW e \in Entries
    PROVE  Count(P, P[e].r) > 0
<1>1. e \in About(P, P[e].r)
  BY DEF About
<1>2. Count(P, P[e].r) # 0
  BY <1>1, CountType, FS_EmptySet DEF Count
<1>3. QED
  BY <1>2, CountType

\* An emptied cache counts no resource.
LEMMA CountNone ==
    ASSUME NEW P, NEW q \in Resources, \A e \in Entries : P[e].r = NoResource
    PROVE  Count(P, q) = 0
<1>1. About(P, q) = {}
  BY ResourcesAssumption DEF About
<1>2. QED
  BY <1>1, FS_EmptySet DEF Count

\* The counts are the pins of the module.
LEMMA PinsAreCounts ==
    /\ \A q : CachePins(Entries, q) = Count(proofs, q)
    /\ \A q : CachePins(Entries, q)' = Count(proofs', q)
  BY DEF CachePins, Count, About

-----------------------------------------------------------------------------
(* Looking a resource up in the proof cache.                                 *)

\* What a lookup with pins p returns.
LEMMA LookupResult ==
    ASSUME NEW r, NEW p, NEW l \in Lookups(r, p)
    PROVE  \/ ~optimizeScanout /\ l = [entry |-> 0, fresh |-> FALSE, pins |-> Cleared(p)]
           \/ optimizeScanout /\ l = [entry |-> 0, fresh |-> FALSE, pins |-> p]
           \/ /\ optimizeScanout
              /\ \E e \in Entries : /\ proofs[e].r = r
                                    /\ l = [entry |-> e, fresh |-> FALSE, pins |-> p]
           \/ /\ optimizeScanout
              /\ \E e \in Entries :
                   l = [entry |-> e, fresh |-> TRUE, pins |-> Unpinned(p, proofs[e].r)]
<1>1. CASE ~optimizeScanout
  BY <1>1 DEF Lookups
<1>2. CASE optimizeScanout /\ Candidates(r) # {}
  <2>1. PICK e \in Firsts(r) :
          l \in IF proofs[e].r = r THEN {[entry |-> e, fresh |-> FALSE, pins |-> p]}
                                   ELSE Miss(e, p)
    BY <1>2 DEF Lookups
  <2>2. e \in Entries
    BY DEF Firsts, Candidates
  <2>3. CASE proofs[e].r = r
    BY <1>2, <2>1, <2>2, <2>3
  <2>4. CASE proofs[e].r # r
    BY <1>2, <2>1, <2>2, <2>4 DEF Miss
  <2>5. QED
    BY <2>3, <2>4
<1>3. CASE optimizeScanout /\ Candidates(r) = {} /\ Victims = {}
  BY <1>3 DEF Lookups
<1>4. CASE optimizeScanout /\ Candidates(r) = {} /\ Victims # {}
  <2>1. PICK e \in Victims : l \in Miss(e, p)
    BY <1>4 DEF Lookups
  <2>2. e \in Entries
    BY DEF Victims
  <2>3. QED
    BY <1>4, <2>1, <2>2 DEF Miss
<1>5. QED
  BY <1>1, <1>2, <1>3, <1>4

\* The proofs there were, or fewer: c may take the place of the cache.
Sound(c, r) ==
    /\ c.entry \in Entries \cup {0}
    /\ c.proofs \in [Entries -> Proofs]
    /\ c.entry # 0 => c.proofs[c.entry].r = r
    /\ \A e \in Entries : c.proofs[e].valid => c.proofs[e] = proofs[e]

\* A lookup pins what its entry needs and unpins what it evicts.
LEMMA ProofForResult ==
    ASSUME TypeOK, NEW r \in Resources, NEW p \in [Resources -> Int], NEW c \in ProofFor(r, p)
    PROVE  /\ Sound(c, r)
           /\ c.pins \in [Resources -> Int]
           /\ \A q \in Resources : c.pins[q] = p[q] - Count(proofs, q) + Count(c.proofs, q)
<1> DEFINE fresh == [Empty EXCEPT !.r = r]
<1>0. /\ proofs \in [Entries -> Proofs] /\ Empty \in Proofs /\ fresh \in Proofs
      /\ Empty.r = NoResource /\ Empty.valid = FALSE
      /\ fresh.r = r /\ fresh.valid = FALSE
      /\ 0 \notin Entries /\ NoResource \notin Resources
      /\ \A q \in Resources : Count(proofs, q) \in Nat
  <2>1. proofs \in [Entries -> Proofs] /\ NoResource \notin Resources
    BY ResourcesAssumption DEF TypeOK
  <2>2. Empty \in Proofs /\ Empty.r = NoResource /\ Empty.valid = FALSE
    BY DEF Empty, Proofs
  <2>3. fresh \in Proofs /\ fresh.r = r /\ fresh.valid = FALSE
    BY DEF Empty, Proofs
  <2>4. 0 \notin Entries
    BY CacheAssumption DEF Entries
  <2>5. QED
    BY <2>1, <2>2, <2>3, <2>4, CountType
<1> HIDE DEF fresh
<1>1. ASSUME NEW l \in Lookups(r, p), ~l.fresh,
             c = [entry |-> l.entry,
                  proofs |-> IF optimizeScanout THEN proofs ELSE [e \in Entries |-> Empty],
                  pins |-> l.pins]
      PROVE  /\ Sound(c, r)
             /\ c.pins \in [Resources -> Int]
             /\ \A q \in Resources : c.pins[q] = p[q] - Count(proofs, q) + Count(c.proofs, q)
  <2>1. CASE ~optimizeScanout /\ l = [entry |-> 0, fresh |-> FALSE, pins |-> Cleared(p)]
    <3> DEFINE P == [e \in Entries |-> Empty]
    <3>1. c.entry = 0 /\ c.proofs = P /\ c.pins = Cleared(p)
      BY <1>1, <2>1
    <3>2. Sound(c, r)
      BY <1>0, <3>1 DEF Sound
    <3>3. \A q \in Resources : Count(P, q) = 0
      BY <1>0, CountNone
    <3> HIDE DEF P
    <3>4. c.pins = [q \in Resources |-> p[q] - Count(proofs, q)]
      BY <3>1, PinsAreCounts DEF Cleared
    <3>5. QED
      BY <1>0, <3>1, <3>2, <3>3, <3>4
  <2>2. CASE optimizeScanout /\ l = [entry |-> 0, fresh |-> FALSE, pins |-> p]
    <3>1. c.entry = 0 /\ c.proofs = proofs /\ c.pins = p
      BY <1>1, <2>2
    <3>2. QED
      BY <1>0, <3>1 DEF Sound
  <2>3. ASSUME optimizeScanout, NEW e \in Entries, proofs[e].r = r,
               l = [entry |-> e, fresh |-> FALSE, pins |-> p]
        PROVE  /\ Sound(c, r)
               /\ c.pins \in [Resources -> Int]
               /\ \A q \in Resources : c.pins[q] = p[q] - Count(proofs, q) + Count(c.proofs, q)
    <3>1. c.entry = e /\ c.proofs = proofs /\ c.pins = p
      BY <1>1, <2>3
    <3>2. QED
      BY <1>0, <2>3, <3>1 DEF Sound
  <2>4. ASSUME NEW e \in Entries,
               l = [entry |-> e, fresh |-> TRUE, pins |-> Unpinned(p, proofs[e].r)]
        PROVE  FALSE
    BY <1>1, <2>4
  <2>5. QED
    BY <1>1, <2>1, <2>2, <2>3, <2>4, LookupResult
<1>2. ASSUME NEW l \in Lookups(r, p), l.fresh
      PROVE  \E e \in Entries : l.entry = e /\ l.pins = Unpinned(p, proofs[e].r)
  <2>1. PICK e \in Entries : l = [entry |-> e, fresh |-> TRUE, pins |-> Unpinned(p, proofs[e].r)]
    BY <1>2, LookupResult
  <2>2. QED
    BY <2>1
<1>3. ASSUME NEW e \in Entries, NEW x \in Proofs, x.valid = FALSE, x.r \in {r, NoResource},
             NEW n \in {0, e}, n # 0 => x.r = r,
             c.entry = n, c.proofs = [proofs EXCEPT ![e] = x],
             c.pins = [q \in Resources |->
                         p[q] - One(proofs[e].r, q) + One(x.r, q)]
      PROVE  /\ Sound(c, r)
             /\ c.pins \in [Resources -> Int]
             /\ \A q \in Resources : c.pins[q] = p[q] - Count(proofs, q) + Count(c.proofs, q)
  <2>1. Sound(c, r)
    BY <1>0, <1>3 DEF Sound
  <2>2. c.proofs[e] = x /\ \A f \in Entries \ {e} : c.proofs[f].r = proofs[f].r
    BY <1>0, <1>3
  <2>3. ASSUME NEW q \in Resources
        PROVE  Count(c.proofs, q) = Count(proofs, q) - One(proofs[e].r, q) + One(x.r, q)
    <3> DEFINE found == c.proofs
    <3>1. found[e] = x /\ \A f \in Entries \ {e} : found[f].r = proofs[f].r
      BY <2>2
    <3> HIDE DEF found
    <3>2. Count(found, q) = Count(proofs, q) - One(proofs[e].r, q) + One(found[e].r, q)
      BY <3>1, CountMove
    <3>3. Count(found, q) = Count(proofs, q) - One(proofs[e].r, q) + One(x.r, q)
      BY <3>1, <3>2, Zenon
    <3>4. QED
      BY <3>3 DEF found
  <2>4. \A q \in Resources :
          /\ c.pins[q] = p[q] - One(proofs[e].r, q) + One(x.r, q)
          /\ p[q] \in Int /\ One(proofs[e].r, q) \in Int /\ One(x.r, q) \in Int
    BY <1>3 DEF One
  <2>5. c.pins \in [Resources -> Int]
    BY <1>3, <2>4
  <2>6. \A q \in Resources : c.pins[q] = p[q] - Count(proofs, q) + Count(c.proofs, q)
    BY <1>0, <2>3, <2>4
  <2>7. QED
    BY <2>1, <2>5, <2>6
<1>4. \A e \in Entries : Unpinned(p, proofs[e].r)
        = [q \in Resources |-> p[q] - One(proofs[e].r, q) + One(NoResource, q)]
  BY <1>0 DEF Unpinned, One
<1>5. \A e \in Entries : CachePinned(Unpinned(p, proofs[e].r), r)
        = [q \in Resources |-> p[q] - One(proofs[e].r, q) + One(r, q)]
  BY <1>0 DEF CachePinned, Pinned, Unpinned, One
<1>6. ASSUME NEW l \in Lookups(r, p), l.fresh,
             c = [entry |-> 0, proofs |-> [proofs EXCEPT ![l.entry] = Empty], pins |-> l.pins]
      PROVE  /\ Sound(c, r)
             /\ c.pins \in [Resources -> Int]
             /\ \A q \in Resources : c.pins[q] = p[q] - Count(proofs, q) + Count(c.proofs, q)
  <2>1. PICK e \in Entries : l.entry = e /\ l.pins = Unpinned(p, proofs[e].r)
    BY <1>2, <1>6
  <2>2. c.entry = 0 /\ c.proofs = [proofs EXCEPT ![e] = Empty]
        /\ c.pins = [q \in Resources |->
                       p[q] - One(proofs[e].r, q) + One(Empty.r, q)]
    BY <1>0, <1>4, <1>6, <2>1
  <2>3. QED
    BY <1>0, <1>3, <2>2
<1>7. ASSUME NEW l \in Lookups(r, p), l.fresh,
             c = [entry |-> l.entry, proofs |-> [proofs EXCEPT ![l.entry] = fresh],
                  pins |-> CachePinned(l.pins, r)]
      PROVE  /\ Sound(c, r)
             /\ c.pins \in [Resources -> Int]
             /\ \A q \in Resources : c.pins[q] = p[q] - Count(proofs, q) + Count(c.proofs, q)
  <2>1. PICK e \in Entries : l.entry = e /\ l.pins = Unpinned(p, proofs[e].r)
    BY <1>2, <1>7
  <2>2. c.entry = e /\ c.proofs = [proofs EXCEPT ![e] = fresh]
        /\ c.pins = [q \in Resources |->
                       p[q] - One(proofs[e].r, q) + One(fresh.r, q)]
    BY <1>0, <1>5, <1>7, <2>1
  <2>3. QED
    BY <1>0, <1>3, <2>2
<1>8. QED
  BY <1>1, <1>6, <1>7 DEF ProofFor, fresh

-----------------------------------------------------------------------------
(* Inspecting and arming.                                                    *)

\* A surface that passes inspection is mapped at its address with its pages.
LEMMA InspectedIsMapped ==
    ASSUME TypeOK, ProofsCurrent, NEW r \in Resources, NEW va \in Bases, NEW c, Sound(c, r),
           InspectOK(c, mapping[r], va)
    PROVE  mapping[r] = [base |-> va, sound |-> TRUE]
<1>1. mapping[r] \in Mappings \cup {Unmapped} /\ mapping[r].base = va
  BY DEF TypeOK, InspectOK
<1>2. mapping[r] \in Mappings
  BY <1>1, BasesAssumption DEF Unmapped
<1>3. CASE ProofHit(c, mapping[r], va)
  <2>1. c.entry \in Entries /\ c.proofs[c.entry].valid /\ c.proofs[c.entry].base = va
        /\ c.proofs[c.entry].r = r /\ c.proofs[c.entry] = proofs[c.entry]
    BY <1>3 DEF ProofHit, Sound
  <2>2. mapping[proofs[c.entry].r] = [base |-> proofs[c.entry].base, sound |-> TRUE]
    BY <2>1 DEF ProofsCurrent
  <2>3. QED
    BY <2>1, <2>2
<1>4. CASE mapping[r].sound
  BY <1>1, <1>2, <1>4 DEF Mappings
<1>5. QED
  BY <1>3, <1>4 DEF InspectOK

\* What an inspection leaves in the cache.
LEMMA ProofAfterResult ==
    ASSUME NEW r \in Resources, NEW va \in Bases, NEW c, Sound(c, r), NEW m
    PROVE  LET P == ProofAfter(c, m, va)
           IN  /\ P \in [Entries -> Proofs]
               /\ \A e \in Entries : P[e].r = c.proofs[e].r
               /\ \A e \in Entries : P[e].valid =>
                    \/ P[e] = proofs[e]
                    \/ P[e].r = r /\ P[e].base = va /\ InspectOK(c, m, va)
<1> DEFINE P == ProofAfter(c, m, va)
           n == c.entry
           old == c.proofs[n]
<1>1. CASE n = 0
  BY <1>1 DEF ProofAfter, Sound
<1>2. CASE n # 0 /\ InspectOK(c, m, va)
  <2> DEFINE x == [old EXCEPT !.valid = TRUE, !.base = va]
  <2>1. P = [c.proofs EXCEPT ![n] = x]
    BY <1>2 DEF ProofAfter
  <2>2. n \in Entries /\ c.proofs \in [Entries -> Proofs] /\ old \in Proofs /\ old.r = r
        /\ \A e \in Entries : c.proofs[e].valid => c.proofs[e] = proofs[e]
    BY <1>2 DEF Sound
  <2>3. x \in Proofs /\ x.r = r /\ x.base = va
    BY <2>2 DEF Proofs
  <2> HIDE DEF x, P
  <2>4. P \in [Entries -> Proofs] /\ P[n] = x /\ \A e \in Entries \ {n} : P[e] = c.proofs[e]
    BY <2>1, <2>2, <2>3
  <2>5. QED
    BY <1>2, <2>2, <2>3, <2>4 DEF P
<1>3. CASE n # 0 /\ ~InspectOK(c, m, va)
  <2> DEFINE x == [old EXCEPT !.valid = FALSE]
  <2>1. P = [c.proofs EXCEPT ![n] = x]
    BY <1>3 DEF ProofAfter
  <2>2. n \in Entries /\ c.proofs \in [Entries -> Proofs] /\ old \in Proofs /\ old.r = r
        /\ \A e \in Entries : c.proofs[e].valid => c.proofs[e] = proofs[e]
    BY <1>3 DEF Sound
  <2>3. x \in Proofs /\ x.r = r /\ x.valid = FALSE
    BY <2>2 DEF Proofs
  <2> HIDE DEF x, P
  <2>4. P \in [Entries -> Proofs] /\ P[n] = x /\ \A e \in Entries \ {n} : P[e] = c.proofs[e]
    BY <2>1, <2>2, <2>3
  <2>5. QED
    BY <2>2, <2>3, <2>4 DEF P
<1>4. QED
  BY <1>1, <1>2, <1>3

\* Routing never turns the display page table back on, and leaves it off for
\* a tiled surface that is to be armed.
LEMMA Routed ==
    ASSUME TypeOK, NEW r
    PROVE  /\ RouteTiled(r, TRUE) => /\ r \in Tiled => dptDisabled'
                                     /\ dptDisabled => dptDisabled'
                                     /\ dptDisabled' \in BOOLEAN /\ changedDPT' \in BOOLEAN
                                     /\ savedDPT' \in BOOLEAN
           /\ RouteTiled(r, FALSE) => /\ dptDisabled => dptDisabled'
                                      /\ dptDisabled' \in BOOLEAN /\ changedDPT' \in BOOLEAN
                                      /\ savedDPT' \in BOOLEAN
<1>1. dptDisabled \in BOOLEAN /\ changedDPT \in BOOLEAN /\ savedDPT \in BOOLEAN
  BY DEF TypeOK
<1>2. ASSUME RouteTiled(r, TRUE)
      PROVE  /\ r \in Tiled => dptDisabled'
             /\ dptDisabled => dptDisabled'
             /\ dptDisabled' \in BOOLEAN /\ changedDPT' \in BOOLEAN /\ savedDPT' \in BOOLEAN
  <2>1. CASE r \notin Tiled \/ dptDisabled
    BY <1>1, <1>2, <2>1 DEF RouteTiled
  <2>2. CASE r \in Tiled /\ ~dptDisabled
    <3>1. savedDPT' = dptDisabled /\ changedDPT' = TRUE /\ dptDisabled' = TRUE
      BY <1>2, <2>2 DEF RouteTiled
    <3>2. QED
      BY <1>1, <3>1
  <2>3. QED
    BY <2>1, <2>2
<1>3. ASSUME RouteTiled(r, FALSE)
      PROVE  /\ dptDisabled => dptDisabled'
             /\ dptDisabled' \in BOOLEAN /\ changedDPT' \in BOOLEAN /\ savedDPT' \in BOOLEAN
  <2>1. CASE r \notin Tiled \/ dptDisabled
    BY <1>3, <2>1 DEF RouteTiled
  <2>2. CASE r \in Tiled /\ ~dptDisabled
    <3>1. CASE foreignTiled
      BY <1>1, <1>3, <2>2, <3>1 DEF RouteTiled
    <3>2. CASE ~foreignTiled
      <4>1. savedDPT' = dptDisabled /\ changedDPT' = TRUE /\ dptDisabled' = FALSE
        BY <1>3, <2>2, <3>2 DEF RouteTiled
      <4>2. QED
        BY <1>1, <2>2, <4>1
    <3>3. QED
      BY <3>1, <3>2
  <2>3. QED
    BY <2>1, <2>2
<1>4. QED
  BY <1>2, <1>3

\* A flip is refused, or armed with a surface that passed.
LEMMA FlipEffect ==
    ASSUME TypeOK, ProofsCurrent, NEW r \in Resources, NEW va \in Bases, flipSurface(r, va)
    PROVE  /\ proofs' \in [Entries -> Proofs] /\ pins' \in [Resources -> Int]
           /\ mapping' = Kept(native, pins')
           /\ \A e \in Entries : proofs'[e].valid =>
                \/ proofs'[e] = proofs[e]
                \/ /\ proofs'[e].r = r /\ proofs'[e].base = va
                   /\ mapping[r] = [base |-> va, sound |-> TRUE]
           /\ dptDisabled => dptDisabled'
           /\ dptDisabled' \in BOOLEAN /\ changedDPT' \in BOOLEAN /\ savedDPT' \in BOOLEAN
           /\ \/ /\ UNCHANGED <<flipVars, pending, pc>>
                 /\ \A q \in Resources :
                      pins'[q] = pins[q] - Count(proofs, q) + Count(proofs', q)
              \/ /\ Arm(r, va) /\ pc' = "write"
                 /\ r \in Tiled => dptDisabled'
                 /\ mapping[r] = [base |-> va, sound |-> TRUE]
                 /\ \A q \in Resources :
                      pins'[q] = pins[q] - Count(proofs, q) + Count(proofs', q) + One(r, q)
<1>1. PICK c \in ProofFor(r, Pinned(pins, r)) :
          LET m == mapping[r]
              fail == Unpinned(c.pins, r)
          IN  /\ proofs' = ProofAfter(c, m, va)
              /\ \/ /\ ~InspectOK(c, m, va)
                    /\ pins' = fail
                    /\ UNCHANGED <<dptDisabled, dptVars, flipVars, pending, pc>>
                 \/ /\ InspectOK(c, m, va)
                    /\ RouteTiled(r, FALSE)
                    /\ pins' = fail
                    /\ UNCHANGED <<flipVars, pending, pc>>
                 \/ /\ InspectOK(c, m, va)
                    /\ RouteTiled(r, TRUE)
                    /\ pins' = c.pins
                    /\ Arm(r, va)
                    /\ pc' = "write"
              /\ mapping' = Kept(native, pins')
  BY Zenon DEF flipSurface
<1>2. Pinned(pins, r) \in [Resources -> Int]
      /\ \A q \in Resources : Pinned(pins, r)[q] = pins[q] + One(r, q)
  BY DEF Pinned, One, TypeOK
<1>3. /\ Sound(c, r) /\ c.pins \in [Resources -> Int]
      /\ \A q \in Resources :
           c.pins[q] = Pinned(pins, r)[q] - Count(proofs, q) + Count(c.proofs, q)
  BY <1>2, ProofForResult
<1>4. /\ proofs' \in [Entries -> Proofs]
      /\ \A e \in Entries : proofs'[e].r = c.proofs[e].r
      /\ \A e \in Entries : proofs'[e].valid =>
           \/ proofs'[e] = proofs[e]
           \/ proofs'[e].r = r /\ proofs'[e].base = va /\ InspectOK(c, mapping[r], va)
  BY <1>1, <1>3, ProofAfterResult
<1>5. \A q \in Resources : Count(proofs', q) = Count(c.proofs, q)
  BY <1>4, CountSame
<1>6. InspectOK(c, mapping[r], va) => mapping[r] = [base |-> va, sound |-> TRUE]
  BY <1>3, InspectedIsMapped
<1>7. \A q \in Resources : /\ pins[q] \in Int /\ One(r, q) \in Int
                           /\ Count(proofs, q) \in Int /\ Count(proofs', q) \in Int
  BY CountType DEF TypeOK, One
<1>8. Unpinned(c.pins, r) \in [Resources -> Int]
      /\ \A q \in Resources : Unpinned(c.pins, r)[q] = c.pins[q] - One(r, q)
  BY <1>3 DEF Unpinned, One
<1>9. CASE pins' = Unpinned(c.pins, r) /\ UNCHANGED <<flipVars, pending, pc>>
           /\ (RouteTiled(r, FALSE) \/ UNCHANGED <<dptDisabled, dptVars>>)
  <2>1. /\ dptDisabled => dptDisabled'
        /\ dptDisabled' \in BOOLEAN /\ changedDPT' \in BOOLEAN /\ savedDPT' \in BOOLEAN
    BY <1>9, Routed DEF TypeOK
  <2>2. \A q \in Resources : pins'[q] = pins[q] - Count(proofs, q) + Count(proofs', q)
    BY <1>2, <1>3, <1>5, <1>7, <1>8, <1>9
  <2>3. pins' \in [Resources -> Int] /\ mapping' = Kept(native, pins')
    BY <1>1, <1>8, <1>9
  <2>4. QED
    BY <1>4, <1>6, <1>9, <2>1, <2>2, <2>3
<1>10. CASE /\ InspectOK(c, mapping[r], va) /\ RouteTiled(r, TRUE) /\ pins' = c.pins
            /\ Arm(r, va) /\ pc' = "write"
  <2>1. /\ r \in Tiled => dptDisabled'
        /\ dptDisabled => dptDisabled'
        /\ dptDisabled' \in BOOLEAN /\ changedDPT' \in BOOLEAN /\ savedDPT' \in BOOLEAN
    BY <1>10, Routed
  <2>2. \A q \in Resources :
          pins'[q] = pins[q] - Count(proofs, q) + Count(proofs', q) + One(r, q)
    BY <1>2, <1>3, <1>5, <1>7, <1>10
  <2>3. pins' \in [Resources -> Int] /\ mapping' = Kept(native, pins')
    BY <1>1, <1>3, <1>10
  <2>4. QED
    BY <1>4, <1>6, <1>10, <2>1, <2>2, <2>3
<1>11. QED
  BY <1>1, <1>9, <1>10
-----------------------------------------------------------------------------
(* The inductive invariant.                                                  *)

Lit == detach \in {"running", "disable"}
Registers == {surf, live}

\* Two mapped resources have two addresses.
Distinct ==
    \A q, r \in Resources :
        mapping[q].base # NoBase /\ mapping[q].base = mapping[r].base => q = r

\* A register that shows nothing of ours holds no resource's address.
Blanked == \A reg \in Registers : reg.r = NoResource => reg.base \notin Bases

\* A valid proof is about a resource.
Owned == \A e \in Entries : proofs[e].valid => proofs[e].r \in Resources

\* The update in flight is mapped where it is to be shown.
Aimed ==
    Lit /\ Pending =>
        /\ pending = NoResource => base = NoBase
        /\ pending # NoResource => mapping[pending] = [base |-> base, sound |-> TRUE]
        /\ pending \in Tiled => dptDisabled

\* Which surface the registers hold at each point of an update.
Settled == Lit /\ ~Pending => pending = NoResource /\ surf.r = front /\ live.r = front
Armed == pc = "write" => /\ detach = "running" /\ flip = "armed"
                         /\ surf.r = front /\ live.r = front
Submitted ==
    Lit /\ Pending /\ pc = "idle" =>
        surf = [r |-> pending, base |-> base] /\ live.r \in {front, pending}
Latched == Lit /\ flip = "latched" => live.r = pending /\ pc = "idle"
Dark == ~Lit => surf.r = NoResource /\ live.r \in {front, pending, NoResource}
Started == ready => detach = "running"

Plane == Settled /\ Armed /\ Submitted /\ Latched /\ Dark /\ Started

FlipInv ==
    /\ TypeOK /\ PinsBalance /\ ProofsCurrent /\ ScanoutMapped /\ TiledRouted
    /\ Distinct /\ Blanked /\ Owned /\ Aimed /\ Plane

\* The balance of pins, in counts.
LEMMA BalanceForm ==
    /\ PinsBalance <=> \A q \in Resources :
          pins[q] = One(front, q) + One(pending, q) + Count(proofs, q)
    /\ PinsBalance' <=> \A q \in Resources :
          pins'[q] = One(front', q) + One(pending', q) + Count(proofs', q)
  BY PinsAreCounts DEF PinsBalance, Holds, One

\* Whoever is pinned, or has an entry in the cache, stays mapped where it was.
LEMMA PinnedStays ==
    ASSUME TypeOK, Distinct, pins' \in [Resources -> Int], PinsBalance',
           mapping' = mapping \/ mapping' = Kept(native', pins')
    PROVE  /\ pins' \in [Resources -> Nat]
           /\ mapping' \in [Resources -> Mappings \cup {Unmapped}]
           /\ Distinct'
           /\ \A q \in Resources : q \in {front', pending'} => mapping'[q] = mapping[q]
           /\ \A e \in Entries : proofs'[e].r \in Resources =>
                mapping'[proofs'[e].r] = mapping[proofs'[e].r]
<1>1. \A q \in Resources : /\ One(front', q) \in Nat /\ One(pending', q) \in Nat
                           /\ Count(proofs', q) \in Nat
  BY CountType DEF One
<1>2. \A q \in Resources :
        pins'[q] = One(front', q) + One(pending', q) + Count(proofs', q)
  BY BalanceForm
<1>3. pins' \in [Resources -> Nat]
  BY <1>1, <1>2
<1>4. \A q \in Resources : q \in {front', pending'} => pins'[q] > 0
  BY <1>1, <1>2 DEF One
<1>5. \A e \in Entries : proofs'[e].r \in Resources => pins'[proofs'[e].r] > 0
  <2>1. ASSUME NEW e \in Entries, proofs'[e].r \in Resources
        PROVE  Count(proofs', proofs'[e].r) > 0
    <3> DEFINE P == proofs'
    <3>1. Count(P, P[e].r) > 0
      <4> HIDE DEF P
      <4>1. QED
        BY CountPositive
    <3>2. QED
      BY <3>1
  <2>2. QED
    BY <1>1, <1>2, <2>1
<1>6. mapping \in [Resources -> Mappings \cup {Unmapped}]
  BY DEF TypeOK
<1>7. /\ mapping' \in [Resources -> Mappings \cup {Unmapped}]
      /\ \A q \in Resources : /\ mapping'[q] = mapping[q] \/ mapping'[q] = Unmapped
                              /\ pins'[q] > 0 => mapping'[q] = mapping[q]
  BY <1>6 DEF Kept
<1>8. Distinct'
  <2>1. Unmapped.base = NoBase
    BY DEF Unmapped
  <2>2. QED
    BY <1>7, <2>1 DEF Distinct
<1>9. QED
  BY <1>3, <1>4, <1>5, <1>7, <1>8

\* Registers and proofs that name held resources are right after such a step.
LEMMA HeldIsCurrent ==
    ASSUME TypeOK, Distinct, pins' \in [Resources -> Int], PinsBalance',
           mapping' = mapping \/ mapping' = Kept(native', pins'),
           \A e \in Entries : proofs'[e].valid =>
               /\ proofs'[e].r \in Resources
               /\ mapping[proofs'[e].r] = [base |-> proofs'[e].base, sound |-> TRUE],
           \A reg \in {surf', live'} : reg.r # NoResource =>
               /\ reg.r \in Resources /\ reg.r \in {front', pending'}
               /\ mapping[reg.r] = [base |-> reg.base, sound |-> TRUE]
    PROVE  /\ pins' \in [Resources -> Nat]
           /\ mapping' \in [Resources -> Mappings \cup {Unmapped}]
           /\ Distinct' /\ ProofsCurrent' /\ Owned' /\ ScanoutMapped'
           /\ \A q \in Resources : q \in {front', pending'} => mapping'[q] = mapping[q]
<1>1. /\ pins' \in [Resources -> Nat]
      /\ mapping' \in [Resources -> Mappings \cup {Unmapped}]
      /\ Distinct'
      /\ \A q \in Resources : q \in {front', pending'} => mapping'[q] = mapping[q]
      /\ \A e \in Entries : proofs'[e].r \in Resources =>
           mapping'[proofs'[e].r] = mapping[proofs'[e].r]
  BY PinnedStays
<1>2. ProofsCurrent' /\ Owned'
  BY <1>1 DEF ProofsCurrent, Owned
<1>3. ScanoutMapped'
  BY <1>1 DEF ScanoutMapped
<1>4. QED
  BY <1>1, <1>2, <1>3

\* An update seen at its own address is the one on screen.
LEMMA LatchedShown ==
    ASSUME FlipInv, Lit, pc = "idle", flip = "armed", live.base = base
    PROVE  live.r = pending
<1>1. /\ live.r \in {front, pending} /\ live \in Registers /\ live \in Regs
      /\ front \in Resources \cup {NoResource} /\ pending \in Resources \cup {NoResource}
      /\ NoResource \notin Resources /\ NoBase \notin Bases
  BY ResourcesAssumption, BasesAssumption
     DEF FlipInv, TypeOK, Plane, Submitted, Pending, Registers
<1>2. /\ pending = NoResource => base = NoBase
      /\ pending # NoResource => mapping[pending] = [base |-> base, sound |-> TRUE]
  BY DEF FlipInv, Aimed, Pending
<1>3. live.r # NoResource => mapping[live.r] = [base |-> live.base, sound |-> TRUE]
  BY DEF FlipInv, ScanoutMapped
<1>4. \A q \in Resources : mapping[q].sound => mapping[q].base \in Bases
  BY DEF FlipInv, TypeOK, Mappings, Unmapped
<1>5. SUFFICES ASSUME live.r # pending PROVE FALSE
  OBVIOUS
<1>6. CASE live.r = NoResource
  <2>1. live.base \notin Bases
    BY <1>1, <1>6 DEF FlipInv, Blanked
  <2>2. pending \in Resources /\ mapping[pending] = [base |-> base, sound |-> TRUE]
    BY <1>1, <1>2, <1>5, <1>6
  <2>3. QED
    BY <1>4, <2>1, <2>2
<1>7. CASE live.r # NoResource /\ pending = NoResource
  <2>1. live.r \in Resources /\ mapping[live.r] = [base |-> base, sound |-> TRUE]
    BY <1>1, <1>3, <1>7
  <2>2. QED
    BY <1>1, <1>2, <1>4, <1>7, <2>1
<1>8. CASE live.r # NoResource /\ pending # NoResource
  <2>1. /\ live.r \in Resources /\ pending \in Resources
        /\ mapping[live.r] = [base |-> base, sound |-> TRUE]
        /\ mapping[pending] = [base |-> base, sound |-> TRUE]
    BY <1>1, <1>2, <1>3, <1>8
  <2>2. base \in Bases /\ mapping[live.r].base = base /\ mapping[pending].base = base
    BY <1>4, <2>1
  <2>3. QED
    BY <1>1, <1>5, <2>1, <2>2 DEF FlipInv, Distinct
<1>9. QED
  BY <1>6, <1>7, <1>8

-----------------------------------------------------------------------------
(* Every action keeps the invariant.                                         *)

\* The boot state satisfies it.
LEMMA InitInv == Init => FlipInv
<1> SUFFICES ASSUME Init PROVE FlipInv
  OBVIOUS
<1> USE DEF Init
<1>0. NoResource \notin Resources /\ NoBase \notin Bases /\ BootBase \notin Bases
      /\ Tiled \subseteq Resources
  BY ResourcesAssumption, BasesAssumption
<1>1. TypeOK
  <2>1. surf \in Regs /\ live \in Regs
    BY DEF Regs
  <2>2. mapping \in [Resources -> Mappings \cup {Unmapped}] /\ pins \in [Resources -> Nat]
    OBVIOUS
  <2>3. Empty \in Proofs
    BY DEF Empty, Proofs
  <2>4. proofs \in [Entries -> Proofs]
    BY <2>3
  <2>5. dptDisabled \in BOOLEAN /\ foreignTiled \in BOOLEAN /\ optimizeScanout \in BOOLEAN
        /\ newFrame \in BOOLEAN /\ unseen \in BOOLEAN /\ crossed \in BOOLEAN
        /\ ready \in BOOLEAN /\ changedDPT \in BOOLEAN /\ savedDPT \in BOOLEAN
    OBVIOUS
  <2>6. QED
    BY <2>1, <2>2, <2>4, <2>5 DEF TypeOK
<1>2. \A e \in Entries : proofs[e].r = NoResource /\ proofs[e].valid = FALSE
  BY DEF Empty
<1>3. PinsBalance
  <2>1. \A q \in Resources : Count(proofs, q) = 0
    BY <1>2, CountNone
  <2>2. QED
    BY <1>0, <2>1, BalanceForm DEF One
<1>4. ProofsCurrent /\ Owned
  BY <1>2 DEF ProofsCurrent, Owned
<1>5. ScanoutMapped /\ TiledRouted /\ Distinct /\ Blanked
  BY <1>0 DEF ScanoutMapped, TiledRouted, Distinct, Blanked, Registers, Unmapped
<1>6. Aimed /\ Plane
  BY DEF Aimed, Plane, Settled, Armed, Submitted, Latched, Dark, Started, Pending, Lit
<1>7. QED
  BY <1>1, <1>3, <1>4, <1>5, <1>6 DEF FlipInv

\* The accelerator gives a resource it had not mapped a new address.
LEMMA PrepareKeeps ==
    ASSUME FlipInv, NEW r \in Resources, NativePrepare(r)
    PROVE  FlipInv'
<1> USE DEF FlipInv
<1>1. UNCHANGED <<pins, hwVars, flipVars, ownVars, dptVars, ctlVars>> /\ native' = native \cup {r}
  BY DEF NativePrepare
<1>2. CASE Prepared(r)
  <2>1. mapping' = mapping
    BY <1>2 DEF NativePrepare
  <2>2. TypeOK'
    BY <1>1, <2>1 DEF TypeOK
  <2>3. PinsBalance' /\ ProofsCurrent' /\ ScanoutMapped' /\ TiledRouted' /\ Distinct'
    BY <1>1, <2>1, BalanceForm
       DEF ProofsCurrent, ScanoutMapped, TiledRouted, Distinct
  <2>4. Blanked' /\ Owned' /\ Aimed' /\ Plane'
    BY <1>1, <2>1
       DEF Blanked, Registers, Owned, Aimed, Plane, Settled, Armed, Submitted, Latched, Dark,
           Started, Pending, Lit
  <2>5. QED
    BY <2>2, <2>3, <2>4
<1>3. CASE ~Prepared(r)
  <2>1. PICK m \in Mappings : /\ \A q \in Resources : mapping[q].base # m.base
                              /\ mapping' = [mapping EXCEPT ![r] = m]
    BY <1>3 DEF NativePrepare
  <2>2. /\ mapping \in [Resources -> Mappings \cup {Unmapped}] /\ NoBase \notin Bases
        /\ NoResource \notin Resources
    BY BasesAssumption, ResourcesAssumption DEF TypeOK
  <2>3. mapping' \in [Resources -> Mappings \cup {Unmapped}] /\ mapping'[r] = m
        /\ \A q \in Resources \ {r} : mapping'[q] = mapping[q]
    BY <2>1, <2>2
  <2>4. pins[r] = 0
    BY <1>3 DEF Prepared, TypeOK
  <2>5. \A q \in Resources : /\ One(front, q) \in Nat /\ One(pending, q) \in Nat
                             /\ Count(proofs, q) \in Nat
    BY CountType DEF One
  <2>6. pins[r] = One(front, r) + One(pending, r) + Count(proofs, r)
    BY BalanceForm
  <2>7. One(front, r) = 0 /\ One(pending, r) = 0 /\ Count(proofs, r) = 0
    BY <2>4, <2>5, <2>6
  <2>8. r # front /\ r # pending
    BY <2>7 DEF One
  <2>9. \A e \in Entries : proofs[e].r # r
    BY <2>7, CountPositive
  <2>10. TypeOK'
    <3>1. native' \in SUBSET Resources
      BY <1>1 DEF TypeOK
    <3>2. QED
      BY <1>1, <2>3, <3>1 DEF TypeOK
  <2>11. Distinct'
    <3>1. m.base # NoBase
      BY <2>2 DEF Mappings
    <3>2. QED
      BY <2>1, <2>3 DEF Distinct
  <2>12. PinsBalance'
    BY <1>1, BalanceForm
  <2>13. ProofsCurrent' /\ Owned'
    BY <1>1, <2>3, <2>9 DEF ProofsCurrent, Owned
  <2>14. \A reg \in Registers : reg.r \in {front, pending, NoResource}
    BY DEF Registers, Plane, Settled, Armed, Submitted, Dark, Lit, TypeOK
  <2>15. ScanoutMapped' /\ TiledRouted' /\ Blanked'
    BY <1>1, <2>3, <2>8, <2>14, <2>10
       DEF ScanoutMapped, TiledRouted, Blanked, Registers, TypeOK, Regs
  <2>16. Aimed'
    BY <1>1, <2>2, <2>3, <2>8 DEF Aimed, Pending, Lit, TypeOK
  <2>17. Plane'
    BY <1>1 DEF Plane, Settled, Armed, Submitted, Latched, Dark, Started, Pending, Lit
  <2>18. QED
    BY <2>10, <2>11, <2>12, <2>13, <2>15, <2>16, <2>17
<1>4. QED
  BY <1>2, <1>3

\* The registers only ever hold surfaces the framebuffer owns.
LEMMA RegistersOwned ==
    ASSUME FlipInv
    PROVE  \A reg \in {surf, live} : reg.r # NoResource =>
               /\ reg.r \in Resources /\ reg.r \in {front, pending}
               /\ mapping[reg.r] = [base |-> reg.base, sound |-> TRUE]
<1>1. \A reg \in {surf, live} : reg.r \in Resources \cup {NoResource}
  BY DEF FlipInv, TypeOK, Regs
<1>2. \A reg \in {surf, live} : reg.r # NoResource => reg.r \in {front, pending}
  BY DEF FlipInv, TypeOK, Plane, Settled, Armed, Submitted, Dark, Lit
<1>3. QED
  BY <1>1, <1>2 DEF FlipInv, ScanoutMapped

\* The accelerator lets a resource go.
LEMMA CompleteKeeps ==
    ASSUME FlipInv, NEW r \in Resources, NativeComplete(r)
    PROVE  FlipInv'
<1> USE DEF FlipInv
<1>1. /\ UNCHANGED <<pins, hwVars, flipVars, ownVars, dptVars, ctlVars>>
      /\ native' = native \ {r} /\ mapping' = Kept(native', pins')
  BY DEF NativeComplete
<1>2. PinsBalance' /\ pins' \in [Resources -> Int]
  BY <1>1, BalanceForm DEF TypeOK
<1>3. /\ \A e \in Entries : proofs'[e].valid =>
           /\ proofs'[e].r \in Resources
           /\ mapping[proofs'[e].r] = [base |-> proofs'[e].base, sound |-> TRUE]
      /\ \A reg \in {surf', live'} : reg.r # NoResource =>
           /\ reg.r \in Resources /\ reg.r \in {front', pending'}
           /\ mapping[reg.r] = [base |-> reg.base, sound |-> TRUE]
  BY <1>1, RegistersOwned DEF ProofsCurrent, Owned
<1>4. /\ pins' \in [Resources -> Nat]
      /\ mapping' \in [Resources -> Mappings \cup {Unmapped}]
      /\ Distinct' /\ ProofsCurrent' /\ Owned' /\ ScanoutMapped'
      /\ \A q \in Resources : q \in {front', pending'} => mapping'[q] = mapping[q]
  BY <1>1, <1>2, <1>3, HeldIsCurrent
<1>5. TypeOK'
  <2>1. native' \in SUBSET Resources
    BY <1>1 DEF TypeOK
  <2>2. /\ pins' \in [Resources -> Nat]
        /\ mapping' \in [Resources -> Mappings \cup {Unmapped}]
    BY <1>4
  <2>3. UNCHANGED <<hwVars, flipVars, ownVars, dptVars, ctlVars>>
    BY <1>1
  <2>4. TypeOK
    OBVIOUS
  <2> HIDE DEF FlipInv
  <2>5. QED
    BY <2>1, <2>2, <2>3, <2>4 DEF TypeOK
<1>6. TiledRouted' /\ Blanked' /\ Plane'
  BY <1>1 DEF TiledRouted, Blanked, Registers, Plane, Settled, Armed, Submitted, Latched, Dark,
              Started, Pending, Lit
<1>7. Aimed'
  BY <1>1, <1>4 DEF Aimed, Pending, Lit, TypeOK
<1>8. QED
  BY <1>2, <1>4, <1>5, <1>6, <1>7

\* A vertical blank takes over what is armed.
LEMMA BlankKeeps ==
    ASSUME FlipInv, VerticalBlank
    PROVE  FlipInv'
<1>1. /\ live' = surf /\ unseen' = TRUE /\ crossed' = TRUE
      /\ frames' = IF detach = "wait" /\ frames < 2 THEN frames + 1 ELSE frames
      /\ UNCHANGED <<surf, dptDisabled, foreignTiled, pinVars, ownVars, dptVars, flip, base,
                     newFrame, ready, pc, detach>>
  BY DEF VerticalBlank
<1>2. TypeOK'
  <2>1. unseen' \in BOOLEAN /\ crossed' \in BOOLEAN
    BY <1>1
  <2>2. frames' \in 0..2
    BY <1>1 DEF FlipInv, TypeOK
  <2>3. QED
    BY <1>1, <2>1, <2>2 DEF FlipInv, TypeOK
<1>3. PinsBalance' /\ ProofsCurrent' /\ Distinct' /\ Owned' /\ Aimed'
  BY <1>1, BalanceForm
     DEF FlipInv, ProofsCurrent, Distinct, Owned, Aimed, Pending, Lit
<1>4. ScanoutMapped' /\ TiledRouted' /\ Blanked'
  BY <1>1 DEF FlipInv, ScanoutMapped, TiledRouted, Blanked, Registers
<1>5. Plane'
  BY <1>1 DEF FlipInv, Plane, Settled, Armed, Submitted, Latched, Dark, Started, Pending, Lit
<1>6. QED
  BY <1>2, <1>3, <1>4, <1>5 DEF FlipInv

\* A flip pins, inspects and arms, or gives back what it pinned.
LEMMA FlipKeeps ==
    ASSUME FlipInv, NEW r \in Resources, NEW va \in Bases, flipSurface(r, va)
    PROVE  FlipInv'
<1>0. TypeOK /\ ProofsCurrent /\ Distinct /\ NoResource \notin Resources
  BY ResourcesAssumption DEF FlipInv
<1>1. /\ proofs' \in [Entries -> Proofs] /\ pins' \in [Resources -> Int]
      /\ mapping' = Kept(native, pins')
      /\ \A e \in Entries : proofs'[e].valid =>
           \/ proofs'[e] = proofs[e]
           \/ /\ proofs'[e].r = r /\ proofs'[e].base = va
              /\ mapping[r] = [base |-> va, sound |-> TRUE]
      /\ dptDisabled => dptDisabled'
      /\ dptDisabled' \in BOOLEAN /\ changedDPT' \in BOOLEAN /\ savedDPT' \in BOOLEAN
      /\ \/ /\ UNCHANGED <<flipVars, pending, pc>>
            /\ \A q \in Resources :
                 pins'[q] = pins[q] - Count(proofs, q) + Count(proofs', q)
         \/ /\ Arm(r, va) /\ pc' = "write"
            /\ r \in Tiled => dptDisabled'
            /\ mapping[r] = [base |-> va, sound |-> TRUE]
            /\ \A q \in Resources :
                 pins'[q] = pins[q] - Count(proofs, q) + Count(proofs', q) + One(r, q)
  BY <1>0, FlipEffect
<1>2. /\ UNCHANGED <<surf, live, foreignTiled, native, front, optimizeScanout, ready, detach,
                     frames>>
      /\ pc = "idle" /\ detach = "running" /\ ~Pending
  BY DEF flipSurface, Callable, Attached
<1>3. Lit /\ pending = NoResource /\ surf.r = front /\ live.r = front /\ native' = native
  BY <1>2 DEF FlipInv, Plane, Settled, Lit
<1>4. \A q \in Resources :
        /\ pins[q] = One(front, q) + One(pending, q) + Count(proofs, q)
        /\ One(front, q) \in Int /\ One(r, q) \in Int /\ One(pending, q) = 0
        /\ Count(proofs, q) \in Int /\ Count(proofs', q) \in Int
  <2>1. PinsBalance
    BY DEF FlipInv
  <2>2. \A q \in Resources : One(pending, q) = 0 /\ One(front, q) \in Int /\ One(r, q) \in Int
    BY <1>0, <1>3 DEF One
  <2>3. QED
    BY <2>1, <2>2, BalanceForm, CountType
<1>5. \A e \in Entries : proofs'[e].valid =>
        /\ proofs'[e].r \in Resources
        /\ mapping[proofs'[e].r] = [base |-> proofs'[e].base, sound |-> TRUE]
  BY <1>1 DEF FlipInv, ProofsCurrent, Owned
<1>6. \A reg \in {surf', live'} : reg.r # NoResource =>
        /\ reg.r \in Resources /\ reg.r \in {front', pending'}
        /\ mapping[reg.r] = [base |-> reg.base, sound |-> TRUE]
  BY <1>2, <1>3, RegistersOwned
<1>7. /\ surf' \in Regs /\ live' \in Regs /\ foreignTiled' \in BOOLEAN
      /\ optimizeScanout' \in BOOLEAN /\ ready' \in BOOLEAN
      /\ native' \in SUBSET Resources /\ front' \in Resources \cup {NoResource}
      /\ detach' \in {"running", "disable", "wait", "clear", "stopped"} /\ frames' \in 0..2
  BY <1>0, <1>2 DEF TypeOK
<1>8. TiledRouted' /\ Blanked'
  BY <1>1, <1>2 DEF FlipInv, TiledRouted, Blanked, Registers
<1>9. CASE /\ UNCHANGED <<flipVars, pending, pc>>
           /\ \A q \in Resources : pins'[q] = pins[q] - Count(proofs, q) + Count(proofs', q)
  <2>1. PinsBalance'
    <3>1. \A q \in Resources :
            pins'[q] = One(front', q) + One(pending', q) + Count(proofs', q)
      BY <1>2, <1>4, <1>9
    <3>2. QED
      BY <3>1, BalanceForm
  <2>2. /\ pins' \in [Resources -> Nat]
        /\ mapping' \in [Resources -> Mappings \cup {Unmapped}]
        /\ Distinct' /\ ProofsCurrent' /\ Owned' /\ ScanoutMapped'
    BY <1>0, <1>1, <1>3, <1>5, <1>6, <2>1, HeldIsCurrent
  <2>3. /\ flip' \in {"none", "armed", "latched", "completed"} /\ base' \in Bases \cup {NoBase}
        /\ pc' \in {"idle", "write"} /\ pending' \in Resources \cup {NoResource}
        /\ newFrame' \in BOOLEAN /\ unseen' \in BOOLEAN /\ crossed' \in BOOLEAN
    BY <1>0, <1>9 DEF TypeOK
  <2>4. TypeOK'
    BY <1>1, <1>7, <2>2, <2>3 DEF TypeOK
  <2>5. Aimed' /\ Plane'
    BY <1>2, <1>3, <1>9
       DEF FlipInv, Aimed, Plane, Settled, Armed, Submitted, Latched, Dark, Started, Pending, Lit
  <2>6. QED
    BY <1>8, <2>1, <2>2, <2>4, <2>5 DEF FlipInv
<1>10. CASE /\ Arm(r, va) /\ pc' = "write"
            /\ r \in Tiled => dptDisabled'
            /\ mapping[r] = [base |-> va, sound |-> TRUE]
            /\ \A q \in Resources :
                 pins'[q] = pins[q] - Count(proofs, q) + Count(proofs', q) + One(r, q)
  <2>0. /\ pending' = r /\ flip' = "armed" /\ base' = va /\ newFrame' = FALSE
        /\ unseen' = FALSE /\ crossed' = FALSE
    BY <1>10 DEF Arm
  <2>1. PinsBalance'
    <3>1. \A q \in Resources :
            pins'[q] = One(front', q) + One(pending', q) + Count(proofs', q)
      BY <1>2, <1>4, <1>10, <2>0
    <3>2. QED
      BY <3>1, BalanceForm
  <2>2. /\ pins' \in [Resources -> Nat]
        /\ mapping' \in [Resources -> Mappings \cup {Unmapped}]
        /\ Distinct' /\ ProofsCurrent' /\ Owned' /\ ScanoutMapped'
        /\ \A q \in Resources : q \in {front', pending'} => mapping'[q] = mapping[q]
    BY <1>0, <1>1, <1>3, <1>5, <1>6, <2>1, HeldIsCurrent
  <2>3. newFrame' \in BOOLEAN /\ unseen' \in BOOLEAN /\ crossed' \in BOOLEAN
    BY <2>0
  <2>4. /\ flip' \in {"none", "armed", "latched", "completed"} /\ base' \in Bases \cup {NoBase}
        /\ pc' \in {"idle", "write"} /\ pending' \in Resources \cup {NoResource}
    BY <1>10, <2>0
  <2>5. TypeOK'
    BY <1>1, <1>7, <2>2, <2>3, <2>4 DEF TypeOK
  <2>6. mapping'[r] = [base |-> va, sound |-> TRUE]
    BY <1>10, <2>0, <2>2
  <2>7. Aimed'
    BY <1>0, <1>10, <2>0, <2>6 DEF Aimed
  <2>8. Plane'
    BY <1>2, <1>3, <1>10, <2>0
       DEF FlipInv, Plane, Settled, Armed, Submitted, Latched, Dark, Started, Pending, Lit
  <2>9. QED
    BY <1>8, <2>1, <2>2, <2>5, <2>7, <2>8 DEF FlipInv
<1>11. QED
  BY <1>1, <1>9, <1>10

\* A flip without a surface arms a dark plane.
LEMMA DisableKeeps ==
    ASSUME FlipInv, flipDisable
    PROVE  FlipInv'
<1>1. /\ pending' = NoResource /\ flip' = "armed" /\ base' = NoBase /\ newFrame' = FALSE
      /\ unseen' = FALSE /\ crossed' = FALSE /\ pc' = "write"
      /\ UNCHANGED <<hwVars, pinVars, front, proofs, optimizeScanout, dptVars, ready, detach,
                     frames>>
      /\ pc = "idle" /\ detach = "running" /\ ~Pending
  BY DEF flipDisable, Arm, Callable, Attached
<1>2. Lit /\ pending = NoResource /\ surf.r = front /\ live.r = front
  BY <1>1 DEF FlipInv, Plane, Settled, Lit
<1>3. newFrame' \in BOOLEAN /\ unseen' \in BOOLEAN /\ crossed' \in BOOLEAN
  BY <1>1
<1>4. TypeOK'
  <2>1. /\ pending' \in Resources \cup {NoResource} /\ base' \in Bases \cup {NoBase}
        /\ pc' \in {"idle", "write"} /\ flip' \in {"none", "armed", "latched", "completed"}
    BY <1>1
  <2>2. QED
    BY <1>1, <1>3, <2>1 DEF FlipInv, TypeOK
<1>5. PinsBalance'
  BY <1>1, <1>2, BalanceForm DEF FlipInv
<1>6. ProofsCurrent' /\ ScanoutMapped' /\ TiledRouted' /\ Distinct' /\ Blanked' /\ Owned'
  BY <1>1 DEF FlipInv, ProofsCurrent, ScanoutMapped, TiledRouted, Distinct, Blanked, Registers,
              Owned
<1>7. Aimed'
  BY <1>1, ResourcesAssumption DEF Aimed
<1>8. Plane'
  BY <1>1, <1>2
     DEF FlipInv, Plane, Settled, Armed, Submitted, Latched, Dark, Started, Pending, Lit
<1>9. QED
  BY <1>4, <1>5, <1>6, <1>7, <1>8 DEF FlipInv

\* The registers take the armed update.
LEMMA WriteKeeps ==
    ASSUME FlipInv, WritePlane
    PROVE  FlipInv'
<1>1. /\ pc = "write" /\ surf' = [r |-> pending, base |-> base] /\ pc' = "idle"
      /\ UNCHANGED <<live, dptDisabled, foreignTiled, pinVars, flipVars, ownVars, dptVars,
                     ready, detach, frames>>
  BY DEF WritePlane
<1>2. Lit /\ Pending /\ flip = "armed" /\ surf.r = front /\ live.r = front /\ detach = "running"
  BY <1>1 DEF FlipInv, Plane, Armed, Lit, Pending
<1>3. /\ pending = NoResource => base = NoBase
      /\ pending # NoResource => mapping[pending] = [base |-> base, sound |-> TRUE]
      /\ pending \in Tiled => dptDisabled
  BY <1>2 DEF FlipInv, Aimed
<1>4. surf'.r = pending /\ surf'.base = base
  BY <1>1
<1>5. TypeOK'
  <2>1. surf' \in Regs
    BY <1>1 DEF FlipInv, TypeOK, Regs
  <2>2. QED
    BY <1>1, <2>1 DEF FlipInv, TypeOK
<1>6. PinsBalance' /\ ProofsCurrent' /\ Distinct' /\ Owned' /\ Aimed'
  BY <1>1, BalanceForm DEF FlipInv, ProofsCurrent, Distinct, Owned, Aimed, Pending, Lit
<1>7. ScanoutMapped' /\ TiledRouted' /\ Blanked'
  BY <1>1, <1>3, <1>4, BasesAssumption
     DEF FlipInv, ScanoutMapped, TiledRouted, Blanked, Registers
<1>8. Plane'
  BY <1>1, <1>2, <1>4
     DEF FlipInv, Plane, Settled, Armed, Submitted, Latched, Dark, Started, Pending, Lit
<1>9. QED
  BY <1>5, <1>6, <1>7, <1>8 DEF FlipInv

\* A poll retires the front surface once the pending one is on screen.
LEMMA PollKeeps ==
    ASSUME FlipInv, itcm
    PROVE  FlipInv'
<1> DEFINE seen == newFrame \/ unseen
           finish == flip = "latched" \/ Latches(seen)
<1>0. TypeOK /\ Distinct /\ NoResource \notin Resources
  BY ResourcesAssumption DEF FlipInv
<1>1. /\ newFrame' = seen /\ unseen' = FALSE
      /\ UNCHANGED <<hwVars, native, base, crossed, proofs, optimizeScanout, dptVars, ctlVars>>
      /\ pc = "idle" /\ detach = "running"
  BY DEF itcm, Callable, Attached
<1>2. newFrame' \in BOOLEAN /\ unseen' \in BOOLEAN
  BY <1>0, <1>1 DEF TypeOK
<1>3. TiledRouted' /\ Blanked'
  BY <1>1 DEF FlipInv, TiledRouted, Blanked, Registers
<1>4. CASE finish
  <2>1. /\ flip' = "completed" /\ pins' = Unpinned(pins, front)
        /\ mapping' = Kept(native, pins') /\ front' = pending /\ pending' = NoResource
    BY <1>4 DEF itcm
  <2>2. Pending /\ Lit
    BY <1>1, <1>4 DEF Latches, Pending, Lit
  <2>3. live.r = pending /\ surf.r = pending
    BY <1>1, <1>4, <2>2, LatchedShown
       DEF FlipInv, Plane, Latched, Latches, Submitted, Lit
  <2>4. PinsBalance' /\ pins' \in [Resources -> Int]
    <3>1. /\ pins' \in [Resources -> Int]
          /\ \A q \in Resources : pins'[q] = pins[q] - One(front, q)
      BY <1>0, <2>1 DEF TypeOK, Unpinned, One
    <3>2. \A q \in Resources :
            /\ pins[q] = One(front, q) + One(pending, q) + Count(proofs, q)
            /\ One(front, q) \in Int /\ One(pending, q) \in Int /\ One(pending', q) = 0
            /\ Count(proofs, q) \in Int
      <4>1. \A q \in Resources : /\ One(front, q) \in Int /\ One(pending, q) \in Int
                                 /\ One(pending', q) = 0
        BY <1>0, <2>1 DEF One
      <4>2. QED
        BY <4>1, BalanceForm, CountType DEF FlipInv
    <3>3. \A q \in Resources :
            pins'[q] = One(front', q) + One(pending', q) + Count(proofs', q)
      BY <1>1, <2>1, <3>1, <3>2
    <3>4. QED
      BY <3>1, <3>3, BalanceForm
  <2>5. /\ pins' \in [Resources -> Nat]
        /\ mapping' \in [Resources -> Mappings \cup {Unmapped}]
        /\ Distinct' /\ ProofsCurrent' /\ Owned' /\ ScanoutMapped'
    <3>1. \A e \in Entries : proofs'[e].valid =>
            /\ proofs'[e].r \in Resources
            /\ mapping[proofs'[e].r] = [base |-> proofs'[e].base, sound |-> TRUE]
      BY <1>1 DEF FlipInv, ProofsCurrent, Owned
    <3>2. \A reg \in {surf', live'} : reg.r # NoResource =>
            /\ reg.r \in Resources /\ reg.r \in {front', pending'}
            /\ mapping[reg.r] = [base |-> reg.base, sound |-> TRUE]
      BY <1>1, <2>1, <2>3, RegistersOwned
    <3>3. mapping' = Kept(native', pins')
      BY <1>1, <2>1
    <3>4. QED
      BY <1>0, <2>4, <3>1, <3>2, <3>3, HeldIsCurrent
  <2>6. TypeOK'
    <3>1. /\ front' \in Resources \cup {NoResource} /\ pending' \in Resources \cup {NoResource}
          /\ flip' \in {"none", "armed", "latched", "completed"}
      BY <1>0, <2>1 DEF TypeOK
    <3>2. UNCHANGED <<hwVars, native, base, crossed, proofs, optimizeScanout, dptVars, ctlVars>>
      BY <1>1
    <3>3. QED
      BY <1>0, <1>2, <2>5, <3>1, <3>2 DEF TypeOK
  <2>7. Aimed' /\ Plane'
    BY <1>1, <2>1, <2>2, <2>3
       DEF FlipInv, Aimed, Plane, Settled, Armed, Submitted, Latched, Dark, Started, Pending, Lit
  <2>8. QED
    BY <1>3, <2>4, <2>5, <2>6, <2>7 DEF FlipInv
<1>5. CASE ~finish
  <2>1. UNCHANGED <<flip, pins, mapping, front, pending>>
    BY <1>5 DEF itcm
  <2>2. TypeOK'
    BY <1>0, <1>1, <1>2, <2>1 DEF TypeOK
  <2>3. PinsBalance' /\ ProofsCurrent' /\ Distinct' /\ Owned' /\ Aimed' /\ ScanoutMapped'
    BY <1>1, <2>1, BalanceForm
       DEF FlipInv, ProofsCurrent, Distinct, Owned, Aimed, Pending, Lit, ScanoutMapped
  <2>4. Plane'
    BY <1>1, <2>1
       DEF FlipInv, Plane, Settled, Armed, Submitted, Latched, Dark, Started, Pending, Lit
  <2>5. QED
    BY <1>3, <2>2, <2>3, <2>4 DEF FlipInv
<1>6. QED
  BY <1>4, <1>5

\* The work loop sees the update on screen.
LEMMA TickKeeps ==
    ASSUME FlipInv, tick
    PROVE  FlipInv'
<1> DEFINE seen == newFrame \/ unseen
<1>1. /\ newFrame' = seen /\ unseen' = FALSE
      /\ flip' = IF Latches(seen) THEN "latched" ELSE flip
      /\ UNCHANGED <<hwVars, pinVars, base, crossed, ownVars, dptVars, ctlVars>>
      /\ pc = "idle" /\ ready
  BY DEF tick, observeScanout
<1>2. Lit
  BY <1>1 DEF FlipInv, Plane, Started, Lit
<1>3. newFrame' \in BOOLEAN /\ unseen' \in BOOLEAN
  BY <1>1 DEF FlipInv, TypeOK
<1>4. flip' = flip \/ (flip = "armed" /\ flip' = "latched" /\ live.r = pending)
  BY <1>1, <1>2, LatchedShown DEF Latches
<1>5. TypeOK'
  <2>1. flip' \in {"none", "armed", "latched", "completed"}
    BY <1>4 DEF FlipInv, TypeOK
  <2>2. QED
    BY <1>1, <1>3, <2>1 DEF FlipInv, TypeOK
<1>6. /\ PinsBalance' /\ ProofsCurrent' /\ ScanoutMapped' /\ TiledRouted' /\ Distinct'
      /\ Blanked' /\ Owned'
  BY <1>1, BalanceForm
     DEF FlipInv, ProofsCurrent, ScanoutMapped, TiledRouted, Distinct, Blanked, Registers, Owned
<1>7. Aimed' /\ Plane'
  BY <1>1, <1>2, <1>4
     DEF FlipInv, Aimed, Plane, Settled, Armed, Submitted, Latched, Dark, Started, Pending, Lit
<1>8. QED
  BY <1>5, <1>6, <1>7 DEF FlipInv

\* Switching the proof cache touches nothing else.
LEMMA OptimizeKeeps ==
    ASSUME FlipInv, NEW b \in BOOLEAN, setOptimize(b)
    PROVE  FlipInv'
<1>1. /\ optimizeScanout' = b
      /\ UNCHANGED <<hwVars, pinVars, flipVars, front, pending, proofs, dptVars, ctlVars>>
  BY DEF setOptimize
<1>2. TypeOK'
  <2>1. optimizeScanout' \in BOOLEAN
    BY <1>1
  <2>2. QED
    BY <1>1, <2>1 DEF FlipInv, TypeOK
<1>3. /\ PinsBalance' /\ ProofsCurrent' /\ ScanoutMapped' /\ TiledRouted' /\ Distinct'
      /\ Blanked' /\ Owned' /\ Aimed' /\ Plane'
  BY <1>1, BalanceForm
     DEF FlipInv, ProofsCurrent, ScanoutMapped, TiledRouted, Distinct, Blanked, Registers, Owned,
         Aimed, Plane, Settled, Armed, Submitted, Latched, Dark, Started, Pending, Lit
<1>4. QED
  BY <1>2, <1>3 DEF FlipInv

\* The stop call takes the lock once.
LEMMA StopBeginKeeps ==
    ASSUME FlipInv, stopBegin
    PROVE  FlipInv'
<1>1. /\ pc = "idle" /\ detach = "running" /\ detach' = "disable" /\ ready' = FALSE
      /\ UNCHANGED <<hwVars, pinVars, flipVars, ownVars, dptVars, pc, frames>>
  BY DEF stopBegin, Detached
<1>2. TypeOK'
  <2>1. ready' \in BOOLEAN
    BY <1>1
  <2>2. QED
    BY <1>1, <2>1 DEF FlipInv, TypeOK
<1>3. /\ PinsBalance' /\ ProofsCurrent' /\ ScanoutMapped' /\ TiledRouted' /\ Distinct'
      /\ Blanked' /\ Owned' /\ Aimed' /\ Plane'
  BY <1>1, BalanceForm
     DEF FlipInv, ProofsCurrent, ScanoutMapped, TiledRouted, Distinct, Blanked, Registers, Owned,
         Aimed, Plane, Settled, Armed, Submitted, Latched, Dark, Started, Pending, Lit
<1>4. QED
  BY <1>2, <1>3 DEF FlipInv

\* The plane is turned off when something may be on it.
LEMMA StopDisableKeeps ==
    ASSUME FlipInv, stopDisable
    PROVE  FlipInv'
<1>1. /\ detach = "disable" /\ detach' \in {"clear", "wait"}
      /\ detach' = "clear" => front = NoResource /\ pending = NoResource
      /\ surf' = IF detach' = "wait" THEN Off ELSE surf
      /\ UNCHANGED <<live, dptDisabled, foreignTiled, pinVars, flipVars, ownVars, dptVars,
                     ready, pc, frames>>
  BY DEF stopDisable, Detached
<1>2. Off \in Regs /\ Off.r = NoResource /\ Off.base = NoBase
  BY DEF Off, Regs
<1>3. TypeOK'
  <2>1. surf' \in Regs
    BY <1>1, <1>2 DEF FlipInv, TypeOK
  <2>2. QED
    BY <1>1, <2>1 DEF FlipInv, TypeOK
<1>4. PinsBalance' /\ ProofsCurrent' /\ Distinct' /\ Owned' /\ Aimed'
  BY <1>1, BalanceForm DEF FlipInv, ProofsCurrent, Distinct, Owned, Aimed, Pending, Lit
<1>5. ScanoutMapped' /\ TiledRouted' /\ Blanked'
  BY <1>1, <1>2, ResourcesAssumption, BasesAssumption
     DEF FlipInv, ScanoutMapped, TiledRouted, Blanked, Registers
<1>6. surf.r \in {front, pending, NoResource} /\ live.r \in {front, pending, NoResource}
      /\ pc = "idle" /\ ~ready
  BY <1>1 DEF FlipInv, TypeOK, Plane, Settled, Armed, Submitted, Started, Lit
<1>7. Plane'
  BY <1>1, <1>2, <1>6
     DEF Plane, Settled, Armed, Submitted, Latched, Dark, Started, Pending, Lit
<1>8. QED
  BY <1>3, <1>4, <1>5, <1>7 DEF FlipInv

\* A dark plane gives back its pins and the display page table setting.
LEMMA StopReleaseKeeps ==
    ASSUME FlipInv, stopRelease
    PROVE  FlipInv'
<1>0. TypeOK /\ Distinct /\ NoResource \notin Resources /\ NoBase \notin Bases
      /\ Tiled \subseteq Resources
  BY ResourcesAssumption, BasesAssumption DEF FlipInv
<1>1. /\ detach = "wait" /\ detach' = "clear" /\ live.base = NoBase
      /\ pins' = Unpinned(Unpinned(pins, front), pending) /\ mapping' = Kept(native, pins')
      /\ front' = NoResource /\ pending' = NoResource
      /\ dptDisabled' = IF changedDPT THEN savedDPT ELSE dptDisabled
      /\ changedDPT' = FALSE
      /\ UNCHANGED <<surf, live, foreignTiled, native, flipVars, proofs, optimizeScanout,
                     savedDPT, ready, pc, frames>>
  BY DEF stopRelease, Detached
<1>2. surf.r = NoResource
  BY <1>1 DEF FlipInv, Plane, Dark, Lit
<1>3. live.r = NoResource
  <2>1. SUFFICES ASSUME live.r # NoResource PROVE FALSE
    OBVIOUS
  <2>2. live.r \in Resources /\ mapping[live.r] = [base |-> NoBase, sound |-> TRUE]
    BY <1>1, <2>1, RegistersOwned
  <2>3. QED
    BY <1>0, <2>2 DEF TypeOK, Mappings, Unmapped
<1>4. PinsBalance' /\ pins' \in [Resources -> Int]
  <2>1. /\ pins' \in [Resources -> Int]
        /\ \A q \in Resources : pins'[q] = pins[q] - One(front, q) - One(pending, q)
    <3> DEFINE half == Unpinned(pins, front)
    <3>1. /\ half \in [Resources -> Int]
          /\ \A q \in Resources : half[q] = pins[q] - One(front, q)
      BY <1>0 DEF TypeOK, Unpinned, One
    <3>2. pins' = Unpinned(half, pending)
      BY <1>1
    <3> HIDE DEF half
    <3>3. /\ pins' \in [Resources -> Int]
          /\ \A q \in Resources : pins'[q] = half[q] - One(pending, q)
      BY <3>1, <3>2 DEF Unpinned, One
    <3>4. QED
      BY <3>1, <3>3
  <2>2. \A q \in Resources :
          /\ One(front, q) \in Int /\ One(pending, q) \in Int
          /\ One(front', q) = 0 /\ One(pending', q) = 0
    BY <1>0, <1>1 DEF One
  <2>3. \A q \in Resources :
          /\ pins[q] = One(front, q) + One(pending, q) + Count(proofs, q)
          /\ Count(proofs, q) \in Int
    BY BalanceForm, CountType DEF FlipInv
  <2>4. \A q \in Resources :
          pins'[q] = One(front', q) + One(pending', q) + Count(proofs', q)
    BY <1>1, <2>1, <2>2, <2>3
  <2>5. QED
    BY <2>1, <2>4, BalanceForm
<1>5. /\ pins' \in [Resources -> Nat]
      /\ mapping' \in [Resources -> Mappings \cup {Unmapped}]
      /\ Distinct' /\ ProofsCurrent' /\ Owned' /\ ScanoutMapped'
  <2>1. \A e \in Entries : proofs'[e].valid =>
          /\ proofs'[e].r \in Resources
          /\ mapping[proofs'[e].r] = [base |-> proofs'[e].base, sound |-> TRUE]
    BY <1>1 DEF FlipInv, ProofsCurrent, Owned
  <2>2. \A reg \in {surf', live'} : reg.r = NoResource
    BY <1>1, <1>2, <1>3
  <2>3. mapping' = Kept(native', pins')
    BY <1>1
  <2>4. QED
    BY <1>0, <1>4, <2>1, <2>2, <2>3, HeldIsCurrent
<1>6. TypeOK'
  <2>1. dptDisabled' \in BOOLEAN /\ changedDPT' \in BOOLEAN
    BY <1>0, <1>1 DEF TypeOK
  <2>2. UNCHANGED <<surf, live, foreignTiled, native, flipVars, proofs, optimizeScanout,
                    savedDPT, ready, pc, frames>>
    BY <1>1
  <2>3. front' \in Resources \cup {NoResource} /\ pending' \in Resources \cup {NoResource}
        /\ detach' \in {"running", "disable", "wait", "clear", "stopped"}
    BY <1>1
  <2>4. QED
    BY <1>0, <1>5, <2>1, <2>2, <2>3 DEF TypeOK
<1>7. TiledRouted' /\ Blanked'
  BY <1>0, <1>1, <1>2, <1>3 DEF FlipInv, TiledRouted, Blanked, Registers
<1>8. Aimed' /\ Plane'
  BY <1>1, <1>2, <1>3
     DEF FlipInv, Aimed, Plane, Settled, Armed, Submitted, Latched, Dark, Started, Pending, Lit
<1>9. QED
  BY <1>4, <1>5, <1>6, <1>7, <1>8 DEF FlipInv

\* A plane that never went dark keeps its pins.
LEMMA StopTimeoutKeeps ==
    ASSUME FlipInv, stopTimeout
    PROVE  FlipInv'
<1>1. /\ detach = "wait" /\ detach' = "clear"
      /\ UNCHANGED <<hwVars, pinVars, flipVars, ownVars, dptVars, ready, pc, frames>>
  BY DEF stopTimeout, Detached
<1>2. TypeOK'
  BY <1>1 DEF FlipInv, TypeOK
<1>3. /\ PinsBalance' /\ ProofsCurrent' /\ ScanoutMapped' /\ TiledRouted' /\ Distinct'
      /\ Blanked' /\ Owned' /\ Aimed' /\ Plane'
  BY <1>1, BalanceForm
     DEF FlipInv, ProofsCurrent, ScanoutMapped, TiledRouted, Distinct, Blanked, Registers, Owned,
         Aimed, Plane, Settled, Armed, Submitted, Latched, Dark, Started, Pending, Lit
<1>4. QED
  BY <1>2, <1>3 DEF FlipInv

\* The proof cache goes last.
LEMMA StopClearKeeps ==
    ASSUME FlipInv, stopClear
    PROVE  FlipInv'
<1>0. TypeOK /\ Distinct
  BY DEF FlipInv
<1>1. /\ detach = "clear" /\ detach' = "stopped"
      /\ proofs' = [e \in Entries |-> Empty]
      /\ pins' = Cleared(pins) /\ mapping' = Kept(native, pins')
      /\ UNCHANGED <<hwVars, native, flipVars, front, pending, optimizeScanout, dptVars, ready,
                     pc, frames>>
  BY DEF stopClear, Detached
<1>2. /\ proofs' \in [Entries -> Proofs]
      /\ \A e \in Entries : proofs'[e].r = NoResource /\ proofs'[e].valid = FALSE
  BY <1>1 DEF Empty, Proofs
<1>3. PinsBalance' /\ pins' \in [Resources -> Int]
  <2>1. pins' = [q \in Resources |-> pins[q] - Count(proofs, q)]
    BY <1>1, PinsAreCounts DEF Cleared
  <2>2. \A q \in Resources : Count(proofs', q) = 0
    BY <1>2, CountNone
  <2>3. \A q \in Resources :
          /\ pins[q] = One(front, q) + One(pending, q) + Count(proofs, q)
          /\ Count(proofs, q) \in Int /\ pins[q] \in Int
    BY <1>0, BalanceForm, CountType DEF FlipInv, TypeOK
  <2>4. \A q \in Resources : One(front, q) \in Int /\ One(pending, q) \in Int
    BY DEF One
  <2>5. \A q \in Resources :
          pins'[q] = One(front', q) + One(pending', q) + Count(proofs', q)
    BY <1>1, <2>1, <2>2, <2>3, <2>4
  <2>6. pins' \in [Resources -> Int]
    BY <2>1, <2>3
  <2>7. QED
    BY <2>5, <2>6, BalanceForm
<1>4. /\ pins' \in [Resources -> Nat]
      /\ mapping' \in [Resources -> Mappings \cup {Unmapped}]
      /\ Distinct' /\ ProofsCurrent' /\ Owned' /\ ScanoutMapped'
  <2>1. \A reg \in {surf', live'} : reg.r # NoResource =>
          /\ reg.r \in Resources /\ reg.r \in {front', pending'}
          /\ mapping[reg.r] = [base |-> reg.base, sound |-> TRUE]
    BY <1>1, RegistersOwned
  <2>2. mapping' = Kept(native', pins')
    BY <1>1
  <2>3. QED
    BY <1>0, <1>2, <1>3, <2>1, <2>2, HeldIsCurrent
<1>5. TypeOK'
  <2>1. UNCHANGED <<hwVars, native, flipVars, front, pending, optimizeScanout, dptVars, ready,
                    pc, frames>>
    BY <1>1
  <2>2. detach' \in {"running", "disable", "wait", "clear", "stopped"}
    BY <1>1
  <2>3. QED
    BY <1>0, <1>2, <1>4, <2>1, <2>2 DEF TypeOK
<1>6. TiledRouted' /\ Blanked' /\ Aimed' /\ Plane'
  BY <1>1
     DEF FlipInv, TiledRouted, Blanked, Registers, Aimed, Plane, Settled, Armed, Submitted,
         Latched, Dark, Started, Pending, Lit
<1>7. QED
  BY <1>3, <1>4, <1>5, <1>6 DEF FlipInv

\* No step of anyone breaks it.
LEMMA NextKeeps == FlipInv /\ [Next]_vars => FlipInv'
<1> SUFFICES ASSUME FlipInv, [Next]_vars PROVE FlipInv'
  OBVIOUS
<1>1. CASE NativeStep
  BY <1>1, PrepareKeeps, CompleteKeeps DEF NativeStep
<1>2. CASE VerticalBlank
  BY <1>2, BlankKeeps
<1>3. CASE FlipStep
  BY <1>3, FlipKeeps, DisableKeeps, WriteKeeps, PollKeeps, TickKeeps, OptimizeKeeps DEF FlipStep
<1>4. CASE StopStep
  BY <1>4, StopBeginKeeps, StopDisableKeeps, StopReleaseKeeps, StopTimeoutKeeps, StopClearKeeps
     DEF StopStep
<1>5. CASE UNCHANGED vars
  <2>1. TypeOK'
    BY <1>5 DEF FlipInv, TypeOK
  <2>2. /\ PinsBalance' /\ ProofsCurrent' /\ ScanoutMapped' /\ TiledRouted' /\ Distinct'
        /\ Blanked' /\ Owned' /\ Aimed' /\ Plane'
    BY <1>5, BalanceForm
       DEF FlipInv, ProofsCurrent, ScanoutMapped, TiledRouted, Distinct, Blanked, Registers,
           Owned, Aimed, Plane, Settled, Armed, Submitted, Latched, Dark, Started, Pending, Lit
  <2>3. QED
    BY <2>1, <2>2 DEF FlipInv
<1>6. QED
  BY <1>1, <1>2, <1>3, <1>4, <1>5 DEF Next

\* The invariant always holds.
LEMMA FlipInvHolds == Spec => []FlipInv
  BY InitInv, NextKeeps, PTL DEF Spec

-----------------------------------------------------------------------------
(* What follows.                                                             *)

\* Every variable of the plane keeps its range; no pin count goes below zero.
THEOREM TypeCorrect == Spec => []TypeOK
<1>1. FlipInv => TypeOK
  BY DEF FlipInv
<1>2. QED
  BY <1>1, FlipInvHolds, PTL

\* What the pipe scans is mapped at the programmed address, with the pages that
\* were inspected (intel_framebuffer.cpp 142-160).
THEOREM ScanoutIsMapped == Spec => []ScanoutMapped
<1>1. FlipInv => ScanoutMapped
  BY DEF FlipInv
<1>2. QED
  BY <1>1, FlipInvHolds, PTL

\* Every prepare of the driver is owed to exactly one holder (147-159, 669-671).
THEOREM PinsAreOwed == Spec => []PinsBalance
<1>1. FlipInv => PinsBalance
  BY DEF FlipInv
<1>2. QED
  BY <1>1, FlipInvHolds, PTL

\* A cached proof speaks of the mapping that is there now (75-90).
THEOREM ProofsAreCurrent == Spec => []ProofsCurrent
<1>1. FlipInv => ProofsCurrent
  BY DEF FlipInv
<1>2. QED
  BY <1>1, FlipInvHolds, PTL

\* No tiled surface is scanned through the display page table (199-216, 386).
THEOREM TiledIsRouted == Spec => []TiledRouted
<1>1. FlipInv => TiledRouted
  BY DEF FlipInv
<1>2. QED
  BY <1>1, FlipInvHolds, PTL

\* While attached, the surface called front is the one on screen, or the update
\* in flight has just replaced it (187-196).
THEOREM FrontIsTheScreen == Spec => []FrontIsOnScreen
<1>1. FlipInv => FrontIsOnScreen
  <2> SUFFICES ASSUME FlipInv, Attached PROVE FrontIsOnScreen
    BY DEF FrontIsOnScreen
  <2>1. Lit /\ pc \in {"idle", "write"} /\ flip \in {"none", "armed", "latched", "completed"}
    BY DEF Attached, Lit, FlipInv, TypeOK
  <2>2. /\ ~Pending => live.r = front
        /\ flip = "latched" => live.r = pending
        /\ flip = "armed" => live.r \in {front, pending}
    BY <2>1 DEF FlipInv, Plane, Settled, Armed, Submitted, Latched, Pending
  <2>3. QED
    BY <2>1, <2>2 DEF FrontIsOnScreen, Pending
<1>2. QED
  BY <1>1, FlipInvHolds, PTL

\* Frames counted since an update was armed are frames that passed.
BlankSeen == flip = "armed" /\ (newFrame \/ unseen) => crossed

\* Arming forgets the earlier frames, and only a blank brings new ones.
LEMMA BlankSeenHolds == Spec => []BlankSeen
<1>1. Init => BlankSeen
  BY DEF Init, BlankSeen
<1>2. BlankSeen /\ [Next]_vars => BlankSeen'
  <2> SUFFICES ASSUME BlankSeen, [Next]_vars PROVE BlankSeen'
    OBVIOUS
  <2>1. ASSUME NEW r \in Resources, NEW va \in Bases, flipSurface(r, va)
        PROVE  UNCHANGED flipVars \/ Arm(r, va)
    <3>1. \E c \in ProofFor(r, Pinned(pins, r)) : UNCHANGED flipVars \/ Arm(r, va)
      BY <2>1, Zenon DEF flipSurface
    <3>2. QED
      BY <3>1
  <2>2. ASSUME NEW r \in Resources, NativePrepare(r) \/ NativeComplete(r)
        PROVE  UNCHANGED flipVars
    BY <2>2 DEF NativePrepare, NativeComplete
  <2>3. \/ UNCHANGED flipVars
        \/ crossed'
        \/ ~newFrame' /\ ~unseen'
        \/ flip' # "armed"
        \/ flip' = flip /\ newFrame' = (newFrame \/ unseen) /\ ~unseen' /\ crossed' = crossed
    <3>1. CASE NativeStep
      BY <2>2, <3>1 DEF NativeStep
    <3>2. CASE VerticalBlank
      BY <3>2 DEF VerticalBlank
    <3>3. CASE FlipStep
      <4>1. CASE \E r \in Resources, va \in Bases : flipSurface(r, va)
        BY <2>1, <4>1 DEF Arm
      <4>2. CASE flipDisable
        BY <4>2 DEF flipDisable, Arm
      <4>3. CASE WritePlane \/ \E b \in BOOLEAN : setOptimize(b)
        BY <4>3 DEF WritePlane, setOptimize
      <4>4. CASE itcm
        BY <4>4 DEF itcm
      <4>5. CASE tick
        BY <4>5 DEF tick, observeScanout
      <4>6. QED
        BY <3>3, <4>1, <4>2, <4>3, <4>4, <4>5 DEF FlipStep
    <3>4. CASE StopStep
      BY <3>4 DEF StopStep, stopBegin, stopDisable, stopRelease, stopTimeout, stopClear
    <3>5. CASE UNCHANGED vars
      BY <3>5
    <3>6. QED
      BY <3>1, <3>2, <3>3, <3>4, <3>5 DEF Next
  <2>4. QED
    BY <2>3 DEF BlankSeen
<1>3. QED
  BY <1>1, <1>2, PTL DEF Spec

\* An update counts as latched only if a blank passed since it was armed, also
\* when it shows the address already on screen (flip_state.hpp 17).
THEOREM LatchComesAfterBlank == Spec => LatchNeedsBlank
<1>1. BlankSeen /\ [Next]_vars =>
        [(flip = "armed" /\ flip' \in {"latched", "completed"}) => crossed]_vars
  <2> SUFFICES ASSUME BlankSeen, Next, flip = "armed", flip' \in {"latched", "completed"}
               PROVE  crossed
    OBVIOUS
  <2>1. ASSUME NEW r \in Resources, NEW va \in Bases, flipSurface(r, va)
        PROVE  flip' = flip \/ flip' = "armed"
    <3>1. \E c \in ProofFor(r, Pinned(pins, r)) : UNCHANGED flipVars \/ Arm(r, va)
      BY <2>1, Zenon DEF flipSurface
    <3>2. QED
      BY <3>1 DEF Arm
  <2>2. flip' = flip \/ flip' = "armed" \/ newFrame \/ unseen
    <3>1. CASE NativeStep
      BY <3>1 DEF NativeStep, NativePrepare, NativeComplete
    <3>2. CASE VerticalBlank
      BY <3>2 DEF VerticalBlank
    <3>3. CASE FlipStep
      BY <2>1, <3>3
         DEF FlipStep, flipDisable, Arm, WritePlane, itcm, tick, observeScanout, Latches,
             setOptimize
    <3>4. CASE StopStep
      BY <3>4 DEF StopStep, stopBegin, stopDisable, stopRelease, stopTimeout, stopClear
    <3>5. QED
      BY <3>1, <3>2, <3>3, <3>4 DEF Next
  <2>3. QED
    BY <2>2 DEF BlankSeen
<1>2. QED
  BY <1>1, BlankSeenHolds, PTL DEF Spec, LatchNeedsBlank

-----------------------------------------------------------------------------
(* The plane implements a double buffer.                                     *)

\* The double buffer's update in flight and its held memory.
InFlight == IF Pending /\ detach \notin {"clear", "stopped"} THEN pending ELSE "nothing"
HeldNow == {front, pending} \ {NoResource}

\* Two steps the double buffer does not see.
LEMMA Unseen ==
    ASSUME UNCHANGED <<live, front, pending, flip, detach>>
    PROVE  UNCHANGED Buffer!vars
  BY DEF Buffer!vars, Pending, Attached

\* Whoever arms an update submits it.
LEMMA ArmSubmits ==
    ASSUME FlipInv, Callable, ~Pending, NEW r \in Resources \cup {NoResource}, NEW va, Arm(r, va),
           UNCHANGED <<live, front, detach>>
    PROVE  Buffer!Next
<1>1. /\ detach = "running" /\ pending = NoResource /\ pending' = r /\ Pending'
  BY DEF Callable, Attached, FlipInv, Plane, Settled, Lit, Arm, Pending
<1>2. InFlight = "nothing" /\ InFlight' = r
  BY <1>1 DEF InFlight
<1>3. HeldNow' = HeldNow \cup ({r} \ {NoResource})
  BY <1>1 DEF HeldNow
<1>4. Buffer!Submit(r)
  BY <1>1, <1>2, <1>3 DEF Buffer!Submit, Buffer!Memory, InFlight, HeldNow, Attached
<1>5. QED
  BY <1>4 DEF Buffer!Next

\* A blank shows the update, darkens the plane, or changes nothing.
LEMMA BlankShows ==
    ASSUME FlipInv, VerticalBlank
    PROVE  [Buffer!Next]_(Buffer!vars)
<1>1. live'.r = surf.r /\ UNCHANGED <<front, pending, flip, detach>>
  BY DEF VerticalBlank
<1>2. InFlight' = InFlight /\ HeldNow' = HeldNow /\ Attached' = Attached
  BY <1>1 DEF InFlight, HeldNow, Attached, Pending
<1>3. CASE live.r = surf.r
  BY <1>1, <1>2, <1>3 DEF Buffer!vars, InFlight, HeldNow
<1>4. CASE live.r # surf.r /\ Lit
  <2>1. Pending /\ surf.r = pending /\ pending \in Resources \cup {NoResource}
    BY <1>4 DEF FlipInv, TypeOK, Plane, Settled, Armed, Submitted
  <2>2. InFlight = surf.r /\ InFlight # "nothing"
    BY <1>4, <2>1, NothingAssumption DEF InFlight, Lit
  <2>3. Buffer!Show
    BY <1>1, <1>2, <2>2 DEF Buffer!Show, InFlight, HeldNow
  <2>4. QED
    BY <2>3 DEF Buffer!Next
<1>5. CASE ~Lit
  <2>1. surf.r = NoResource /\ ~Attached
    BY <1>5 DEF FlipInv, Plane, Dark, Attached, Lit
  <2>2. Buffer!TurnOff
    BY <1>1, <1>2, <2>1 DEF Buffer!TurnOff, InFlight, HeldNow
  <2>3. QED
    BY <2>2 DEF Buffer!Next
<1>6. QED
  BY <1>3, <1>4, <1>5

\* A poll that finds the update on screen retires the old surface.
LEMMA PollRetires ==
    ASSUME FlipInv, itcm
    PROVE  [Buffer!Next]_(Buffer!vars)
<1> DEFINE seen == newFrame \/ unseen
           finish == flip = "latched" \/ Latches(seen)
<1>1. UNCHANGED <<live, detach>> /\ detach = "running" /\ pc = "idle" /\ Lit
  BY DEF itcm, Callable, Attached, Lit
<1>2. CASE finish
  <2>1. flip' = "completed" /\ front' = pending /\ pending' = NoResource
    BY <1>2 DEF itcm
  <2>2. Pending /\ live.r = pending /\ ~Pending'
    BY <1>1, <1>2, <2>1, LatchedShown DEF FlipInv, Plane, Latched, Latches, Pending
  <2>3. InFlight = live.r /\ InFlight' = "nothing"
    BY <1>1, <2>2 DEF InFlight
  <2>4. HeldNow' = {live.r} \ {NoResource}
    BY <2>1, <2>2 DEF HeldNow
  <2>5. Buffer!Retire
    BY <1>1, <2>3, <2>4 DEF Buffer!Retire, Buffer!Memory, InFlight, HeldNow, Attached
  <2>6. QED
    BY <2>5 DEF Buffer!Next
<1>3. CASE ~finish
  <2>1. UNCHANGED <<flip, front, pending>>
    BY <1>3 DEF itcm
  <2>2. QED
    BY <1>1, <2>1, Unseen
<1>4. QED
  BY <1>2, <1>3

\* The stop call detaches, then abandons the update; only from a dark plane
\* does it let the memory go.
LEMMA StopAbandons ==
    ASSUME FlipInv, StopStep
    PROVE  [Buffer!Next]_(Buffer!vars)
<1>1. CASE stopBegin
  <2>1. /\ detach = "running" /\ detach' = "disable"
        /\ UNCHANGED <<live, flip, front, pending>>
    BY <1>1 DEF stopBegin, Detached
  <2>2. InFlight' = InFlight /\ HeldNow' = HeldNow /\ Attached /\ ~Attached'
    BY <2>1 DEF InFlight, HeldNow, Attached, Pending
  <2>3. Buffer!Detach
    BY <2>1, <2>2 DEF Buffer!Detach, InFlight, HeldNow
  <2>4. QED
    BY <2>3 DEF Buffer!Next
<1>2. CASE stopDisable \/ stopTimeout
  <2>1. /\ detach \in {"disable", "wait"} /\ detach' \in {"wait", "clear"}
        /\ UNCHANGED <<live, flip, front, pending>>
    BY <1>2 DEF stopDisable, stopTimeout, Detached
  <2>2. HeldNow' = HeldNow /\ ~Attached /\ Attached' = Attached
    BY <2>1 DEF HeldNow, Attached
  <2>3. CASE detach' = "wait"
    <3>1. InFlight' = InFlight
      BY <2>1, <2>3 DEF InFlight, Pending
    <3>2. QED
      BY <2>1, <2>2, <3>1 DEF Buffer!vars, InFlight, HeldNow
  <2>4. CASE detach' = "clear"
    <3>1. InFlight' = "nothing"
      BY <2>4 DEF InFlight
    <3>2. Buffer!Abandon
      BY <2>1, <2>2, <3>1 DEF Buffer!Abandon, InFlight, HeldNow
    <3>3. QED
      BY <3>2 DEF Buffer!Next
  <2>5. QED
    BY <2>1, <2>3, <2>4
<1>3. CASE stopRelease
  <2>1. /\ detach = "wait" /\ detach' = "clear" /\ live.base = NoBase
        /\ front' = NoResource /\ pending' = NoResource /\ UNCHANGED live
    BY <1>3 DEF stopRelease, Detached
  <2>2. InFlight' = "nothing" /\ HeldNow' = {} /\ ~Attached /\ Attached' = Attached
    BY <2>1 DEF InFlight, HeldNow, Attached
  <2>3. live.r = NoResource
    <3>1. SUFFICES ASSUME live.r # NoResource PROVE FALSE
      OBVIOUS
    <3>2. live.r \in Resources /\ mapping[live.r] = [base |-> NoBase, sound |-> TRUE]
      BY <2>1, <3>1, RegistersOwned
    <3>3. QED
      BY <3>2, BasesAssumption DEF FlipInv, TypeOK, Mappings, Unmapped
  <2>4. Buffer!Abandon
    BY <2>1, <2>2, <2>3 DEF Buffer!Abandon, InFlight, HeldNow
  <2>5. QED
    BY <2>4 DEF Buffer!Next
<1>4. CASE stopClear
  <2>1. /\ detach = "clear" /\ detach' = "stopped" /\ UNCHANGED <<live, flip, front, pending>>
    BY <1>4 DEF stopClear, Detached
  <2>2. QED
    BY <2>1 DEF Buffer!vars, Attached
<1>5. QED
  BY <1>1, <1>2, <1>3, <1>4 DEF StopStep

\* Every step of the plane is a step of the double buffer or none.
LEMMA StepsAsBuffer == FlipInv /\ [Next]_vars => [Buffer!Next]_(Buffer!vars)
<1> SUFFICES ASSUME FlipInv, [Next]_vars PROVE [Buffer!Next]_(Buffer!vars)
  OBVIOUS
<1>1. CASE NativeStep
  <2>1. UNCHANGED <<live, front, pending, flip, detach>>
    BY <1>1 DEF NativeStep, NativePrepare, NativeComplete
  <2>2. QED
    BY <2>1, Unseen
<1>2. CASE VerticalBlank
  BY <1>2, BlankShows
<1>3. ASSUME NEW r \in Resources, NEW va \in Bases, flipSurface(r, va)
      PROVE  [Buffer!Next]_(Buffer!vars)
  <2>1. Callable /\ ~Pending /\ UNCHANGED <<live, front, detach>>
    BY <1>3 DEF flipSurface
  <2>2. CASE Arm(r, va)
    BY <2>1, <2>2, ArmSubmits
  <2>3. CASE UNCHANGED <<flipVars, pending, pc>>
    BY <2>1, <2>3, Unseen
  <2>4. QED
    BY <1>3, <2>2, <2>3, FlipEffect DEF FlipInv
<1>4. CASE flipDisable
  <2>1. Callable /\ ~Pending /\ Arm(NoResource, NoBase) /\ UNCHANGED <<live, front, detach>>
    BY <1>4 DEF flipDisable
  <2>2. QED
    BY <2>1, ArmSubmits
<1>5. CASE WritePlane \/ \E b \in BOOLEAN : setOptimize(b)
  <2>1. UNCHANGED <<live, front, pending, flip, detach>>
    BY <1>5 DEF WritePlane, setOptimize
  <2>2. QED
    BY <2>1, Unseen
<1>6. CASE itcm
  BY <1>6, PollRetires
<1>7. CASE tick
  <2>1. UNCHANGED <<live, front, pending, detach>> /\ Pending' = Pending
    BY <1>7 DEF tick, observeScanout, Latches, Pending
  <2>2. QED
    BY <2>1 DEF Buffer!vars, Attached
<1>8. CASE StopStep
  BY <1>8, StopAbandons
<1>9. CASE UNCHANGED vars
  BY <1>9, Unseen
<1>10. QED
  BY <1>1, <1>2, <1>3, <1>4, <1>5, <1>6, <1>7, <1>8, <1>9 DEF Next, FlipStep

\* The framebuffer's plane implements a double buffer: one surface on screen,
\* at most one next, and the memory of both held until the old one has left.
THEOREM PlaneIsDoubleBuffer == Spec => BufferSpec
<1>1. Init => Buffer!Init
  BY DEF Init, Buffer!Init, Pending, Attached
<1>2. QED
  BY <1>1, FlipInvHolds, StepsAsBuffer, PTL DEF Spec, BufferSpec, Buffer!Spec

\* The memory of what is on screen is held by the driver, before, during and
\* after the stop call (142-160, 373-390).
THEOREM ShownIsKept == Spec => []Buffer!ShownIsHeld
<1>1. FlipInv => Buffer!ShownIsHeld
  BY RegistersOwned DEF Buffer!ShownIsHeld, Buffer!Memory
<1>2. QED
  BY <1>1, FlipInvHolds, PTL
=============================================================================
