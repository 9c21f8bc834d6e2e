---------------------------- MODULE Observer_proofs ----------------------------
(***************************************************************************)
(* Proofs about Observer for every organization, catalog, page size, retry *)
(* budget and number of changes while it is observed.                      *)
(***************************************************************************)
EXTENDS Observer, FiniteSetTheorems, SequenceTheorems, TLAPS

-----------------------------------------------------------------------------
(* The listing: no repository is listed twice at one moment.               *)

\* A listing of n repositories names n repositories.
LEMMA ListingCount ==
  ASSUME NEW s \in Seq(Repo), IsInjective(s)
  PROVE  IsFiniteSet(Range(s)) /\ Cardinality(Range(s)) = Len(s)
<1>1. Len(s) \in Nat
  OBVIOUS
<1>2. s \in Bijection(1..Len(s), Range(s))
  <2>1. s \in [1..Len(s) -> Range(s)]
    BY DEF Range
  <2>2. DOMAIN s = 1..Len(s)
    OBVIOUS
  <2>3. QED
    BY <2>1, <2>2, Zenon DEF Bijection, Injection, Surjection, Range
<1>3. ExistsBijection(1..Len(s), Range(s))
  BY <1>2 DEF ExistsBijection
<1>4. IsFiniteSet(1..Len(s)) /\ Cardinality(1..Len(s)) = Len(s)
  BY <1>1, FS_Interval
<1>5. QED
  BY <1>3, <1>4, FS_Bijection

\* A part of a listing.
LEMMA ListingPart ==
  ASSUME NEW s \in Seq(Repo), NEW m \in 1..(Len(s) + 1), NEW n \in (m - 1)..Len(s)
  PROVE  /\ SubSeq(s, m, n) \in Seq(Repo) /\ Len(SubSeq(s, m, n)) = n - m + 1
         /\ \A i \in 1..(n - m + 1) : SubSeq(s, m, n)[i] = s[m + i - 1]
<1>1. m \in Int /\ n \in Int /\ \A i \in m..n : s[i] \in Repo
  OBVIOUS
<1>2. /\ SubSeq(s, m, n) \in Seq(Repo)
      /\ Len(SubSeq(s, m, n)) = IF m <= n THEN n - m + 1 ELSE 0
      /\ \A i \in 1..(n - m + 1) : SubSeq(s, m, n)[i] = s[m + i - 1]
  BY <1>1, SubSeqProperties
<1>3. QED
  BY <1>1, <1>2

\* A new repository, wherever it appears, is listed once.
LEMMA ListingInsert ==
  ASSUME NEW s \in Seq(Repo), IsInjective(s), NEW r \in Repo \ Range(s), NEW k \in 0..Len(s)
  PROVE  /\ With(s, k, r) \in Seq(Repo) /\ IsInjective(With(s, k, r))
         /\ Range(s) \subseteq Range(With(s, k, r))
<1> DEFINE u == With(s, k, r)
           p == SubSeq(s, 1, k)
           q == SubSeq(s, k + 1, Len(s))
<1>1. Len(s) \in Nat /\ DOMAIN s = 1..Len(s) /\ k \in Nat
  OBVIOUS
<1>2. p \in Seq(Repo) /\ Len(p) = k /\ \A i \in 1..k : p[i] = s[i]
  BY <1>1, ListingPart
<1>3. q \in Seq(Repo) /\ Len(q) = Len(s) - k /\ \A i \in 1..(Len(s) - k) : q[i] = s[k + i]
  <2>1. k + 1 \in 1..(Len(s) + 1) /\ Len(s) \in ((k + 1) - 1)..Len(s)
    BY <1>1
  <2>2. /\ q \in Seq(Repo) /\ Len(q) = Len(s) - (k + 1) + 1
        /\ \A i \in 1..(Len(s) - (k + 1) + 1) : q[i] = s[(k + 1) + i - 1]
    BY <2>1, ListingPart
  <2>3. Len(s) - (k + 1) + 1 = Len(s) - k
    BY <1>1
  <2>4. ASSUME NEW i \in 1..(Len(s) - k) PROVE q[i] = s[k + i]
    <3>1. (k + 1) + i - 1 = k + i
      BY <1>1
    <3>2. q[i] = s[(k + 1) + i - 1]
      BY <2>2, <2>3
    <3>3. QED
      BY <3>1, <3>2
  <2>5. QED
    BY <2>2, <2>3, <2>4
<1> HIDE DEF u, p, q
<1>4. /\ p \o <<r>> \in Seq(Repo) /\ Len(p \o <<r>>) = k + 1
      /\ \A i \in 1..(k + 1) : (p \o <<r>>)[i] = IF i <= k THEN s[i] ELSE r
  BY <1>1, <1>2
<1>5. /\ u \in Seq(Repo) /\ Len(u) = Len(s) + 1 /\ DOMAIN u = 1..Len(u)
      /\ \A i \in 1..Len(u) : u[i] = IF i <= k THEN s[i] ELSE IF i = k + 1 THEN r ELSE s[i - 1]
  <2>1. u = (p \o <<r>>) \o q
    BY DEF u, p, q, With
  <2>2. /\ u \in Seq(Repo) /\ Len(u) = (k + 1) + (Len(s) - k)
        /\ \A i \in 1..((k + 1) + (Len(s) - k)) :
             u[i] = IF i <= k + 1 THEN (p \o <<r>>)[i] ELSE q[i - (k + 1)]
    <3>1. p \o <<r>> \in Seq(Repo) /\ q \in Seq(Repo)
      BY <1>3, <1>4
    <3>2. Len(p \o <<r>>) = k + 1 /\ Len(q) = Len(s) - k
      BY <1>3, <1>4
    <3>3. /\ u \in Seq(Repo) /\ Len(u) = Len(p \o <<r>>) + Len(q)
          /\ \A i \in 1..(Len(p \o <<r>>) + Len(q)) :
               u[i] = IF i <= Len(p \o <<r>>) THEN (p \o <<r>>)[i] ELSE q[i - Len(p \o <<r>>)]
      BY ONLY <2>1, <3>1, ConcatProperties, Zenon
    <3>4. QED
      BY <3>2, <3>3, Zenon
  <2>3. Len(u) = Len(s) + 1 /\ DOMAIN u = 1..Len(u)
    BY <2>2, <1>1
  <2>4. ASSUME NEW i \in 1..Len(u)
        PROVE  u[i] = IF i <= k THEN s[i] ELSE IF i = k + 1 THEN r ELSE s[i - 1]
    <3>1. CASE i <= k + 1
      BY <1>1, <1>4, <2>2, <2>3, <3>1
    <3>2. CASE i > k + 1
      <4>1. i - (k + 1) \in 1..(Len(s) - k) /\ k + (i - (k + 1)) = i - 1
        BY <1>1, <2>3, <3>2
      <4>2. u[i] = q[i - (k + 1)]
        BY <1>1, <2>2, <2>3, <3>2
      <4>3. QED
        BY <1>1, <1>3, <3>2, <4>1, <4>2
    <3>3. QED
      BY <1>1, <2>3, <3>1, <3>2
  <2>5. QED
    BY <2>2, <2>3, <2>4
<1>6. \A i \in 1..Len(s) : s[i] # r
  BY <1>1 DEF Range
<1>7. IsInjective(u)
  <2> SUFFICES ASSUME NEW i \in 1..Len(u), NEW j \in 1..Len(u), u[i] = u[j] PROVE i = j
    BY <1>5 DEF IsInjective
  <2>1. \A x, y \in 1..Len(s) : s[x] = s[y] => x = y
    BY <1>1 DEF IsInjective
  <2>2. QED
    BY <1>1, <1>5, <1>6, <2>1
<1>8. ASSUME NEW i \in 1..Len(s) PROVE s[i] \in Range(u)
  <2>1. CASE i <= k
    BY <1>1, <1>5, <2>1 DEF Range
  <2>2. CASE i > k
    <3>1. i + 1 \in 1..Len(u) /\ u[i + 1] = s[i]
      BY <1>1, <1>5, <2>2
    <3>2. QED
      BY <1>5, <3>1 DEF Range
  <2>3. QED
    BY <1>1, <2>1, <2>2
<1>9. Range(s) \subseteq Range(u)
  BY <1>1, <1>8 DEF Range
<1>10. QED
  BY <1>5, <1>7, <1>9 DEF u

\* Without one of its repositories a listing names all the others.
LEMMA ListingRemove ==
  ASSUME NEW s \in Seq(Repo), IsInjective(s), NEW k \in 1..Len(s)
  PROVE  /\ Without(s, k) \in Seq(Repo) /\ IsInjective(Without(s, k))
         /\ Range(s) \ {s[k]} \subseteq Range(Without(s, k))
<1> DEFINE u == Without(s, k)
           p == SubSeq(s, 1, k - 1)
           q == SubSeq(s, k + 1, Len(s))
<1>1. Len(s) \in Nat /\ DOMAIN s = 1..Len(s) /\ k \in Nat
  OBVIOUS
<1>2. p \in Seq(Repo) /\ Len(p) = k - 1 /\ \A i \in 1..(k - 1) : p[i] = s[i]
  BY <1>1, ListingPart
<1>3. q \in Seq(Repo) /\ Len(q) = Len(s) - k /\ \A i \in 1..(Len(s) - k) : q[i] = s[k + i]
  <2>1. k + 1 \in 1..(Len(s) + 1) /\ Len(s) \in ((k + 1) - 1)..Len(s)
    BY <1>1
  <2>2. /\ q \in Seq(Repo) /\ Len(q) = Len(s) - (k + 1) + 1
        /\ \A i \in 1..(Len(s) - (k + 1) + 1) : q[i] = s[(k + 1) + i - 1]
    BY <2>1, ListingPart
  <2>3. Len(s) - (k + 1) + 1 = Len(s) - k
    BY <1>1
  <2>4. ASSUME NEW i \in 1..(Len(s) - k) PROVE q[i] = s[k + i]
    <3>1. (k + 1) + i - 1 = k + i
      BY <1>1
    <3>2. q[i] = s[(k + 1) + i - 1]
      BY <2>2, <2>3
    <3>3. QED
      BY <3>1, <3>2
  <2>5. QED
    BY <2>2, <2>3, <2>4
<1> HIDE DEF u, p, q
<1>4. /\ u \in Seq(Repo) /\ Len(u) = Len(s) - 1 /\ DOMAIN u = 1..Len(u)
      /\ \A i \in 1..Len(u) : u[i] = IF i < k THEN s[i] ELSE s[i + 1]
  <2>1. u = p \o q
    BY DEF u, p, q, Without
  <2>2. /\ u \in Seq(Repo) /\ Len(u) = (k - 1) + (Len(s) - k)
        /\ \A i \in 1..((k - 1) + (Len(s) - k)) :
             u[i] = IF i <= k - 1 THEN p[i] ELSE q[i - (k - 1)]
    <3>1. p \in Seq(Repo) /\ q \in Seq(Repo) /\ Len(p) = k - 1 /\ Len(q) = Len(s) - k
      BY <1>2, <1>3
    <3>2. /\ u \in Seq(Repo) /\ Len(u) = Len(p) + Len(q)
          /\ \A i \in 1..(Len(p) + Len(q)) :
               u[i] = IF i <= Len(p) THEN p[i] ELSE q[i - Len(p)]
      BY ONLY <2>1, <3>1, ConcatProperties, Zenon
    <3>3. QED
      BY <3>1, <3>2, Zenon
  <2>3. Len(u) = Len(s) - 1 /\ DOMAIN u = 1..Len(u)
    BY <2>2, <1>1
  <2>4. ASSUME NEW i \in 1..Len(u) PROVE u[i] = IF i < k THEN s[i] ELSE s[i + 1]
    <3>1. CASE i < k
      <4>1. i \in 1..(k - 1) /\ i \in 1..((k - 1) + (Len(s) - k)) /\ i <= k - 1
        BY <1>1, <2>3, <3>1
      <4>2. u[i] = p[i]
        BY <2>2, <4>1
      <4>3. QED
        BY <1>2, <3>1, <4>1, <4>2
    <3>2. CASE ~(i < k)
      <4>1. i - (k - 1) \in 1..(Len(s) - k) /\ k + (i - (k - 1)) = i + 1
        BY <1>1, <2>3, <3>2
      <4>2. u[i] = q[i - (k - 1)]
        BY <1>1, <2>2, <2>3, <3>2
      <4>3. QED
        BY <1>3, <3>2, <4>1, <4>2
    <3>3. QED
      BY <3>1, <3>2
  <2>5. QED
    BY <2>2, <2>3, <2>4
<1>5. IsInjective(u)
  <2> SUFFICES ASSUME NEW i \in 1..Len(u), NEW j \in 1..Len(u), u[i] = u[j] PROVE i = j
    BY <1>4 DEF IsInjective
  <2>1. \A x, y \in 1..Len(s) : s[x] = s[y] => x = y
    BY <1>1 DEF IsInjective
  <2>2. QED
    BY <1>1, <1>4, <2>1
<1>6. ASSUME NEW i \in 1..Len(s), i # k PROVE s[i] \in Range(u)
  <2>1. CASE i < k
    BY <1>1, <1>4, <2>1 DEF Range
  <2>2. CASE i > k
    <3>1. i - 1 \in 1..Len(u) /\ u[i - 1] = s[i]
      BY <1>1, <1>4, <2>2
    <3>2. QED
      BY <1>4, <3>1 DEF Range
  <2>3. QED
    BY <1>1, <1>6, <2>1, <2>2
<1>7. Range(s) \ {s[k]} \subseteq Range(u)
  BY <1>1, <1>6 DEF Range
<1>8. QED
  BY <1>4, <1>5, <1>7 DEF u

-----------------------------------------------------------------------------
(* The inductive invariant.                                                *)

\* The listing names repositories once; those never deleted are in it, and
\* were among the counted ones, of which the organization record gave the number.
ListingBound ==
  /\ repos \in Seq(Repo) /\ IsInjective(repos) /\ steady \subseteq Range(repos)
  /\ phase \in {"parts", "done"} =>
       IsFiniteSet(counted) /\ Cardinality(counted) = total /\ steady \subseteq counted

\* Read: a value that was live, or a setting that was not found.
Got(t) == seen[t] \in was[t] \/ (t.part \in EnabledPart /\ seen[t] = Absent)

\* What is live has been; what was read was live, unless it was not found.
ReadingBound ==
  \A t \in Target : live[t] \in was[t] /\ (seen[t] = Unknown \/ Got(t))

ReadingType ==
  live \in [Target -> Val] /\ was \in [Target -> SUBSET Val] /\ seen \in [Target -> Val \cup {Unknown}]

Inductive == ListingBound /\ ReadingType /\ ReadingBound

LEMMA InitInductive == Init => Inductive
<1> SUFFICES ASSUME Init PROVE Inductive
  OBVIOUS
<1>1. ListingBound
  BY ConstantsAssumption DEF Init, ListingBound
<1>2. \A t \in Target : Desired(t) \in Val
  BY ConstantsAssumption DEF Desired
<1>3. live \in [Target -> Val]
  BY <1>2, ConstantsAssumption DEF Init, Opposite
<1>4. ReadingType
  BY <1>3 DEF Init, ReadingType
<1>5. ReadingBound
  BY DEF Init, ReadingBound
<1>6. QED
  BY <1>1, <1>4, <1>5 DEF Inductive

LEMMA StepListing == Inductive /\ [Next]_vars => ListingBound'
<1> SUFFICES ASSUME ListingBound, [Next]_vars PROVE ListingBound'
  BY DEF Inductive
<1>1. ASSUME NEW t \in Target, NEW v \in Val, Edit(t, v) PROVE ListingBound'
  BY <1>1 DEF Edit, Disturb, ListingBound
<1>2. ASSUME NEW r \in Repo, NEW k \in 0..Len(repos), Create(r, k) PROVE ListingBound'
  <2>1. repos' \in Seq(Repo) /\ IsInjective(repos') /\ Range(repos) \subseteq Range(repos')
    BY <1>2, ListingInsert DEF ListingBound, Create
  <2>2. QED
    BY <1>2, <2>1 DEF Create, Disturb, ListingBound
<1>3. ASSUME NEW k \in DOMAIN repos, Delete(k) PROVE ListingBound'
  <2>1. k \in 1..Len(repos)
    BY DEF ListingBound
  <2>2. /\ repos' \in Seq(Repo) /\ IsInjective(repos')
        /\ Range(repos) \ {repos[k]} \subseteq Range(repos')
    BY <1>3, <2>1, ListingRemove DEF ListingBound, Delete
  <2>3. QED
    BY <1>3, <2>2 DEF Delete, Disturb, ListingBound
<1>4. CASE ReadOrganization
  <2>1. IsFiniteSet(Range(repos)) /\ Cardinality(Range(repos)) = Len(repos)
    BY ListingCount DEF ListingBound
  <2>2. QED
    BY <1>4, <2>1 DEF ReadOrganization, NextRead, world, ListingBound
<1>5. CASE ReadPage
  BY <1>5 DEF ReadPage, AtList, NextRead, world, ListingBound
<1>6. CASE ReadPart
  BY <1>6 DEF ReadPart, NextRead, world, ListingBound
<1>6a. CASE NotFound
  BY <1>6a DEF NotFound, NextRead, world, ListingBound
<1>7. CASE GiveUp /\ phase = "parts"
  BY <1>7 DEF GiveUp, NextRead, world, ListingBound
<1>8. CASE GiveUp /\ phase # "parts"
  BY <1>8 DEF GiveUp, NextRead, world, ListingBound
<1>9. CASE Retry
  BY <1>9 DEF Retry, world, ListingBound
<1>10. CASE Finish
  BY <1>10 DEF Finish, world, ListingBound
<1>11. CASE UNCHANGED vars
  BY <1>11 DEF vars, world, ListingBound
<1>12. QED
  BY <1>1, <1>2, <1>3, <1>4, <1>5, <1>6, <1>7, <1>8, <1>9, <1>10, <1>11, <1>6a DEF Next, Observe

LEMMA StepReading == Inductive /\ [Next]_vars => ReadingType' /\ ReadingBound'
<1> SUFFICES ASSUME ReadingType, ReadingBound, [Next]_vars PROVE ReadingType' /\ ReadingBound'
  BY DEF Inductive
<1>1. ASSUME NEW t \in Target, NEW v \in Val, Edit(t, v) PROVE ReadingType' /\ ReadingBound'
  BY <1>1 DEF Edit, Disturb, ReadingType, ReadingBound, Got
<1>2. ASSUME NEW r \in Repo, NEW k \in 0..Len(repos), Create(r, k) PROVE ReadingType' /\ ReadingBound'
  BY <1>2 DEF Create, Disturb, ReadingType, ReadingBound, Got
<1>3. ASSUME NEW k \in DOMAIN repos, Delete(k) PROVE ReadingType' /\ ReadingBound'
  BY <1>3 DEF Delete, Disturb, ReadingType, ReadingBound, Got
<1>4. CASE ReadPart
  <2>1. UNCHANGED <<live, was>>
    BY <1>4 DEF ReadPart, NextRead, world
  <2>2. PICK h : seen' = [seen EXCEPT ![h] = live[h]]
    BY <1>4 DEF ReadPart
  <2>3. QED
    BY <2>1, <2>2 DEF ReadingType, ReadingBound, Got
<1>5. CASE ReadOrganization \/ ReadPage \/ GiveUp \/ Retry \/ Finish \/ UNCHANGED vars
  <2>1. UNCHANGED <<live, was, seen>>
    BY <1>5 DEF ReadOrganization, ReadPage, GiveUp, Retry, Finish, NextRead, vars, world
  <2>2. QED
    BY <2>1 DEF ReadingType, ReadingBound, Got
<1>6. CASE NotFound
  <2>1. UNCHANGED <<live, was>> /\ Head(todo).part \in EnabledPart
    BY <1>6 DEF NotFound, NextRead, world
  <2>2. seen' = [seen EXCEPT ![Head(todo)] = Absent]
    BY <1>6 DEF NotFound
  <2>3. QED
    BY <2>1, <2>2, ConstantsAssumption DEF ReadingType, ReadingBound, Got
<1>7. QED
  BY <1>1, <1>2, <1>3, <1>4, <1>5, <1>6 DEF Next, Observe

\* The listing and what was read of it stay within bounds, however the
\* organization changes while it is read.
THEOREM ObserverInductive == Spec => []Inductive
<1>1. Inductive /\ [Next]_vars => Inductive'
  BY StepListing, StepReading DEF Inductive
<1>2. QED
  BY <1>1, InitInductive, PTL DEF Spec

-----------------------------------------------------------------------------
(* The inventory and the report.                                           *)

\* A complete inventory misses no repository that was there all along: it
\* names as many as were counted, so naming only counted ones it names all.
THEOREM CompleteInventories == Spec => []CompleteInventoryMissesNothing
<1>1. Inductive => CompleteInventoryMissesNothing
  <2> SUFFICES ASSUME ListingBound, phase = "done", InventoryComplete, Range(listed) \subseteq counted
               PROVE  steady \subseteq Range(listed)
    BY DEF Inductive, CompleteInventoryMissesNothing
  <2>1. IsFiniteSet(counted) /\ Cardinality(Range(listed)) = Cardinality(counted) /\ steady \subseteq counted
    BY DEF ListingBound, InventoryComplete
  <2>2. Range(listed) = counted
    BY <2>1, FS_Subset
  <2>3. QED
    BY <2>1, <2>2
<1>2. QED
  BY <1>1, ObserverInductive, PTL

-----------------------------------------------------------------------------
(* What is left to read.                                                   *)

Enumeration == At(Org, "repositories")
Read == Target \cup {Enumeration}

\* Elements of a sequence, of its tail and of a concatenation.
LEMMA InTail ==
  ASSUME NEW S, NEW s \in Seq(S), s # <<>>
  PROVE  /\ Tail(s) \in Seq(S) /\ Head(s) \in Range(s)
         /\ \A t \in Range(s) : t = Head(s) \/ t \in Range(Tail(s))
         /\ Range(Tail(s)) \subseteq Range(s)
<1>1. /\ Len(s) \in Nat /\ DOMAIN s = 1..Len(s) /\ Len(s) > 0 /\ Head(s) = s[1]
  OBVIOUS
<1>2. /\ Tail(s) \in Seq(S) /\ Len(Tail(s)) = Len(s) - 1 /\ DOMAIN Tail(s) = 1..(Len(s) - 1)
      /\ \A i \in 1..(Len(s) - 1) : Tail(s)[i] = s[i + 1]
  BY <1>1, HeadTailProperties
<1>3. ASSUME NEW i \in 1..Len(s), i # 1 PROVE s[i] \in Range(Tail(s))
  <2>1. i - 1 \in 1..(Len(s) - 1) /\ Tail(s)[i - 1] = s[i]
    BY <1>1, <1>2, <1>3
  <2>2. QED
    BY <1>2, <2>1 DEF Range
<1>4. QED
  BY <1>1, <1>2, <1>3 DEF Range

LEMMA InConcat ==
  ASSUME NEW S, NEW s \in Seq(S), NEW u \in Seq(S)
  PROVE  s \o u \in Seq(S) /\ Range(s) \cup Range(u) \subseteq Range(s \o u)
<1>1. /\ Len(s) \in Nat /\ Len(u) \in Nat /\ DOMAIN s = 1..Len(s) /\ DOMAIN u = 1..Len(u)
  OBVIOUS
<1>2. /\ s \o u \in Seq(S) /\ DOMAIN (s \o u) = 1..(Len(s) + Len(u))
      /\ \A i \in 1..(Len(s) + Len(u)) : (s \o u)[i] = IF i <= Len(s) THEN s[i] ELSE u[i - Len(s)]
  BY ConcatProperties
<1>3. ASSUME NEW i \in 1..Len(s) PROVE s[i] \in Range(s \o u)
  <2>1. i \in 1..(Len(s) + Len(u)) /\ (s \o u)[i] = s[i]
    BY <1>1, <1>2
  <2>2. QED
    BY <1>2, <2>1 DEF Range
<1>4. ASSUME NEW i \in 1..Len(u) PROVE u[i] \in Range(s \o u)
  <2>1. Len(s) + i \in 1..(Len(s) + Len(u)) /\ (s \o u)[Len(s) + i] = u[i]
    BY <1>1, <1>2
  <2>2. QED
    BY <1>2, <2>1 DEF Range
<1>5. QED
  BY <1>1, <1>2, <1>3, <1>4 DEF Range

\* Rows of n places: the place i - 1 is in the row (i - 1) \div n.
LEMMA Row ==
  ASSUME NEW n \in Nat, n > 0, NEW a \in Nat, NEW b \in 0..(n - 1)
  PROVE  (a * n + b) \div n = a /\ (a * n + b) % n = b
<1>1. (a * n + b) \div n = a
  OBVIOUS
<1>2. (a * n + b) % n = b
  OBVIOUS
<1>3. QED
  BY <1>1, <1>2

LEMMA Place ==
  ASSUME NEW n \in Nat, n > 0, NEW m \in Nat, NEW a \in 0..(m - 1), NEW b \in 0..(n - 1)
  PROVE  a * n + b + 1 \in 1..(n * m)
OBVIOUS

LEMMA InRow ==
  ASSUME NEW n \in Nat, NEW m \in Nat, NEW i \in 1..(n * m)
  PROVE  n > 0 /\ (i - 1) \div n \in 0..(m - 1) /\ (i - 1) % n \in 0..(n - 1)
<1>1. n > 0
  <2>1. CASE n = 0
    BY <2>1
  <2>2. QED
    BY <2>1
<1>2. (i - 1) % n \in 0..(n - 1)
  BY <1>1
<1>3. (i - 1) \div n \in Nat
  BY <1>1
<1>4. (i - 1) \div n < m
  <2>1. i - 1 = n * ((i - 1) \div n) + ((i - 1) % n)
    BY <1>1
  <2>2. n * ((i - 1) \div n) < n * m
    BY <1>1, <1>2, <1>3, <2>1
  <2>3. QED
    BY <1>1, <1>3, <2>2
<1>5. QED
  BY <1>1, <1>2, <1>3, <1>4

\* The details are read of exactly the declared repositories that were listed,
\* every part of each.
LEMMA DetailsAll ==
  ASSUME NEW names, names \subseteq Repo
  PROVE  /\ Details(names) \in Seq(Target)
         /\ scope = "full" =>
              \A r \in Declared \cap names, p \in RepoPart : At(r, p) \in Range(Details(names))
<1> DEFINE each == IF scope = "full" THEN Declared \cap names ELSE {}
           sorted == CHOOSE s \in [1..Cardinality(each) -> each] : Range(s) = each
           n == Len(RepoOrder)
           d == Details(names)
<1>1. each \subseteq Repo /\ IsFiniteSet(each)
  BY ConstantsAssumption, FS_Subset
<1>2. Cardinality(each) \in Nat /\ \E s \in [1..Cardinality(each) -> each] : Range(s) = each
  <2>1. Cardinality(each) \in Nat /\ ExistsBijection(1..Cardinality(each), each)
    BY <1>1, FS_CardinalityType
  <2>2. PICK s \in Bijection(1..Cardinality(each), each) : TRUE
    BY <2>1 DEF ExistsBijection
  <2>3. s \in [1..Cardinality(each) -> each] /\ Range(s) = each
    BY <2>2 DEF Bijection, Injection, Surjection, Range
  <2>4. QED
    BY <2>1, <2>3
<1> HIDE DEF each
<1>3. sorted \in [1..Cardinality(each) -> each] /\ Range(sorted) = each
  BY <1>2
<1> HIDE DEF sorted
<1>4. sorted \in Seq(each) /\ Len(sorted) = Cardinality(each)
  BY <1>2, <1>3
<1>5. n \in Nat /\ DOMAIN RepoOrder = 1..n
  BY ConstantsAssumption
<1>6. d = [i \in 1..(n * Len(sorted)) |-> At(sorted[((i - 1) \div n) + 1], RepoOrder[((i - 1) % n) + 1])]
  BY DEF Details, each, sorted
<1> HIDE DEF d, n
<1>7. Len(sorted) \in Nat /\ n * Len(sorted) \in Nat
  BY <1>4, <1>5
<1>8. ASSUME NEW i \in 1..(n * Len(sorted)) PROVE d[i] \in Target
  <2>1. /\ n > 0 /\ (i - 1) \div n \in 0..(Len(sorted) - 1) /\ (i - 1) % n \in 0..(n - 1)
    BY <1>5, <1>7, InRow
  <2>2. ((i - 1) \div n) + 1 \in 1..Cardinality(each) /\ ((i - 1) % n) + 1 \in 1..n
    BY <1>4, <1>5, <1>7, <2>1
  <2>3. sorted[((i - 1) \div n) + 1] \in Repo /\ RepoOrder[((i - 1) % n) + 1] \in RepoPart
    BY <1>1, <1>3, <1>5, <2>2 DEF RepoPart, Range
  <2>4. QED
    BY <1>6, <2>3 DEF Target, At
<1>9. d \in Seq(Target)
  <2>1. DOMAIN d = 1..(n * Len(sorted))
    BY <1>6
  <2>2. QED
    BY <1>6, <1>7, <1>8, <2>1
<1>10. ASSUME scope = "full", NEW r \in Declared \cap names, NEW p \in RepoPart
       PROVE  At(r, p) \in Range(d)
  <2>1. r \in each
    BY <1>10 DEF each
  <2>2. PICK k \in 1..Len(sorted) : sorted[k] = r
    BY <1>3, <1>4, <2>1 DEF Range
  <2>3. PICK j \in 1..n : RepoOrder[j] = p
    BY <1>5 DEF RepoPart, Range
  <2>4. k - 1 \in Nat /\ k - 1 \in 0..(Len(sorted) - 1) /\ j - 1 \in 0..(n - 1) /\ n > 0
    BY <1>5, <1>7
  <2> DEFINE i == (k - 1) * n + (j - 1) + 1
  <2>5. i \in 1..(n * Len(sorted))
    BY <1>5, <1>7, <2>4, Place
  <2>6. i - 1 = (k - 1) * n + (j - 1)
    BY <1>5, <1>7
  <2>7. ((k - 1) * n + (j - 1)) \div n = k - 1 /\ ((k - 1) * n + (j - 1)) % n = j - 1
    BY <1>5, <2>4, Row
  <2>8. (i - 1) \div n = k - 1 /\ (i - 1) % n = j - 1
    BY <2>6, <2>7
  <2> HIDE DEF i
  <2>9. d[i] = At(sorted[(k - 1) + 1], RepoOrder[(j - 1) + 1])
    BY <1>6, <2>5, <2>8
  <2>10. d[i] = At(r, p)
    BY <2>2, <2>3, <2>9
  <2>11. QED
    BY <1>6, <2>5, <2>10 DEF Range
<1>11. QED
  BY <1>9, <1>10 DEF d

\* A page of the listing names repositories.
LEMMA PageType == ASSUME repos \in Seq(Repo), NEW k \in Nat \ {0} PROVE Page(k) \in Seq(Repo)
<1> DEFINE m == (k - 1) * PageSize + 1
           n == Least(k * PageSize, Len(repos))
<1>1. (k - 1) * PageSize \in Nat /\ k * PageSize \in Nat /\ Len(repos) \in Nat
  BY ConstantsAssumption
<1>2. m \in Int /\ m >= 1 /\ n \in Int /\ n <= Len(repos)
  BY <1>1 DEF Least
<1> HIDE DEF m, n
<1>3. \A i \in m..n : repos[i] \in Repo
  BY <1>1, <1>2
<1>4. SubSeq(repos, m, n) \in Seq(Repo)
  BY <1>2, <1>3, SubSeqProperties
<1>5. QED
  BY <1>4 DEF Page, m, n

-----------------------------------------------------------------------------
(* The type invariant, and what is left of the parts.                      *)

ObserverInv == Inductive /\ ObserverTypeOK /\ todo \in Seq(Read)

\* The waits are natural numbers.
LEMMA Waits == ASSUME NEW n \in Nat \ {0}, NEW d \in Delays(n) PROVE d \in Nat
<1>1. 2^(n - 1) \in Int
  <2>1. n - 1 \in Nat
    OBVIOUS
  <2>2. QED
    BY <2>1, SMT
<1>2. Backoff(n) \in Int
  <2>1. RetryBase * 2^(n - 1) \in Int /\ RetryMaximum \in Int
    BY <1>1, ConstantsAssumption
  <2>2. QED
    BY <2>1 DEF Backoff, Least
<1>3. PICK j \in 0..(Backoff(n) \div 2), told \in 0..MaxInstructed :
        d = Greatest(Backoff(n) + j, told)
  BY DEF Delays
<1>4. j \in Int /\ told \in Nat
  BY <1>2, <1>3, ConstantsAssumption
<1>5. QED
  BY <1>2, <1>3, <1>4 DEF Greatest

LEMMA ObserverStart == Init => ObserverInv
<1> SUFFICES ASSUME Init PROVE ObserverInv
  OBVIOUS
<1>1. Inductive
  BY InitInductive
<1>2. Order \in Seq(FatalPart \cup SoftPart \cup {"repositories"}) /\ Len(Order) \in Nat
      /\ DOMAIN Order = 1..Len(Order)
  BY ConstantsAssumption
<1>3. ASSUME NEW i \in 1..Len(Order) PROVE At(Org, Order[i]) \in Read
  <2>1. Order[i] \in Range(Order)
    BY <1>2 DEF Range
  <2>2. QED
    BY <2>1 DEF Read, Enumeration, At, Target, OrgPart
<1>4. todo \in Seq(Read)
  <2>1. todo = [i \in 1..Len(Order) |-> At(Org, Order[i])]
    BY <1>2 DEF Init
  <2>2. QED
    BY <1>2, <1>3, <2>1
<1>5. \A t \in Range(todo) : t \in Target \/ t = At(Org, "repositories")
  BY <1>4 DEF Range, Read, Enumeration
<1>6. repos \in Seq(Repo) /\ Range(repos) \subseteq Repo
  BY <1>1 DEF Inductive, ListingBound, Range
<1>7. attempt \in 1..MaxReadAttempts /\ waited \in 0..RetryBudget /\ page \in 1..MaxPages
  BY ConstantsAssumption DEF Init
<1>8. ObserverTypeOK
  BY <1>1, <1>5, <1>6, <1>7, ConstantsAssumption DEF Init, ObserverTypeOK, Inductive, ReadingType, Scope
<1>9. QED
  BY <1>1, <1>4, <1>8 DEF ObserverInv

\* The value counted, and the histories, stay within the repositories.
LEMMA StepWorldType ==
  ASSUME ObserverInv,
         \/ \E t \in Target, v \in Val : Edit(t, v)
         \/ \E r \in Repo, k \in 0..Len(repos) : Create(r, k)
         \/ \E k \in DOMAIN repos : Delete(k)
  PROVE  ObserverTypeOK' /\ (todo \in Seq(Read))'
<1>1. /\ UNCHANGED <<scope, todo, phase, attempt, waited, total, page, listed, seen, errors, counted>>
      /\ events > 0 /\ events' = events - 1
  BY DEF Edit, Create, Delete, Disturb
<1>2. events' \in Nat
  BY <1>1 DEF ObserverInv, ObserverTypeOK
<1>3. steady' \subseteq Repo
  BY DEF Edit, Create, Delete, ObserverInv, ObserverTypeOK
<1>4. Inductive'
  BY StepListing, StepReading DEF Next, ObserverInv, Inductive
<1>5. QED
  BY <1>1, <1>2, <1>3, <1>4 DEF ObserverInv, ObserverTypeOK, Inductive, ListingBound, ReadingType

\* A read, done, tried again or given up, leaves a part of what was to be read.
LEMMA StepReadType ==
  ASSUME ObserverInv, Observe
  PROVE  ObserverTypeOK' /\ (todo \in Seq(Read))'
<1>1. Inductive'
  BY StepListing, StepReading DEF Next, ObserverInv, Inductive
<1>2. UNCHANGED <<repos, live, events, scope, steady, was>>
  BY DEF Observe, ReadOrganization, ReadPage, ReadPart, NotFound, GiveUp, Retry, Finish, NextRead, world
<1>3. /\ todo \in Seq(Read) /\ repos \in Seq(Repo) /\ Range(repos) \subseteq Repo /\ Len(repos) \in Nat
      /\ page \in 1..MaxPages /\ page \in Nat \ {0} /\ attempt \in 1..MaxReadAttempts
      /\ waited \in 0..RetryBudget /\ listed \in Seq(Repo)
  BY ConstantsAssumption DEF ObserverInv, ObserverTypeOK, Range
<1>4. 1 \in 1..MaxReadAttempts /\ 0 \in 0..RetryBudget
  BY ConstantsAssumption
<1>5. /\ attempt' \in 1..MaxReadAttempts /\ waited' \in 0..RetryBudget
  <2>1. CASE Retry
    <3>1. PICK d \in Delays(attempt) : waited + d <= RetryBudget /\ waited' = waited + d
      BY <2>1 DEF Retry, Within
    <3>2. d \in Nat
      BY <1>3, Waits
    <3>3. attempt' \in 1..MaxReadAttempts
      BY <1>3, <2>1, ConstantsAssumption DEF Retry
    <3>4. waited' \in 0..RetryBudget
      BY <1>3, <3>1, <3>2, ConstantsAssumption
    <3>5. QED
      BY <3>3, <3>4
  <2>2. CASE ~Retry
    BY <1>3, <1>4, <2>2 DEF Observe, ReadOrganization, ReadPage, ReadPart, NotFound, GiveUp, Finish, NextRead
  <2>3. QED
    BY <2>1, <2>2
<1>6. listed' \in Seq(Repo)
  <2>1. CASE ReadPage
    <3>1. Page(page) \in Seq(Repo)
      BY <1>3, PageType
    <3>2. listed' = (IF page = 1 THEN <<>> ELSE listed) \o Page(page)
      BY <2>1 DEF ReadPage
    <3>3. (IF page = 1 THEN <<>> ELSE listed) \in Seq(Repo)
      BY <1>3
    <3>4. QED
      BY <3>1, <3>2, <3>3, InConcat
  <2>2. CASE ~ReadPage
    BY <1>3, <2>2 DEF Observe, ReadOrganization, ReadPart, NotFound, GiveUp, Retry, Finish
  <2>3. QED
    BY <2>1, <2>2
<1>7. /\ todo # <<>> => Head(todo) \in Read /\ Tail(todo) \in Seq(Read)
  BY <1>3, HeadTailProperties
<1>8. todo' \in Seq(Read)
  <2>1. CASE ReadPage
    <3>1. Details(Range(listed')) \in Seq(Target)
      <4>1. Range(listed') \subseteq Repo
        BY <1>6 DEF Range
      <4>2. QED
        BY <4>1, DetailsAll
    <3>2. Details(Range(listed')) \in Seq(Read)
      BY <3>1 DEF Read
    <3>3. Tail(todo) \in Seq(Read)
      BY <1>7, <2>1 DEF ReadPage, AtList
    <3>4. todo' = todo \/ todo' = Tail(todo) \o Details(Range(listed'))
      BY <2>1 DEF ReadPage, LastPage, FullPage
    <3>5. QED
      BY <1>3, <3>2, <3>3, <3>4, InConcat
  <2>2. CASE ~ReadPage
    BY <1>3, <1>7, <2>2 DEF Observe, ReadOrganization, ReadPart, NotFound, GiveUp, Retry, Finish
  <2>3. QED
    BY <2>1, <2>2
<1>9. \A t \in Range(todo)' : t \in Target \/ t = At(Org, "repositories")
  BY <1>8 DEF Range, Read, Enumeration
<1>10. page' \in 1..MaxPages
  <2>1. CASE ReadPage
    <3>1. page' = page \/ (page # MaxPages /\ page' = page + 1)
      BY <2>1 DEF ReadPage, LastPage, FullPage
    <3>2. QED
      BY <1>3, <3>1, ConstantsAssumption
  <2>2. CASE ~ReadPage
    BY <1>3, <2>2 DEF Observe, ReadOrganization, ReadPart, NotFound, GiveUp, Retry, Finish
  <2>3. QED
    BY <2>1, <2>2
<1>11. /\ phase' \in {"organization", "parts", "done", "failed"}
       /\ total' \in Nat /\ counted' \subseteq Repo
  BY <1>3 DEF ObserverInv, ObserverTypeOK, Observe, ReadOrganization, ReadPage, ReadPart, NotFound, GiveUp, Retry,
         Finish, LastPage, FullPage
<1>12. errors' \subseteq Target
  <2>1. CASE GiveUp
    <3>1. errors' = errors \/ (todo # <<>> /\ Head(todo).part \in SoftPart \cup DroppedPart
                               /\ errors' = errors \cup {Head(todo)})
      BY <2>1 DEF GiveUp, Record
    <3>2. todo # <<>> /\ Head(todo).part \in SoftPart \cup DroppedPart => Head(todo) \in Target
      BY <1>7, ConstantsAssumption DEF Read, Enumeration, At
    <3>3. QED
      BY <3>1, <3>2 DEF ObserverInv, ObserverTypeOK
  <2>2. CASE ~GiveUp
    BY <2>2 DEF ObserverInv, ObserverTypeOK, Observe, ReadOrganization, ReadPage, ReadPart, NotFound, Retry, Finish
  <2>3. QED
    BY <2>1, <2>2
<1>13. QED
  BY <1>1, <1>2, <1>5, <1>6, <1>8, <1>9, <1>10, <1>11, <1>12
  DEF ObserverInv, ObserverTypeOK, Inductive, ListingBound, ReadingType

LEMMA TypeStep == ObserverInv /\ [Next]_vars => ObserverInv'
<1> SUFFICES ASSUME ObserverInv, [Next]_vars PROVE ObserverInv'
  OBVIOUS
<1>1. Inductive'
  BY StepListing, StepReading DEF ObserverInv, Inductive
<1>2. CASE UNCHANGED vars
  BY <1>1, <1>2 DEF vars, world, ObserverInv, ObserverTypeOK
<1>3. CASE Next
  BY <1>1, <1>3, StepWorldType, StepReadType DEF Next, ObserverInv
<1>4. QED
  BY <1>2, <1>3

\* A part is read, its failure is recorded, or it is still to be read.
Known(t) == t \in Range(todo) \/ t \in errors \/ Got(t)

\* No part that the scope reads is lost; the details follow once the
\* enumeration is over.
CoverBound ==
  /\ phase = "done" => todo = <<>>
  /\ phase # "failed" =>
       /\ \A p \in Range(Order) \ {"repositories"} : Known(At(Org, p))
       /\ scope = "full" /\ Enumeration \notin Range(todo) =>
            \A r \in Declared \cap Range(listed), p \in RepoPart : Known(At(r, p))

\* Known targets stay known while the list of what is left is not touched.
LEMMA Keeps ==
  ASSUME ObserverInv, CoverBound, [Next]_vars, todo' = todo, listed' = listed, seen' = seen,
         errors' = errors, scope' = scope, phase = "failed" => phase' = "failed",
         phase' = "done" => todo = <<>>
  PROVE  CoverBound'
<1>1. \A t \in Target : was[t] \subseteq was'[t]
  <2>1. CASE \E t \in Target, v \in Val : Edit(t, v)
    BY <2>1 DEF Edit, ObserverInv, ObserverTypeOK
  <2>2. CASE ~ \E t \in Target, v \in Val : Edit(t, v)
    BY <2>2 DEF Next, Create, Delete, Observe, ReadOrganization, ReadPage, ReadPart, NotFound, GiveUp, Retry, Finish,
           NextRead, world, vars
  <2>3. QED
    BY <2>1, <2>2
<1>2. \A t \in Target : Known(t) => Known(t)'
  BY <1>1 DEF Known, Got
<1>3. /\ \A p \in Range(Order) \ {"repositories"} : At(Org, p) \in Target
      /\ \A r \in Declared, p \in RepoPart : At(r, p) \in Target
  BY ConstantsAssumption DEF At, Target, OrgPart
<1>4. QED
  BY <1>2, <1>3 DEF CoverBound

LEMMA CoverStart == Init => CoverBound
<1> SUFFICES ASSUME Init PROVE CoverBound
  OBVIOUS
<1>1. todo = [i \in DOMAIN Order |-> At(Org, Order[i])] /\ listed = <<>> /\ phase # "done"
  BY DEF Init
<1>2. \A p \in Range(Order) : At(Org, p) \in Range(todo)
  BY <1>1 DEF Range
<1>3. Range(listed) = {}
  BY <1>1 DEF Range
<1>4. QED
  BY <1>1, <1>2, <1>3 DEF CoverBound, Known

LEMMA CoverStep == ObserverInv /\ CoverBound /\ [Next]_vars => CoverBound'
<1> SUFFICES ASSUME ObserverInv, CoverBound, [Next]_vars PROVE CoverBound'
  OBVIOUS
<1>1. ASSUME NEW t \in Target, NEW v \in Val, Edit(t, v) PROVE CoverBound'
  BY <1>1, Keeps DEF Edit, Disturb, Reading
<1>2. ASSUME NEW r \in Repo, NEW k \in 0..Len(repos), Create(r, k) PROVE CoverBound'
  BY <1>2, Keeps DEF Create, Disturb, Reading
<1>3. ASSUME NEW k \in DOMAIN repos, Delete(k) PROVE CoverBound'
  BY <1>3, Keeps DEF Delete, Disturb, Reading
<1>4. CASE ReadOrganization
  BY <1>4, Keeps DEF ReadOrganization, NextRead
<1>5. CASE Retry
  BY <1>5, Keeps DEF Retry, Reading
<1>6. CASE Finish
  BY <1>6, Keeps DEF Finish
<1>7. CASE UNCHANGED vars
  BY <1>7, Keeps DEF vars, CoverBound
<1>8. todo \in Seq(Read)
  BY DEF ObserverInv
<1>9. todo # <<>> => /\ Head(todo) \in Read /\ Tail(todo) \in Seq(Read) /\ Head(todo) \in Range(todo)
                     /\ \A t \in Range(todo) : t = Head(todo) \/ t \in Range(Tail(todo))
                     /\ Range(Tail(todo)) \subseteq Range(todo)
  BY <1>8, InTail, HeadTailProperties
<1>10. CASE ReadPart
  <2>1. /\ todo # <<>> /\ Head(todo).part # "repositories" /\ phase = "parts" /\ phase' = phase
        /\ seen' = [seen EXCEPT ![Head(todo)] = live[Head(todo)]] /\ todo' = Tail(todo)
        /\ UNCHANGED <<was, scope, listed, errors, live>>
    BY <1>10 DEF ReadPart, AtList, NextRead, world
  <2>2. Head(todo) \in Target /\ Head(todo) # Enumeration
    BY <1>9, <2>1 DEF Read, Enumeration, At
  <2>3. seen \in [Target -> Val \cup {Unknown}] /\ \A t \in Target : live[t] \in was[t]
    BY DEF ObserverInv, Inductive, ReadingType, ReadingBound
  <2>4. \A t : Known(t) => Known(t)'
    BY <1>9, <2>1, <2>2, <2>3 DEF Known, Got
  <2>5. Enumeration \notin Range(todo') => Enumeration \notin Range(todo)
    BY <1>9, <2>1, <2>2
  <2>6. QED
    BY <2>1, <2>4, <2>5 DEF CoverBound
<1>11. CASE ReadPage
  <2>1. /\ todo # <<>> /\ Head(todo).part = "repositories" /\ phase = "parts" /\ phase' # "done"
        /\ UNCHANGED <<was, scope, seen, errors>>
        /\ LastPage \/ FullPage
    BY <1>11 DEF ReadPage, AtList, NextRead, world, LastPage, FullPage
  <2>2. Head(todo) = Enumeration
    BY <1>9, <2>1, ConstantsAssumption DEF Read, Target, OrgPart, RepoPart, Range, At, Enumeration
  <2>3. CASE FullPage
    <3>1. todo' = todo /\ Enumeration \in Range(todo)
      BY <1>9, <2>1, <2>2, <2>3 DEF FullPage
    <3>2. \A t : Known(t) => Known(t)'
      BY <2>1, <3>1 DEF Known, Got
    <3>3. Enumeration \in Range(todo')
      BY <3>1
    <3>4. errors' = errors /\ phase # "failed" /\ phase' # "done"
      BY <2>1
    <3>5. QED
      BY <3>2, <3>3, <3>4 DEF CoverBound
  <2>4. CASE LastPage
    <3> DEFINE d == Details(Range(listed'))
    <3>1. todo' = Tail(todo) \o d /\ phase' = phase
      BY <2>4 DEF LastPage
    <3>2. Range(listed') \subseteq Repo
      BY TypeStep DEF ObserverInv, ObserverTypeOK, Range
    <3>3. /\ d \in Seq(Target)
          /\ scope = "full" => \A r \in Declared \cap Range(listed'), p \in RepoPart : At(r, p) \in Range(d)
      BY <3>2, DetailsAll
    <3> HIDE DEF d
    <3>4. d \in Seq(Read) /\ Tail(todo) \in Seq(Read)
      BY <1>9, <2>1, <3>3 DEF Read
    <3>5. Range(Tail(todo)) \cup Range(d) \subseteq Range(todo')
      BY <3>1, <3>4, InConcat
    <3>6. \A p \in Range(Order) \ {"repositories"} : At(Org, p) # Enumeration
      BY DEF At, Enumeration
    <3>7. \A t : t # Enumeration /\ Known(t) => Known(t)'
      <4>1. \A t \in Range(todo) : t = Enumeration \/ t \in Range(Tail(todo))
        BY <1>9, <2>1, <2>2
      <4>2. \A t \in Range(todo) : t = Enumeration \/ t \in Range(todo')
        BY <3>5, <4>1
      <4>3. seen' = seen /\ was' = was /\ errors' = errors
        BY <2>1
      <4>4. QED
        BY <4>2, <4>3 DEF Known, Got
    <3>8. scope = "full" => \A r \in Declared \cap Range(listed'), p \in RepoPart : Known(At(r, p))'
      BY <3>3, <3>5 DEF Known
    <3>9. errors' = errors /\ scope' = scope /\ phase # "failed" /\ phase' # "done"
      BY <2>1
    <3>10. QED
      BY <3>6, <3>7, <3>8, <3>9 DEF CoverBound
  <2>5. QED
    BY <2>1, <2>3, <2>4
<1>12. CASE NotFound
  <2>1. /\ todo # <<>> /\ Head(todo).part \in EnabledPart /\ phase = "parts" /\ phase' = phase
        /\ seen' = [seen EXCEPT ![Head(todo)] = Absent] /\ todo' = Tail(todo)
        /\ UNCHANGED <<was, scope, listed, errors>>
    BY <1>12 DEF NotFound, NextRead, world
  <2>2. Head(todo) \in Target /\ Head(todo) # Enumeration
    BY <1>9, <2>1, ConstantsAssumption DEF Read, Enumeration, At
  <2>3. seen \in [Target -> Val \cup {Unknown}]
    BY DEF ObserverInv, Inductive, ReadingType
  <2>4. \A t : Known(t) => Known(t)'
    BY <1>9, <2>1, <2>2, <2>3 DEF Known, Got
  <2>5. Enumeration \notin Range(todo') => Enumeration \notin Range(todo)
    BY <1>9, <2>1, <2>2
  <2>6. QED
    BY <2>1, <2>4, <2>5 DEF CoverBound
<1>13. CASE GiveUp
  <2>1. CASE phase' = "failed"
    BY <2>1 DEF CoverBound
  <2>2. CASE phase' # "failed"
    <3>1. /\ todo # <<>> /\ Head(todo).part \in SoftPart \cup DroppedPart /\ phase = "parts" /\ phase' = phase
          /\ errors' = errors \cup {Head(todo)} /\ todo' = Tail(todo)
          /\ UNCHANGED <<was, scope, listed, seen>>
      BY <1>13, <2>2 DEF GiveUp, Record, NextRead, world
    <3>2. Head(todo) # Enumeration
      BY <3>1, ConstantsAssumption DEF Enumeration, At
    <3>3. \A t : Known(t) => Known(t)'
      BY <1>9, <3>1 DEF Known, Got
    <3>4. Enumeration \notin Range(todo') => Enumeration \notin Range(todo)
      BY <1>9, <3>1, <3>2
    <3>5. QED
      BY <3>1, <3>3, <3>4 DEF CoverBound
  <2>3. QED
    BY <2>1, <2>2
<1>14. QED
  BY <1>1, <1>2, <1>3, <1>4, <1>5, <1>6, <1>7, <1>10, <1>11, <1>12, <1>13 DEF Next, Observe

\* The observation keeps its type, whatever GitHub answers (Observe).
THEOREM ObserverTyped == Spec => []ObserverTypeOK
<1>1. ObserverInv => ObserverTypeOK
  BY DEF ObserverInv
<1>2. QED
  BY <1>1, ObserverStart, TypeStep, PTL DEF Spec

-----------------------------------------------------------------------------
(* What the report and a complete observation are worth.                   *)

\* The parts a report compares are parts of the organization or a repository.
LEMMA ComparedType == Compared \subseteq Target
  BY ConstantsAssumption DEF Compared, Target, At

\* At the end, a part that the scope reads was read or its failure recorded.
LEMMA ReadOrRecorded ==
  ASSUME ObserverInv, CoverBound, phase = "done"
  PROVE  /\ \A p \in Range(Order) \ {"repositories"} : At(Org, p) \in errors \/ Got(At(Org, p))
         /\ scope = "full" =>
              \A r \in Declared \cap Range(listed), p \in RepoPart : At(r, p) \in errors \/ Got(At(r, p))
<1>1. Range(todo) = {}
  BY DEF CoverBound, Range
<1>2. QED
  BY <1>1 DEF CoverBound, Known

\* What was read is known, and a setting not found is not what is declared.
LEMMA GotKnown ==
  ASSUME ObserverInv, NEW t \in Target, Got(t)
  PROVE  seen[t] # Unknown
<1>1. was[t] \subseteq Val
  BY DEF ObserverInv, ObserverTypeOK
<1>2. QED
  BY <1>1, ConstantsAssumption DEF Got

LEMMA SettingWanted ==
  ASSUME NEW t, t.part \in EnabledPart
  PROVE  Desired(t) = Wanted /\ ~LeftOut(t)
BY ConstantsAssumption DEF Desired, LeftOut

\* What a report is silent about conformed at some moment, or was left out; and
\* an error says so of all that the scope and the list led to.
THEOREM SilentReports == Spec => []SilenceMeansSeen
<1>1. ObserverInv /\ CoverBound => SilenceMeansSeen
  <2> SUFFICES ASSUME ObserverInv, CoverBound, phase = "done", NEW t \in Compared \ Differences
               PROVE  \/ Desired(t) \in was[t]
                      \/ t.part \in DroppedPart /\ (t \in errors \/ scope = "critical" \/ t.of \notin Range(listed))
                      \/ t.part \in UndeclaredPart /\ \E p \in RulesetPart : At(Org, p) \in errors
    BY DEF SilenceMeansSeen
  <2>1. t \in Target /\ Projected(t) = Desired(t)
    BY ComparedType DEF Differences
  <2>2. CASE t.part \in DroppedPart /\ seen[t] = Unknown
    <3> SUFFICES ASSUME scope # "critical", t.of \in Range(listed) PROVE t \in errors
      BY <2>2
    <3>1. scope = "full" /\ Org \notin Range(listed)
      BY ConstantsAssumption DEF ObserverInv, ObserverTypeOK, Scope, Range
    <3>2. PICK r \in Declared \cap Range(listed), p \in RepoPart : t = At(r, p)
      BY <3>1 DEF Compared, At
    <3>3. t \in errors \/ Got(t)
      BY <3>1, <3>2, ReadOrRecorded
    <3>4. QED
      BY <2>1, <2>2, <3>3, GotKnown
  <2>3. CASE t.part \in UndeclaredPart /\ ~RulesetsKnown
    <3>1. PICK p \in RulesetPart : seen[At(Org, p)] = Unknown
      BY <2>3 DEF RulesetsKnown
    <3>2. p \in Range(Order) \ {"repositories"} /\ At(Org, p) \in Target
      BY ConstantsAssumption DEF Target, OrgPart, At
    <3>3. At(Org, p) \in errors \/ Got(At(Org, p))
      BY <3>2, ReadOrRecorded
    <3>4. QED
      BY <2>3, <3>1, <3>2, <3>3, GotKnown
  <2>4. CASE ~LeftOut(t)
    <3>1. Desired(t) # Unknown
      BY ConstantsAssumption DEF Desired
    <3>2. seen[t] = Desired(t)
      BY <2>1, <2>4, <3>1 DEF Projected
    <3>3. Got(t)
      BY <2>1, <3>1, <3>2 DEF ObserverInv, Inductive, ReadingBound
    <3>4. t.part \in EnabledPart => Desired(t) # Absent
      BY SettingWanted, ConstantsAssumption
    <3>5. QED
      BY <3>2, <3>3, <3>4 DEF Got
  <2>5. QED
    BY <2>2, <2>3, <2>4 DEF LeftOut
<1>2. Init => ObserverInv /\ CoverBound
  BY ObserverStart, CoverStart
<1>3. ObserverInv /\ CoverBound /\ [Next]_vars => (ObserverInv /\ CoverBound)'
  BY TypeStep, CoverStep
<1>4. QED
  BY <1>1, <1>2, <1>3, PTL DEF Spec

\* A complete observation holds, for every part that its scope reads, a value
\* that was live while it observed, or is a setting not found and reported.
THEOREM CompleteObservations == Spec => []CompleteMeansSeen
<1>1. ObserverInv /\ CoverBound => CompleteMeansSeen
  <2> SUFFICES ASSUME ObserverInv, CoverBound, phase = "done", errors = {}, NEW t \in Compared,
                      t.part \notin GapPart, ~(t.of # Org /\ (scope = "critical" \/ t.of \notin Range(listed)))
               PROVE  seen[t] \in was[t] \/ (t.part \in EnabledPart /\ seen[t] = Absent /\ t \in Differences)
    BY DEF CompleteMeansSeen, ObservationComplete
  <2>1. Got(t)
    <3>1. CASE t.of = Org
      <4>1. PICK p \in Range(Order) \ {"repositories"} : t = At(Org, p)
        BY <3>1, ConstantsAssumption DEF Compared, OrgPart, At
      <4>2. QED
        BY <4>1, ReadOrRecorded
    <3>2. CASE t.of # Org
      <4>1. scope = "full" /\ t.of \in Range(listed)
        BY <3>2 DEF ObserverInv, ObserverTypeOK, Scope
      <4>2. PICK r \in Declared \cap Range(listed), p \in RepoPart : t = At(r, p)
        BY <3>2, <4>1 DEF Compared, At
      <4>3. QED
        BY <4>1, <4>2, ReadOrRecorded
    <3>3. QED
      BY <3>1, <3>2
  <2>2. ASSUME t.part \in EnabledPart, seen[t] = Absent PROVE t \in Differences
    <3>1. Desired(t) = Wanted /\ ~LeftOut(t)
      BY <2>2, SettingWanted
    <3>2. Projected(t) # Wanted
      BY <2>2, <3>1, ConstantsAssumption DEF Projected
    <3>3. QED
      BY <3>1, <3>2 DEF Differences
  <2>3. QED
    BY <2>1, <2>2 DEF Got
<1>2. Init => ObserverInv /\ CoverBound
  BY ObserverStart, CoverStart
<1>3. ObserverInv /\ CoverBound /\ [Next]_vars => (ObserverInv /\ CoverBound)'
  BY TypeStep, CoverStep
<1>4. QED
  BY <1>1, <1>2, <1>3, PTL DEF Spec
=============================================================================
