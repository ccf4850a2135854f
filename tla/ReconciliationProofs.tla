------------------------ MODULE ReconciliationProofs ------------------------
(***************************************************************************)
(* What a profile keeps of its projects, for any projects, hosts, songs,       *)
(* versions and sessions: a case the host has overtaken stays so, a decision   *)
(* is on what its case shows, and, of hosts that key their maps by texts, the   *)
(* profile opens again.                                                      *)
(***************************************************************************)
EXTENDS Reconciliation, SequenceTheorems, FiniteSetTheorems, WellFoundedInduction, TLAPS

-----------------------------------------------------------------------------
(* Ids *)

\* The order of the ids, as a relation: a set of ids has a least element because it is
\* well founded.
Below == {p \in Nat \X Nat : p[1] < p[2]}

LEMMA LeastIs ==
  ASSUME NEW S \in SUBSET Nat, S # {}
  PROVE  Least(S) \in S /\ \A j \in S : Least(S) <= j
<1>1. IsWellFoundedOn(Below, Nat)
  BY NatLessThanWellFounded DEF OpToRel, Below
<1>2. PICK x \in S : \A y \in S : ~ (<<y, x>> \in Below)
  BY <1>1, WFMin
<1>3. ASSUME NEW y \in S PROVE x <= y
  <2>1. <<y, x>> \in Nat \X Nat
    OBVIOUS
  <2>2. <<y, x>>[1] = y /\ <<y, x>>[2] = x
    OBVIOUS
  <2>3. ~(y < x)
    BY <1>2, <2>1, <2>2 DEF Below
  <2> QED
    BY <2>3
<1> QED
  BY <1>3 DEF Least

LEMMA GreatestIs ==
  ASSUME NEW n \in Nat, NEW S \in SUBSET (1..n), S # {}
  PROVE  Greatest(S) \in S /\ \A j \in S : j <= Greatest(S)
<1> DEFINE R == {n - i : i \in S}
<1>1. R \in SUBSET Nat /\ R # {}
  <2>1. \A i \in S : n - i \in Nat
    OBVIOUS
  <2> QED
    BY <2>1
<1>2. PICK r \in R : \A q \in R : r <= q
  BY <1>1, LeastIs
<1>3. PICK i \in S : r = n - i
  BY <1>2
<1>4. \A j \in S : n - i <= n - j
  BY <1>2, <1>3
<1>5. \A j \in S : j <= i
  BY <1>4
<1> QED
  BY <1>5 DEF Greatest

\* A greatest id that was just given out.
LEMMA NewIsGreatest ==
  ASSUME NEW n \in Nat, NEW S \in SUBSET (1..n), n \in S
  PROVE  Greatest(S) = n
<1>1. Greatest(S) \in 1..n /\ n <= Greatest(S)
  BY GreatestIs
<1> QED
  BY <1>1

LEMMA Appended ==
  ASSUME NEW S, NEW q \in Seq(S), NEW e \in S, NEW r, r = Append(q, e)
  PROVE  /\ Len(q) \in Nat /\ DOMAIN q = 1..Len(q)
         /\ r \in Seq(S) /\ Len(r) = Len(q) + 1 /\ DOMAIN r = 1..(Len(q) + 1)
         /\ \A i \in 1..Len(q) : r[i] = q[i]
         /\ r[Len(q) + 1] = e
BY AppendProperties, LenProperties

-----------------------------------------------------------------------------
(* Texts *)

\* No two of the texts of one or two digits stand at the same place.
LEMMA RanksDiffer ==
  ASSUME NEW i \in 0..99, NEW j \in 0..99, TextRank[i] = TextRank[j]
  PROVE  i = j
<1>1. ASSUME NEW n \in 0..99
      PROVE  TextRank[n] = IF n < 10 THEN 11 * n ELSE 11 * (n \div 10) + (n % 10) + 1
  BY DEF TextRank
<1>2. ASSUME NEW n \in 0..99
      PROVE  \E q \in 0..9, d \in 0..9 :
               n = 10 * q + d /\ TextRank[n] = IF n < 10 THEN 11 * n ELSE 11 * q + d + 1
  <2>1. n = 10 * (n \div 10) + (n % 10) /\ n \div 10 \in 0..9 /\ n % 10 \in 0..9
    OBVIOUS
  <2> QED
    BY <1>1, <2>1
<1>3. PICK p \in 0..9, c \in 0..9 :
        i = 10 * p + c /\ TextRank[i] = IF i < 10 THEN 11 * i ELSE 11 * p + c + 1
  BY <1>2
<1>4. PICK q \in 0..9, d \in 0..9 :
        j = 10 * q + d /\ TextRank[j] = IF j < 10 THEN 11 * j ELSE 11 * q + d + 1
  BY <1>2
<1>5. CASE i < 10 /\ j < 10
  BY <1>3, <1>4, <1>5
<1>6. CASE ~(i < 10) /\ ~(j < 10)
  BY <1>3, <1>4, <1>6
<1>7. CASE (i < 10) # (j < 10)
  BY <1>3, <1>4, <1>7
<1> QED
  BY <1>5, <1>6, <1>7

\* A set of keys can be sorted: each key goes to the place given by how many are not
\* after it.
LEMMA KeysSort ==
  ASSUME NEW keys \in SUBSET (0..99)
  PROVE  /\ Sorted(keys, TextRank) \in [1..Cardinality(keys) -> keys]
         /\ {Sorted(keys, TextRank)[i] : i \in 1..Cardinality(keys)} = keys
<1> DEFINE n == Cardinality(keys)
           upto(k) == {j \in keys : TextRank[j] <= TextRank[k]}
           place == [k \in keys |-> Cardinality(upto(k))]
           IsSorting(s) == /\ s \in [1..n -> keys]
                           /\ \A i, j \in DOMAIN s : i < j => TextRank[s[i]] < TextRank[s[j]]
<1>1. IsFiniteSet(keys) /\ n \in Nat
  <2>1. keys \in SUBSET Nat /\ \A k \in keys : k <= 99
    OBVIOUS
  <2>2. IsFiniteSet(keys)
    BY <2>1, FS_BoundedSetOfNaturals
  <2> QED
    BY <2>2, FS_CardinalityType
<1>2. \A k \in keys : k \in 0..99 /\ TextRank[k] \in Nat
  <2>1. \A k \in 0..99 : TextRank[k] \in Nat
    BY DEF TextRank
  <2> QED
    BY <2>1
<1>3. ASSUME NEW k \in keys
      PROVE  /\ IsFiniteSet(upto(k)) /\ Cardinality(upto(k)) \in 1..n /\ k \in upto(k)
  <2>1. upto(k) \in SUBSET keys /\ k \in upto(k)
    BY <1>2
  <2>2. IsFiniteSet(upto(k)) /\ Cardinality(upto(k)) <= n
    BY <1>1, <2>1, FS_Subset
  <2>3. Cardinality(upto(k)) \in Nat /\ Cardinality(upto(k)) # 0
    BY <2>1, <2>2, FS_CardinalityType, FS_EmptySet
  <2> QED
    BY <1>1, <2>1, <2>2, <2>3
<1>4. ASSUME NEW j \in keys, NEW k \in keys, TextRank[j] < TextRank[k]
      PROVE  place[j] < place[k]
  <2>1. ASSUME NEW i \in upto(j) PROVE i \in upto(k) \ {k}
    BY <1>2, <1>4, <2>1
  <2>2. IsFiniteSet(upto(k) \ {k}) /\ Cardinality(upto(k) \ {k}) = Cardinality(upto(k)) - 1
    BY <1>3, FS_RemoveElement
  <2>3. Cardinality(upto(j)) <= Cardinality(upto(k)) - 1
    <3>1. upto(j) \in SUBSET (upto(k) \ {k})
      BY <2>1
    <3> HIDE DEF upto
    <3> QED
      BY <2>2, <3>1, FS_Subset
  <2>4. Cardinality(upto(j)) \in 1..n /\ Cardinality(upto(k)) \in 1..n
    BY <1>3
  <2> HIDE DEF upto
  <2> QED
    BY <2>3, <2>4
<1>5. place \in Injection(keys, 1..n)
  <2>1. place \in [keys -> 1..n]
    BY <1>3
  <2>2. ASSUME NEW j \in keys, NEW k \in keys, place[j] = place[k] PROVE j = k
    <3>1. ~(place[j] < place[k]) /\ ~(place[k] < place[j])
      BY <2>1, <2>2
    <3>2. TextRank[j] = TextRank[k]
      <4> HIDE DEF place
      <4> QED
        BY <1>2, <1>4, <3>1
    <3> QED
      BY <1>2, <3>2, RanksDiffer
  <2> QED
    BY <2>1, <2>2 DEF Injection, IsInjective
<1>6. place \in Surjection(keys, 1..n)
  <2>1. IsFiniteSet(1..n) /\ Cardinality(1..n) = n
    BY <1>1, FS_Interval
  <2> QED
    BY <1>5, <2>1, FS_Injection
<1> HIDE DEF place
<1> DEFINE s == [i \in 1..n |-> CHOOSE k \in keys : place[k] = i]
<1>7. \A i \in 1..n : s[i] \in keys /\ place[s[i]] = i
  BY <1>6 DEF Surjection
<1>8. IsSorting(s)
  <2>1. s \in [1..n -> keys]
    BY <1>7
  <2>2. ASSUME NEW i \in 1..n, NEW j \in 1..n, i < j PROVE TextRank[s[i]] < TextRank[s[j]]
    <3>1. place[s[i]] = i /\ place[s[j]] = j /\ s[i] \in keys /\ s[j] \in keys
      BY <1>7
    <3> HIDE DEF s
    <3>2. s[i] # s[j]
      BY <2>2, <3>1
    <3>3. TextRank[s[i]] # TextRank[s[j]]
      BY <1>2, <3>1, <3>2, RanksDiffer
    <3>4. ~(TextRank[s[j]] < TextRank[s[i]])
      <4>1. ~(place[s[j]] < place[s[i]])
        BY <1>1, <2>2, <3>1
      <4> QED
        BY <1>4, <3>1, <4>1
    <3>5. TextRank[s[i]] \in Nat /\ TextRank[s[j]] \in Nat
      BY <1>2, <3>1
    <3> QED
      BY <3>3, <3>4, <3>5
  <2> QED
    BY <2>1, <2>2
<1> HIDE DEF s
<1> DEFINE t == Sorted(keys, TextRank)
<1>9. IsSorting(t)
  BY <1>8 DEF Sorted
<1>10. t \in Injection(1..n, keys)
  <2>1. ASSUME NEW i \in 1..n, NEW j \in 1..n, t[i] = t[j] PROVE i = j
    <3>1. TextRank[t[i]] = TextRank[t[j]] /\ TextRank[t[i]] \in Nat
      BY <1>2, <1>9, <2>1
    <3>2. ~(i < j) /\ ~(j < i)
      BY <1>9, <3>1
    <3> QED
      BY <3>2
  <2> QED
    BY <1>9, <2>1 DEF Injection, IsInjective
<1>11. t \in Surjection(1..n, keys)
  BY <1>1, <1>10, FS_Injection, FS_Interval
<1> QED
  BY <1>9, <1>11 DEF Surjection

\* What a host that keys its maps by texts reports reads back as it was written.
LEMMA TextsReadBack ==
  ASSUME \A m \in Map : m.keyed = "text", NEW v \in Value
  PROVE  Canonical(Dump(v)) = Dump(v)
<1>1. CASE v \in Scalar
  BY <1>1 DEF Canonical, Dump, Load
<1>2. CASE v \notin Scalar /\ Dump(v) \in Scalar
  BY <1>2 DEF Canonical, Dump, Load
<1>3. CASE v \notin Scalar /\ Dump(v) \notin Scalar
  <2>1. v.keyed = "text" /\ v.keys \in SUBSET (0..99)
    BY <1>3, HostAssumption DEF Value
  <2>2. Dump(v) = Sorted(v.keys, TextRank)
    BY <1>3, <2>1 DEF Dump
  <2>3. DOMAIN Dump(v) = 1..Cardinality(v.keys) /\ {Dump(v)[i] : i \in DOMAIN Dump(v)} = v.keys
    <3>1. Dump(v) \in [1..Cardinality(v.keys) -> v.keys]
      BY <2>1, <2>2, KeysSort
    <3>2. DOMAIN Dump(v) = 1..Cardinality(v.keys)
      BY <3>1
    <3>3. {Sorted(v.keys, TextRank)[i] : i \in 1..Cardinality(v.keys)} = v.keys
      BY <2>1, KeysSort
    <3> QED
      BY <2>2, <3>2, <3>3
  <2>4. Load(Dump(v)) = [keyed |-> "text", keys |-> v.keys]
    BY <1>3, <2>3 DEF Load
  <2>5. [keyed |-> "text", keys |-> v.keys] \notin Scalar
    BY <2>1, HostAssumption
  <2>6. Dump([keyed |-> "text", keys |-> v.keys]) = Sorted(v.keys, TextRank)
    BY <2>5 DEF Dump
  <2> QED
    BY <2>2, <2>4, <2>6 DEF Canonical
<1> QED
  BY <1>1, <1>2, <1>3

-----------------------------------------------------------------------------
(* The tables of the host grow *)

Stay    == [ws : Workspace, kind : {"CREATED", "DERIVED", "EXISTING"}, rt : Runtime, loc : Location]
Reading == [ws : Workspace, obs : DOMAIN seen, coverage : {"FULL", "INCREMENTAL"},
            says : Texts \cup {None, Removed}]
Answer  == [obs : DOMAIN seen, route : Route, kind : RouteKind, at : Time]

LEMMA Ids ==
  ASSUME HostTypeOK
  PROVE  /\ seen \in Seq(Stay) /\ Len(seen) \in Nat /\ DOMAIN seen = 1..Len(seen)
         /\ batches \in Seq(Reading) /\ Len(batches) \in Nat /\ DOMAIN batches = 1..Len(batches)
         /\ facts \in Seq(Answer) /\ Len(facts) \in Nat /\ DOMAIN facts = 1..Len(facts)
         /\ \A i \in DOMAIN batches : batches[i] \in Reading
         /\ \A w : /\ HistoryOf(w) \in SUBSET (1..Len(seen))
                   /\ BatchesOf(w) \in SUBSET (1..Len(batches))
                   /\ FullsOf(w) \in SUBSET BatchesOf(w)
<1>1. seen \in Seq(Stay) /\ batches \in Seq(Reading) /\ facts \in Seq(Answer)
  BY DEF HostTypeOK, Stay, Reading, Answer
<1>2. /\ Len(seen) \in Nat /\ DOMAIN seen = 1..Len(seen)
      /\ Len(batches) \in Nat /\ DOMAIN batches = 1..Len(batches)
      /\ Len(facts) \in Nat /\ DOMAIN facts = 1..Len(facts)
  BY <1>1, LenProperties
<1>3. \A i \in DOMAIN batches : batches[i] \in Reading
  BY <1>1, <1>2, ElementOfSeq
<1> QED
  BY <1>1, <1>2, <1>3 DEF HistoryOf, BatchesOf, FullsOf

\* An observation is the current one of its project, and of no other.
LEMMA ProjectAppears ==
  ASSUME HostTypeOK, NEW w \in Workspace, NEW kind \in {"CREATED", "DERIVED", "EXISTING"},
         NEW rt \in Runtime, NEW loc \in Location, Appear(w, kind, rt, loc)
  PROVE  /\ seen' \in Seq(Stay) /\ Len(seen') = Len(seen) + 1 /\ DOMAIN seen' = 1..(Len(seen) + 1)
         /\ \A i \in 1..Len(seen) : seen'[i] = seen[i]
         /\ seen'[Len(seen) + 1] = [ws |-> w, kind |-> kind, rt |-> rt, loc |-> loc]
         /\ HistoryOf(w)' = HistoryOf(w) \cup {Len(seen) + 1}
         /\ Current(w)' = Len(seen) + 1
         /\ \A v : v # w => HistoryOf(v)' = HistoryOf(v) /\ Current(v)' = Current(v)
<1> DEFINE n == Len(seen)
           r == [ws |-> w, kind |-> kind, rt |-> rt, loc |-> loc]
<1>1. seen' = Append(seen, r) /\ r \in Stay /\ r.ws = w
  BY DEF Appear, Stay
<1>2. /\ n \in Nat /\ DOMAIN seen = 1..n
      /\ seen' \in Seq(Stay) /\ Len(seen') = n + 1 /\ DOMAIN seen' = 1..(n + 1)
      /\ \A i \in 1..n : seen'[i] = seen[i]
      /\ seen'[n + 1] = r
  BY <1>1, Ids, Appended
<1> HIDE DEF r
<1>3. HistoryOf(w)' = HistoryOf(w) \cup {n + 1}
  BY <1>1, <1>2 DEF HistoryOf
<1>4. ASSUME NEW v, v # w PROVE HistoryOf(v)' = HistoryOf(v)
  BY <1>1, <1>2, <1>4 DEF HistoryOf
<1>5. Current(w)' = n + 1
  <2>1. HistoryOf(w) \cup {n + 1} \in SUBSET (1..(n + 1)) /\ n + 1 \in Nat
    BY <1>2, Ids
  <2>2. Greatest(HistoryOf(w) \cup {n + 1}) = n + 1
    BY <2>1, NewIsGreatest
  <2> QED
    BY <1>3, <2>2 DEF Current
<1> QED
  BY <1>2, <1>3, <1>4, <1>5 DEF Current, r

\* A batch counts for one project at most, from when it is recorded.
LEMMA BatchIsRecorded ==
  ASSUME HostTypeOK, NEW b \in Reading, batches' = Append(batches, b), UNCHANGED seen
  PROVE  /\ batches' \in Seq(Reading) /\ DOMAIN batches' = 1..(Len(batches) + 1)
         /\ \A i \in 1..Len(batches) : batches'[i] = batches[i]
         /\ batches'[Len(batches) + 1] = b
         /\ \A w : /\ BatchesOf(w)' \in {BatchesOf(w), BatchesOf(w) \cup {Len(batches) + 1}}
                   /\ FullsOf(w)' \in {FullsOf(w), FullsOf(w) \cup {Len(batches) + 1}}
<1> DEFINE n == Len(batches)
<1>1. /\ n \in Nat /\ DOMAIN batches = 1..n
      /\ batches' \in Seq(Reading) /\ DOMAIN batches' = 1..(n + 1)
      /\ \A i \in 1..n : batches'[i] = batches[i]
      /\ batches'[n + 1] = b
  BY Ids, Appended
<1>2. \A w : Current(w)' = Current(w)
  BY DEF Current, HistoryOf
<1>3. ASSUME NEW w
      PROVE  /\ BatchesOf(w)' \in {BatchesOf(w), BatchesOf(w) \cup {n + 1}}
             /\ FullsOf(w)' \in {FullsOf(w), FullsOf(w) \cup {n + 1}}
  <2>1. Current(w)' = Current(w)
    BY <1>2
  <2>2. BatchesOf(w)' = {i \in 1..(n + 1) : batches'[i].ws = w /\ batches'[i].obs = Current(w)}
    BY <1>1, <2>1 DEF BatchesOf
  <2>3. BatchesOf(w)' = BatchesOf(w) \/ BatchesOf(w)' = BatchesOf(w) \cup {n + 1}
    <3>1. \A i \in 1..n : i \in BatchesOf(w)' <=> i \in BatchesOf(w)
      BY <1>1, <2>2 DEF BatchesOf
    <3>2. BatchesOf(w)' \in SUBSET (1..(n + 1)) /\ BatchesOf(w) \in SUBSET (1..n)
      BY <1>1, <2>2 DEF BatchesOf
    <3>3. CASE n + 1 \in BatchesOf(w)'
      BY <1>1, <3>1, <3>2, <3>3
    <3>4. CASE n + 1 \notin BatchesOf(w)'
      <4>1. \A i \in BatchesOf(w)' : i \in 1..n
        BY <1>1, <3>2, <3>4
      <4>2. \A i \in BatchesOf(w) : i \in 1..n
        BY <3>2
      <4> QED
        BY <3>1, <4>1, <4>2
    <3> QED
      BY <3>3, <3>4
  <2>4. FullsOf(w)' = {i \in BatchesOf(w)' : batches'[i].coverage = "FULL"}
    BY DEF FullsOf
  <2>5. FullsOf(w)' = FullsOf(w) \/ FullsOf(w)' = FullsOf(w) \cup {n + 1}
    <3>1. BatchesOf(w) \in SUBSET (1..n)
      BY Ids
    <3>2. \A i \in BatchesOf(w) : batches'[i] = batches[i]
      BY <1>1, <3>1
    <3>3. FullsOf(w) = {i \in BatchesOf(w) : batches[i].coverage = "FULL"}
      BY DEF FullsOf
    <3> QED
      BY <2>3, <2>4, <3>2, <3>3
  <2> QED
    BY <2>3, <2>5
<1> QED
  BY <1>1, <1>3

\* A step of the host: nothing, an observation of a project, or a batch.
LEMMA HostStep ==
  ASSUME HostTypeOK, HostNext
  PROVE  \/ UNCHANGED <<seen, batches>>
         \/ /\ \E w \in Workspace, kind \in {"CREATED", "DERIVED", "EXISTING"},
                  rt \in Runtime, loc \in Location : Appear(w, kind, rt, loc)
            /\ UNCHANGED batches
         \/ UNCHANGED seen /\ \E b \in Reading : batches' = Append(batches, b)
<1>1. ASSUME NEW w \in Workspace, NEW rt \in Runtime, NEW loc \in Location,
             \/ \E song \in Song : Create(w, song, rt, loc)
             \/ \E source \in Workspace : Derive(w, source, rt, loc)
             \/ ReconcileExisting(w, rt, loc)
      PROVE  /\ \E kind \in {"CREATED", "DERIVED", "EXISTING"} : Appear(w, kind, rt, loc)
             /\ UNCHANGED batches
  BY <1>1 DEF Create, Derive, NewWorkspace, ReconcileExisting, FirstKind
<1>2. ASSUME NEW s \in Session, Observe(s)
      PROVE  /\ UNCHANGED seen
             /\ UNCHANGED batches \/ \E b \in Reading : batches' = Append(batches, b)
  <2> DEFINE o == session[s]
  <2>1. PICK read \in {<<>>} \cup {<<b>> : b \in Readings(o)} :
          batches' = batches \o read \/ UNCHANGED batches
    BY <1>2 DEF Observe
  <2>2. o \in DOMAIN seen /\ seen[o].ws \in Workspace
    <3>1. o \in DOMAIN seen
      BY <1>2 DEF Observe, HostTypeOK
    <3>2. seen[o] \in Stay
      BY <3>1, Ids, ElementOfSeq
    <3> QED
      BY <3>1, <3>2 DEF Stay
  <2>3. Readings(o) \in SUBSET Reading
    BY <2>2 DEF Readings, Reading
  <2>4. batches \o read = batches \/ \E b \in Readings(o) : batches \o read = Append(batches, b)
    <3>1. batches \in Seq(Reading)
      BY Ids
    <3> HIDE DEF o
    <3>2. CASE read = <<>>
      BY <3>1, <3>2
    <3>3. ASSUME NEW b \in Readings(o), read = <<b>> PROVE batches \o read = Append(batches, b)
      BY <2>3, <3>1, <3>3
    <3> QED
      BY <2>1, <3>2, <3>3
  <2> QED
    BY <1>2, <2>1, <2>3, <2>4 DEF Observe
<1>3. ASSUME NEW s \in Session, Abandon(s) \/ \E w \in Workspace : BeginSession(s, w)
      PROVE  UNCHANGED <<seen, batches>>
  BY <1>3 DEF Abandon, BeginSession
<1> QED
  BY <1>1, <1>2, <1>3 DEF HostNext

-----------------------------------------------------------------------------
(* What the host has overtaken *)

\* A case that names batches there are is overtaken for good: its project can be back
\* where it was, but not its batches.
LEMMA OvertakenStays ==
  ASSUME HostTypeOK, [HostNext]_hostVars, NEW c,
         {c.found.baseline, c.found.latest} \subseteq DOMAIN batches,
         OvertakenByHost(c)
  PROVE  OvertakenByHost(c)'
<1> DEFINE w == c.ws  n == Len(batches)
<1>1. n \in Nat /\ BatchesOf(w) \in SUBSET (1..n) /\ FullsOf(w) \in SUBSET (1..n)
      /\ c.found.baseline \in 1..n /\ c.found.latest \in 1..n
  BY Ids
<1>2. CASE UNCHANGED <<seen, batches>>
  BY <1>2 DEF OvertakenByHost, ShadowIsCurrent, Baseline, LatestBatch, FullsOf, BatchesOf,
              Current, HistoryOf
<1>3. ASSUME NEW v \in Workspace, NEW kind \in {"CREATED", "DERIVED", "EXISTING"},
             NEW rt \in Runtime, NEW loc \in Location,
             Appear(v, kind, rt, loc), UNCHANGED batches
      PROVE  OvertakenByHost(c)'
  <2>1. CASE v = w
    <3>1. Current(w)' = Len(seen) + 1
      BY <1>3, <2>1, ProjectAppears
    <3>2. BatchesOf(w)' = {}
      <4>1. \A i \in DOMAIN batches : batches[i].obs \in 1..Len(seen)
        BY Ids DEF Reading
      <4>2. Len(seen) \in Nat
        BY Ids
      <4> QED
        BY <1>3, <3>1, <4>1, <4>2 DEF BatchesOf
    <3> QED
      BY <3>2 DEF OvertakenByHost, ShadowIsCurrent, FullsOf
  <2>2. CASE v # w
    <3>1. Current(w)' = Current(w)
      BY <1>3, <2>2, ProjectAppears
    <3> QED
      BY <1>3, <3>1 DEF OvertakenByHost, ShadowIsCurrent, Baseline, LatestBatch, FullsOf, BatchesOf
  <2> QED
    BY <2>1, <2>2
<1>4. ASSUME NEW b \in Reading, batches' = Append(batches, b), UNCHANGED seen
      PROVE  OvertakenByHost(c)'
  <2>1. /\ BatchesOf(w)' \in {BatchesOf(w), BatchesOf(w) \cup {n + 1}}
        /\ FullsOf(w)' \in {FullsOf(w), FullsOf(w) \cup {n + 1}}
    BY <1>4, BatchIsRecorded
  <2>2. CASE FullsOf(w)' = FullsOf(w) \cup {n + 1}
    <3>1. FullsOf(w) \cup {n + 1} \in SUBSET (1..(n + 1)) /\ n + 1 \in Nat
      BY <1>1
    <3>2. Baseline(w)' = n + 1
      BY <2>2, <3>1, NewIsGreatest DEF Baseline
    <3>3. n + 1 # c.found.baseline
      BY <1>1
    <3> QED
      BY <3>2, <3>3 DEF OvertakenByHost
  <2>3. CASE BatchesOf(w)' = BatchesOf(w) \cup {n + 1}
    <3>1. BatchesOf(w) \cup {n + 1} \in SUBSET (1..(n + 1)) /\ n + 1 \in Nat
      BY <1>1
    <3>2. LatestBatch(w)' = n + 1
      BY <2>3, <3>1, NewIsGreatest DEF LatestBatch
    <3>3. n + 1 # c.found.latest
      BY <1>1
    <3> QED
      BY <3>2, <3>3 DEF OvertakenByHost
  <2>4. CASE FullsOf(w)' = FullsOf(w) /\ BatchesOf(w)' = BatchesOf(w)
    BY <2>4 DEF OvertakenByHost, ShadowIsCurrent, Baseline, LatestBatch
  <2> QED
    BY <2>1, <2>2, <2>3, <2>4
<1> QED
  BY <1>2, <1>3, <1>4, HostStep DEF hostVars

-----------------------------------------------------------------------------
(* Projects and their places *)

LEMMA SeqOver ==
  ASSUME NEW S, NEW T, NEW q \in Seq(S), \A i \in 1..Len(q) : q[i] \in T
  PROVE  q \in Seq(T)
<1>1. Len(q) \in Nat /\ q \in [1..Len(q) -> S]
  BY LenProperties
<1>2. q \in [1..Len(q) -> T]
  BY <1>1
<1> QED
  BY <1>1, <1>2, SeqDef

\* The rows that name an observation stay typed when there are more of them.
LEMMA RowsStayTyped ==
  ASSUME HostTypeOK, spaces' \in [Workspace -> {None} \cup Project],
         seen' \in Seq(Stay), DOMAIN seen' = 1..(Len(seen) + 1),
         UNCHANGED <<batches, facts, session>>
  PROVE  HostTypeOK'
<1>1. DOMAIN seen = 1..Len(seen) /\ Len(seen) \in Nat
  BY Ids
<1>2. DOMAIN seen \subseteq DOMAIN seen'
  BY <1>1
<1>3. Reading \subseteq Reading' /\ Answer \subseteq Answer'
  BY <1>2 DEF Reading, Answer
<1>4. batches \in Seq(Reading') /\ facts \in Seq(Answer')
  <2>1. \A i \in 1..Len(batches) : batches[i] \in Reading'
    BY <1>3, Ids
  <2>2. \A i \in 1..Len(facts) : facts[i] \in Answer'
    BY <1>3, Ids, ElementOfSeq
  <2> QED
    BY <2>1, <2>2, Ids, SeqOver
<1>5. session' \in [Session -> {0} \cup DOMAIN seen']
  BY <1>2 DEF HostTypeOK
<1> QED
  BY <1>4, <1>5 DEF HostTypeOK, Stay, Reading, Answer

\* What the tables of a known project say.
LEMMA OfKnown ==
  ASSUME HostTypeOK, WorkspacesReadable, NEW w \in Known
  PROVE  /\ spaces[w] \in Project /\ HistoryOf(w) # {}
         /\ Current(w) \in 1..Len(seen)
         /\ Least(HistoryOf(w)) \in HistoryOf(w) /\ \A j \in HistoryOf(w) : Least(HistoryOf(w)) <= j
<1>1. spaces[w] \in Project
  BY DEF Known, HostTypeOK
<1>2. HistoryOf(w) # {} /\ HistoryOf(w) \in SUBSET (1..Len(seen)) /\ Len(seen) \in Nat
  BY Ids DEF WorkspacesReadable
<1>3. Current(w) \in HistoryOf(w)
  BY <1>2, GreatestIs DEF Current
<1>4. HistoryOf(w) \in SUBSET Nat
  BY <1>2
<1> QED
  BY <1>1, <1>2, <1>3, <1>4, LeastIs

\* A project of which nothing was said before is as readable as before.
LEMMA OthersReadable ==
  ASSUME HostTypeOK, WorkspacesReadable, NEW w \in Workspace,
         NEW kind \in {"CREATED", "DERIVED", "EXISTING"},
         NEW rt \in Runtime, NEW loc \in Location, Appear(w, kind, rt, loc),
         \A u \in Known : spaces'[u] = spaces[u], Known \subseteq Known',
         NEW v \in Known, v # w
  PROVE  LET history == HistoryOf(v)'  own == spaces'[v] IN
         /\ own.source # None => own.source # v /\ own.source \in Known'
                                 /\ spaces'[own.source].song = own.song
         /\ history # {} /\ seen'[Least(history)].kind = FirstKind(own.source)
         /\ \A i \in history : FamilyOf[seen'[i].rt] = own.family
         /\ \A i \in history \ {Least(history)} : seen'[i].kind = "EXISTING"
<1>1. HistoryOf(v)' = HistoryOf(v) /\ HistoryOf(v) \in SUBSET (1..Len(seen))
      /\ \A i \in 1..Len(seen) : seen'[i] = seen[i]
  BY ProjectAppears, Ids
<1>2. Least(HistoryOf(v)) \in HistoryOf(v)
  BY OfKnown
<1>3. \A i \in HistoryOf(v) : seen'[i] = seen[i]
  BY <1>1
<1>4. spaces'[v] = spaces[v]
  OBVIOUS
<1> QED
  BY <1>1, <1>2, <1>3, <1>4 DEF WorkspacesReadable

\* The places of the projects stay apart, if nobody else is at the new one.
LEMMA PlacesApart ==
  ASSUME HostTypeOK, WorkspacesReadable, NEW w \in Workspace,
         NEW kind \in {"CREATED", "DERIVED", "EXISTING"},
         NEW rt \in Runtime, NEW loc \in Location, Appear(w, kind, rt, loc),
         Known' \subseteq Known \cup {w}, CandidatesAt(loc) \subseteq {w}
  PROVE  \A u, v \in Known' : u # v => seen'[Current(u)'].loc # seen'[Current(v)'].loc
<1>1. seen'[Current(w)'].loc = loc
  <2>1. seen'[Current(w)'] = [ws |-> w, kind |-> kind, rt |-> rt, loc |-> loc]
    BY ProjectAppears
  <2> QED
    BY <2>1
<1>2. ASSUME NEW v \in Known', v # w
      PROVE  seen'[Current(v)'].loc = seen[Current(v)].loc /\ v \in Known
             /\ seen[Current(v)].loc # loc
  <2>1. v \in Known /\ Current(v)' = Current(v) /\ \A i \in 1..Len(seen) : seen'[i] = seen[i]
    BY <1>2, ProjectAppears
  <2>2. Current(v) \in 1..Len(seen)
    BY <2>1, OfKnown
  <2>3. v \notin CandidatesAt(loc)
    BY <1>2
  <2> QED
    BY <2>1, <2>2, <2>3 DEF CandidatesAt
<1> QED
  BY <1>1, <1>2 DEF WorkspacesReadable

\* Who is where.
ProjectsInv == HostTypeOK /\ WorkspacesReadable /\ KnownInv

\* create and derive.
LEMMA ProjectIsNew ==
  ASSUME ProjectsInv, NEW w \in Workspace, NEW song \in Song, NEW source \in Workspace \cup {None},
         NEW rt \in Runtime, NEW loc \in Location, NewWorkspace(w, song, source, rt, loc),
         source # None => source \in Known /\ song = spaces[source].song
  PROVE  /\ ProjectsInv' /\ Known \subseteq Known' /\ \A v \in Known : spaces'[v] = spaces[v]
<1> DEFINE n == Len(seen)
           p == [song |-> song, family |-> FamilyOf[rt], source |-> source]
<1>1. /\ HostTypeOK /\ WorkspacesReadable /\ KnownInv
      /\ FirstKind(source) \in {"CREATED", "DERIVED", "EXISTING"}
      /\ Appear(w, FirstKind(source), rt, loc) /\ w \notin Known
      /\ CandidatesAt(loc) = {} /\ UNCHANGED <<batches, facts, session>>
  BY DEF ProjectsInv, NewWorkspace, FirstKind, Known
<1>2. /\ seen' \in Seq(Stay) /\ DOMAIN seen' = 1..(n + 1)
      /\ \A i \in 1..n : seen'[i] = seen[i]
      /\ seen'[n + 1] = [ws |-> w, kind |-> FirstKind(source), rt |-> rt, loc |-> loc]
      /\ HistoryOf(w)' = HistoryOf(w) \cup {n + 1}
  BY <1>1, ProjectAppears
<1>3. /\ spaces' = [spaces EXCEPT ![w] = p] /\ p \in Project /\ p # None
      /\ spaces \in [Workspace -> {None} \cup Project]
  <2>1. p \in Project /\ spaces \in [Workspace -> {None} \cup Project]
    BY <1>1 DEF HostTypeOK, Project, NewWorkspace
  <2>2. spaces' = [spaces EXCEPT ![w] = p]
    BY DEF NewWorkspace
  <2>3. p # None
    BY <2>1, HostAssumption
  <2> QED
    BY <2>1, <2>2, <2>3
<1>4. Known' = Known \cup {w} /\ \A u \in Known : spaces'[u] = spaces[u]
  BY <1>1, <1>3 DEF Known
<1>5. /\ HistoryOf(w)' = {n + 1} /\ Least({n + 1}) = n + 1
  <2>1. HistoryOf(w) = {}
    BY <1>1 DEF KnownInv, HistoryOf
  <2>2. n + 1 \in Nat
    BY <1>1, Ids
  <2>3. {n + 1} \in SUBSET Nat /\ {n + 1} # {}
    BY <2>2
  <2> QED
    BY <1>2, <2>1, <2>3, LeastIs
<1>6. HostTypeOK'
  <2>1. spaces' \in [Workspace -> {None} \cup Project]
    BY <1>3
  <2> QED
    BY <1>1, <1>2, <2>1, RowsStayTyped
<1>7. KnownInv'
  BY <1>1, <1>2, <1>4, Ids DEF KnownInv
<1>8. WorkspacesReadable'
  <2>1. \A u, v \in Known' : u # v => seen'[Current(u)'].loc # seen'[Current(v)'].loc
    BY <1>1, <1>4, PlacesApart
  <2>2. ASSUME NEW v \in Known'
        PROVE  LET history == HistoryOf(v)'  own == spaces'[v] IN
               /\ own.source # None => own.source # v /\ own.source \in Known'
                                       /\ spaces'[own.source].song = own.song
               /\ history # {} /\ seen'[Least(history)].kind = FirstKind(own.source)
               /\ \A i \in history : FamilyOf[seen'[i].rt] = own.family
               /\ \A i \in history \ {Least(history)} : seen'[i].kind = "EXISTING"
    <3>1. CASE v = w
      <4>1. spaces'[w] = p
        BY <1>3
      <4>2. source # None => source # w /\ source \in Known' /\ spaces'[source].song = song
        BY <1>1, <1>4
      <4>3. seen'[n + 1].kind = FirstKind(source) /\ seen'[n + 1].rt = rt
        BY <1>2
      <4>4. spaces'[w].source = source /\ spaces'[w].family = FamilyOf[rt] /\ spaces'[w].song = song
        BY <4>1
      <4> HIDE DEF p
      <4>5. /\ HistoryOf(w)' # {} /\ seen'[Least(HistoryOf(w)')].kind = FirstKind(spaces'[w].source)
            /\ \A i \in HistoryOf(w)' : FamilyOf[seen'[i].rt] = spaces'[w].family
            /\ HistoryOf(w)' \ {Least(HistoryOf(w)')} = {}
        BY <1>5, <4>3, <4>4
      <4> QED
        BY <3>1, <4>2, <4>4, <4>5
    <3>2. CASE v # w
      <4>1. v \in Known
        BY <1>4, <3>2
      <4> QED
        BY <1>1, <1>4, <3>2, <4>1, OthersReadable
    <3> QED
      BY <3>1, <3>2
  <2> QED
    BY <2>1, <2>2 DEF WorkspacesReadable
<1> QED
  BY <1>4, <1>6, <1>7, <1>8 DEF ProjectsInv

\* reconcile_existing.
LEMMA ProjectIsSeenAgain ==
  ASSUME ProjectsInv, NEW w \in Workspace, NEW rt \in Runtime, NEW loc \in Location,
         ReconcileExisting(w, rt, loc)
  PROVE  ProjectsInv'
<1> DEFINE n == Len(seen)
<1>1. /\ HostTypeOK /\ WorkspacesReadable /\ KnownInv
      /\ Appear(w, "EXISTING", rt, loc) /\ w \in Known /\ FamilyOf[rt] = spaces[w].family
      /\ CandidatesAt(loc) \subseteq {w} /\ UNCHANGED <<spaces, batches, facts, session>>
      /\ n \in Nat
  BY Ids DEF ProjectsInv, ReconcileExisting
<1>2. /\ seen' \in Seq(Stay) /\ DOMAIN seen' = 1..(n + 1)
      /\ \A i \in 1..n : seen'[i] = seen[i]
      /\ seen'[n + 1] = [ws |-> w, kind |-> "EXISTING", rt |-> rt, loc |-> loc]
      /\ HistoryOf(w)' = HistoryOf(w) \cup {n + 1}
  BY <1>1, ProjectAppears
<1>3. Known' = Known
  BY <1>1 DEF Known
<1>4. /\ HistoryOf(w) \in SUBSET (1..n) /\ HistoryOf(w) # {}
      /\ Least(HistoryOf(w)) \in HistoryOf(w)
      /\ Least(HistoryOf(w)') = Least(HistoryOf(w))
  <2>1. /\ HistoryOf(w) \in SUBSET (1..n) /\ HistoryOf(w) # {}
        /\ Least(HistoryOf(w)) \in HistoryOf(w)
        /\ \A j \in HistoryOf(w) : Least(HistoryOf(w)) <= j
    BY <1>1, Ids, OfKnown
  <2>2. HistoryOf(w)' \in SUBSET Nat /\ HistoryOf(w)' # {}
    BY <1>1, <1>2, <2>1
  <2>3. Least(HistoryOf(w)') \in HistoryOf(w)' /\ \A j \in HistoryOf(w)' : Least(HistoryOf(w)') <= j
    BY <2>2, LeastIs
  <2>4. Least(HistoryOf(w)') <= Least(HistoryOf(w)) /\ Least(HistoryOf(w)) \in 1..n
    BY <1>2, <2>1, <2>3
  <2>5. Least(HistoryOf(w)') \in HistoryOf(w)
    BY <1>1, <1>2, <2>2, <2>3, <2>4
  <2>6. Least(HistoryOf(w)) <= Least(HistoryOf(w)')
    BY <2>1, <2>5
  <2> QED
    BY <2>1, <2>4, <2>5, <2>6
<1>5. HostTypeOK'
  BY <1>1, <1>2, RowsStayTyped DEF HostTypeOK
<1>6. KnownInv'
  BY <1>1, <1>2, <1>3, Ids DEF KnownInv
<1>7. WorkspacesReadable'
  <2>1. \A u, v \in Known' : u # v => seen'[Current(u)'].loc # seen'[Current(v)'].loc
    BY <1>1, <1>3, PlacesApart
  <2>2. ASSUME NEW v \in Known'
        PROVE  LET history == HistoryOf(v)'  own == spaces'[v] IN
               /\ own.source # None => own.source # v /\ own.source \in Known'
                                       /\ spaces'[own.source].song = own.song
               /\ history # {} /\ seen'[Least(history)].kind = FirstKind(own.source)
               /\ \A i \in history : FamilyOf[seen'[i].rt] = own.family
               /\ \A i \in history \ {Least(history)} : seen'[i].kind = "EXISTING"
    <3>1. CASE v = w
      <4>1. \A i \in HistoryOf(w) : seen'[i] = seen[i]
        BY <1>2, <1>4
      <4>2. \A i \in HistoryOf(w)' : FamilyOf[seen'[i].rt] = spaces'[w].family
        BY <1>1, <1>2, <4>1 DEF WorkspacesReadable
      <4>3. \A i \in HistoryOf(w)' \ {Least(HistoryOf(w)')} : seen'[i].kind = "EXISTING"
        BY <1>1, <1>2, <1>4, <4>1 DEF WorkspacesReadable
      <4>4. HistoryOf(w)' # {} /\ seen'[Least(HistoryOf(w)')].kind = FirstKind(spaces'[w].source)
        BY <1>1, <1>2, <1>4, <4>1 DEF WorkspacesReadable
      <4>5. spaces'[w].source # None =>
               spaces'[w].source # w /\ spaces'[w].source \in Known'
               /\ spaces'[spaces'[w].source].song = spaces'[w].song
        BY <1>1, <1>3 DEF WorkspacesReadable
      <4> QED
        BY <3>1, <4>2, <4>3, <4>4, <4>5
    <3>2. CASE v # w
      <4>1. v \in Known /\ Known \subseteq Known' /\ \A u \in Known : spaces'[u] = spaces[u]
        BY <1>1, <1>3
      <4> QED
        BY <1>1, <3>2, <4>1, OthersReadable
    <3> QED
      BY <3>1, <3>2
  <2> QED
    BY <2>1, <2>2 DEF WorkspacesReadable
<1> QED
  BY <1>5, <1>6, <1>7 DEF ProjectsInv

-----------------------------------------------------------------------------
(* What a session records *)

\* The place of a session is an observation that is typed.
LEMMA SessionPlace ==
  ASSUME HostTypeOK, NEW s \in Session, session[s] # 0
  PROVE  session[s] \in DOMAIN seen /\ seen[session[s]].ws \in Workspace
<1>1. session[s] \in DOMAIN seen
  BY DEF HostTypeOK
<1>2. seen[session[s]] \in Stay
  BY <1>1, Ids, ElementOfSeq
<1> QED
  BY <1>1, <1>2 DEF Stay

\* What observe recorded: of either table no row, or one that was accepted.
LEMMA SessionRecords ==
  ASSUME HostTypeOK, NEW s \in Session, Observe(s)
  PROVE  LET o == session[s] IN
         /\ o \in DOMAIN seen /\ seen[o].ws \in Workspace /\ Current(seen[o].ws) = o
         /\ \/ UNCHANGED facts
            \/ \E f \in Facts(o) : FollowsHistory(o, f) /\ facts' = Append(facts, f)
         /\ \/ UNCHANGED batches
            \/ \E b \in Readings(o) : ShadowAccepted(o, b.coverage) /\ batches' = Append(batches, b)
         /\ UNCHANGED <<spaces, seen>>
         /\ session' = [session EXCEPT ![s] = 0]
<1> DEFINE o == session[s]
<1>1. o \in DOMAIN seen /\ seen[o].ws \in Workspace /\ Current(seen[o].ws) = o
  BY SessionPlace DEF Observe
<1>2. PICK now \in Time, found \in {<<>>} \cup {<<f>> : f \in Facts(o)},
           read \in {<<>>} \cup {<<b>> : b \in Readings(o)} :
        /\ \A i \in DOMAIN found : CapabilityAccepted(o, found[i], now)
        /\ \A i \in DOMAIN read : ShadowAccepted(o, read[i].coverage)
        /\ facts' = facts \o found
        /\ batches' = batches \o read \/ UNCHANGED batches
  BY DEF Observe
<1>3. UNCHANGED <<spaces, seen>> /\ session' = [session EXCEPT ![s] = 0]
  BY DEF Observe
<1>4. facts \in Seq(Answer) /\ batches \in Seq(Reading)
  BY Ids
<1>5. Facts(o) \in SUBSET Answer /\ Readings(o) \in SUBSET Reading
  BY <1>1 DEF Facts, Answer, Readings, Reading
<1> HIDE DEF o
<1>6. \/ UNCHANGED facts
      \/ \E f \in Facts(o) : FollowsHistory(o, f) /\ facts' = Append(facts, f)
  <2>1. CASE found = <<>>
    BY <1>2, <1>4, <2>1
  <2>2. ASSUME NEW f \in Facts(o), found = <<f>>
        PROVE  FollowsHistory(o, f) /\ facts' = Append(facts, f)
    <3>1. 1 \in DOMAIN found /\ found[1] = f
      BY <2>2
    <3>2. CapabilityAccepted(o, f, now)
      BY <1>2, <3>1
    <3>3. f \in Answer
      BY <1>5
    <3>4. facts \o <<f>> = Append(facts, f)
      BY <1>4, <3>3
    <3> QED
      BY <1>2, <2>2, <3>2, <3>4 DEF CapabilityAccepted
  <2> QED
    BY <1>2, <2>1, <2>2
<1>7. \/ UNCHANGED batches
      \/ \E b \in Readings(o) : ShadowAccepted(o, b.coverage) /\ batches' = Append(batches, b)
  <2>1. CASE read = <<>>
    BY <1>2, <1>4, <2>1
  <2>2. ASSUME NEW b \in Readings(o), read = <<b>>
        PROVE  ShadowAccepted(o, b.coverage) /\ batches \o read = Append(batches, b)
    <3>1. 1 \in DOMAIN read /\ read[1] = b
      BY <2>2
    <3>2. ShadowAccepted(o, b.coverage)
      BY <1>2, <3>1
    <3>3. b \in Reading
      BY <1>5
    <3> QED
      BY <1>4, <2>2, <3>2, <3>3
  <2> QED
    BY <1>2, <2>1, <2>2
<1> QED
  BY <1>1, <1>3, <1>6, <1>7 DEF o

\* Where nothing moves, the projects are as readable as before.
LEMMA ProjectsStand ==
  ASSUME WorkspacesReadable, KnownInv, UNCHANGED <<spaces, seen>>
  PROVE  WorkspacesReadable' /\ KnownInv'
<1>1. Known' = Known
  BY DEF Known
<1>2. \A w : HistoryOf(w)' = HistoryOf(w)
  BY DEF HistoryOf
<1>3. \A w : Current(w)' = Current(w)
  BY <1>2 DEF Current
<1>4. KnownInv'
  BY <1>1 DEF KnownInv
<1>5. \A u, v \in Known' : u # v => seen'[Current(u)'].loc # seen'[Current(v)'].loc
  BY <1>1, <1>3 DEF WorkspacesReadable
<1>6. ASSUME NEW w \in Known'
      PROVE  LET history == HistoryOf(w)'  own == spaces'[w] IN
             /\ own.source # None => own.source # w /\ own.source \in Known'
                                     /\ spaces'[own.source].song = own.song
             /\ history # {} /\ seen'[Least(history)].kind = FirstKind(own.source)
             /\ \A i \in history : FamilyOf[seen'[i].rt] = own.family
             /\ \A i \in history \ {Least(history)} : seen'[i].kind = "EXISTING"
  <2>1. w \in Known /\ HistoryOf(w)' = HistoryOf(w) /\ spaces' = spaces /\ seen' = seen
    BY <1>1, <1>2
  <2> QED
    BY <1>1, <2>1 DEF WorkspacesReadable
<1> QED
  BY <1>4, <1>5, <1>6 DEF WorkspacesReadable

LEMMA SessionIsRecorded ==
  ASSUME ProjectsInv, FactsReadable, NEW s \in Session, Observe(s)
  PROVE  ProjectsInv' /\ FactsReadable'
<1> DEFINE o == session[s]  n == Len(facts)
<1>1. HostTypeOK /\ WorkspacesReadable /\ KnownInv
  BY DEF ProjectsInv
<1>2. /\ o \in DOMAIN seen /\ seen[o].ws \in Workspace
      /\ \/ UNCHANGED facts
         \/ \E f \in Facts(o) : FollowsHistory(o, f) /\ facts' = Append(facts, f)
      /\ UNCHANGED batches \/ \E b \in Readings(o) : batches' = Append(batches, b)
      /\ UNCHANGED <<spaces, seen>>
      /\ session' = [session EXCEPT ![s] = 0]
  BY <1>1, SessionRecords
<1>3. Facts(o) \in SUBSET Answer /\ Readings(o) \in SUBSET Reading
  BY <1>2 DEF Facts, Answer, Readings, Reading
<1>4. WorkspacesReadable' /\ KnownInv'
  BY <1>1, <1>2, ProjectsStand
<1>5. HostTypeOK'
  <2>1. batches' \in Seq(Reading)
    BY <1>1, <1>2, <1>3, Ids, Appended
  <2>2. facts' \in Seq(Answer)
    BY <1>1, <1>2, <1>3, Ids, Appended
  <2>3. session' \in [Session -> {0} \cup DOMAIN seen']
    BY <1>1, <1>2 DEF HostTypeOK
  <2> QED
    BY <1>1, <1>2, <2>1, <2>2, <2>3 DEF HostTypeOK, Reading, Answer
<1>6. FactsReadable'
  <2>1. CASE UNCHANGED facts
    BY <2>1 DEF FactsReadable
  <2>2. ASSUME NEW f \in Facts(o), FollowsHistory(o, f), facts' = Append(facts, f)
        PROVE  FactsReadable'
    <3>1. /\ n \in Nat /\ DOMAIN facts = 1..n /\ DOMAIN facts' = 1..(n + 1)
          /\ \A i \in 1..n : facts'[i] = facts[i]
          /\ facts'[n + 1] = f
      BY <1>1, <1>3, <2>2, Ids, Appended
    <3>2. f.obs = o
      BY DEF Facts
    <3>3. ASSUME NEW i \in 1..n, facts[i].obs = f.obs, facts[i].route = f.route
          PROVE  facts[i].at <= f.at /\ facts[i].kind = f.kind
      BY <2>2, <3>1, <3>2, <3>3 DEF FollowsHistory, FactsOf
    <3>4. ASSUME NEW i \in 1..(n + 1), NEW j \in 1..(n + 1), i < j,
                 facts'[i].obs = facts'[j].obs, facts'[i].route = facts'[j].route
          PROVE  facts'[i].at <= facts'[j].at /\ facts'[i].kind = facts'[j].kind
      <4>1. i \in 1..n /\ (j \in 1..n \/ j = n + 1)
        BY <3>1, <3>4
      <4>2. CASE j \in 1..n
        BY <3>1, <3>4, <4>1, <4>2 DEF FactsReadable
      <4>3. CASE j = n + 1
        BY <3>1, <3>3, <3>4, <4>1, <4>3
      <4> QED
        BY <4>1, <4>2, <4>3
    <3> QED
      BY <3>1, <3>4 DEF FactsReadable
  <2> QED
    BY <1>2, <2>1, <2>2
<1> QED
  BY <1>4, <1>5, <1>6 DEF ProjectsInv

LEMMA ShadowStaysReadable ==
  ASSUME \A m \in Map : m.keyed = "text",
         HostTypeOK, ShadowReadable, NEW s \in Session, Observe(s)
  PROVE  ShadowReadable'
<1> DEFINE o == session[s]  n == Len(batches)
<1>1. /\ o \in DOMAIN seen /\ Current(seen[o].ws) = o /\ seen[o].ws \in Workspace
      /\ \/ UNCHANGED batches
         \/ \E b \in Readings(o) : ShadowAccepted(o, b.coverage) /\ batches' = Append(batches, b)
      /\ UNCHANGED seen
  BY SessionRecords
<1>2. CASE UNCHANGED batches
  BY <1>1, <1>2 DEF ShadowReadable
<1>3. ASSUME NEW b \in Readings(o), ShadowAccepted(o, b.coverage), batches' = Append(batches, b)
      PROVE  ShadowReadable'
  <2>1. b \in Reading /\ b.ws = seen[o].ws /\ b.obs = o
    BY <1>1 DEF Readings, Reading
  <2>2. /\ n \in Nat /\ DOMAIN batches = 1..n /\ DOMAIN batches' = 1..(n + 1)
        /\ \A i \in 1..n : batches'[i] = batches[i]
        /\ batches'[n + 1] = b
    BY <1>3, <2>1, Ids, Appended
  <2>3. ASSUME NEW i \in 1..(n + 1)
        PROVE  /\ seen'[batches'[i].obs].ws = batches'[i].ws
               /\ batches'[i].coverage = "FULL" \/ \E j \in 1..(i - 1) :
                    batches'[j].ws = batches'[i].ws /\ batches'[j].obs = batches'[i].obs
                    /\ batches'[j].coverage = "FULL"
               /\ batches'[i].says \in {None, Removed}
                  \/ Canonical(batches'[i].says) = batches'[i].says
    <3>1. CASE i \in 1..n
      <4>1. \A j \in 1..(i - 1) : batches'[j] = batches[j]
        BY <2>2, <3>1
      <4> QED
        BY <1>1, <2>2, <3>1, <4>1 DEF ShadowReadable
    <3>2. CASE i = n + 1
      <4>1. batches'[i] = b /\ seen'[b.obs].ws = b.ws
        BY <1>1, <2>1, <2>2, <3>2
      <4>2. ASSUME b.coverage # "FULL"
            PROVE  \E j \in 1..(i - 1) : batches'[j].ws = b.ws /\ batches'[j].obs = b.obs
                                         /\ batches'[j].coverage = "FULL"
        <5>1. PICK j \in FullsOf(seen[o].ws) : TRUE
          BY <1>3, <4>2 DEF ShadowAccepted, ShadowIsCurrent
        <5>2. /\ j \in 1..n /\ batches[j].ws = b.ws /\ batches[j].obs = b.obs
              /\ batches[j].coverage = "FULL"
          BY <1>1, <2>1, <2>2, <5>1 DEF FullsOf, BatchesOf
        <5> QED
          BY <2>2, <3>2, <5>2
      <4>3. b.says \in {None, Removed} \/ Canonical(b.says) = b.says
        BY <2>1, TextsReadBack DEF Reading, Texts
      <4> QED
        BY <4>1, <4>2, <4>3
    <3> QED
      BY <2>2, <3>1, <3>2
  <2> QED
    BY <2>2, <2>3 DEF ShadowReadable
<1> QED
  BY <1>1, <1>2, <1>3

-----------------------------------------------------------------------------
(* Claims and cases *)

\* What the batches from one to another say does not change.
LEMMA WordStands ==
  ASSUME NEW n \in Nat, \A i \in 1..n : batches'[i] = batches[i],
         NEW first \in 1..n, NEW last \in 1..n
  PROVE  FactBetween(first, last)' = FactBetween(first, last)
<1> DEFINE said == {i \in first..last : /\ batches[i].ws = batches[first].ws
                                        /\ batches[i].obs = batches[first].obs
                                        /\ batches[i].says # None}
           saidThen == {i \in first..last : /\ batches'[i].ws = batches'[first].ws
                                            /\ batches'[i].obs = batches'[first].obs
                                            /\ batches'[i].says # None}
<1>1. first..last \in SUBSET (1..n)
  OBVIOUS
<1>2. \A i \in first..last : batches'[i] = batches[i]
  BY <1>1
<1>3. saidThen = said
  BY <1>2
<1>4. said \in SUBSET (1..n)
  BY <1>1
<1> HIDE DEF said
<1>5. CASE said = {}
  BY <1>3, <1>5 DEF FactBetween, LastWord, said
<1>6. CASE said # {}
  <2>1. Greatest(said) \in 1..n
    BY <1>4, <1>6, GreatestIs
  <2>2. batches'[Greatest(said)] = batches[Greatest(said)]
    BY <2>1
  <2> QED
    BY <1>3, <2>2 DEF FactBetween, LastWord, said
<1> QED
  BY <1>5, <1>6

\* Rows of the other tables that are added, and none that is changed.
RowsAdded ==
  /\ Known \subseteq Known' /\ \A w \in Known : spaces'[w] = spaces[w]
  /\ DOMAIN batches \subseteq DOMAIN batches' /\ \A i \in DOMAIN batches : batches'[i] = batches[i]
  /\ DOMAIN claims \subseteq DOMAIN claims' /\ \A i \in DOMAIN claims : claims'[i] = claims[i]

\* A case that is as it was tells what it told, and can be read.
LEMMA CaseStands ==
  ASSUME HostTypeOK, RowsAdded, NEW c, CaseReadable(c), CaseTold(c)
  PROVE  CaseReadable(c)' /\ CaseTold(c)'
<1>1. /\ c.ws \in Known /\ c.found.ids \subseteq DOMAIN claims
      /\ {c.found.baseline, c.found.latest} \subseteq DOMAIN batches
      /\ c.found.fact # None => c.found.fact.batch \in DOMAIN batches
      /\ c.found.values = {Canonical(claims[i].value) : i \in c.found.ids}
      /\ c.found.fact = FactBetween(c.found.baseline, c.found.latest)
      /\ c.found.status = StatusOf(c.found.values, c.found.fact)
  BY DEF CaseTold
<1>2. FactBetween(c.found.baseline, c.found.latest)'
        = FactBetween(c.found.baseline, c.found.latest)
  <2>1. DOMAIN batches = 1..Len(batches) /\ Len(batches) \in Nat
    BY Ids
  <2>2. PICK n \in Nat : n = Len(batches)
    BY <2>1
  <2>3. \A i \in 1..n : batches'[i] = batches[i]
    BY <2>1, <2>2 DEF RowsAdded
  <2>4. c.found.baseline \in 1..n /\ c.found.latest \in 1..n
    BY <1>1, <2>1, <2>2
  <2> QED
    BY <2>3, <2>4, WordStands
<1>3. {Canonical(claims'[i].value) : i \in c.found.ids}
        = {Canonical(claims[i].value) : i \in c.found.ids}
  BY <1>1 DEF RowsAdded
<1>4. CaseReadable(c)'
  BY <1>1 DEF RowsAdded, CaseReadable
<1>5. CaseTold(c)'
  BY <1>1, <1>2, <1>3 DEF RowsAdded, CaseTold
<1> QED
  BY <1>4, <1>5

LEMMA CasesStand ==
  ASSUME HostTypeOK, CasesReadable, CaseInv, RowsAdded, UNCHANGED cases
  PROVE  CasesReadable' /\ CaseInv'
<1>1. ASSUME NEW n \in DOMAIN cases'
      PROVE  CaseReadable(cases[n])' /\ CaseTold(cases[n])'
  <2>1. PICK c : c = cases[n] /\ c = cases'[n]
    OBVIOUS
  <2>2. CaseReadable(c) /\ CaseTold(c)
    BY <1>1, <2>1 DEF CasesReadable, CaseInv
  <2>3. CaseReadable(c)' /\ CaseTold(c)'
    BY <2>2, CaseStands
  <2> QED
    BY <2>1, <2>3
<1> QED
  BY <1>1 DEF CasesReadable, CaseInv

-----------------------------------------------------------------------------
(* A comparison *)

Claimed == [scope : Scope, domain : Domain, value : Texts, over : SUBSET DOMAIN claims]

\* The word of the host is what the batches say from the baseline to the latest one.
LEMMA FactIsBetween ==
  ASSUME HostTypeOK, NEW w, ShadowIsCurrent(w)
  PROVE  /\ Baseline(w) \in FullsOf(w) /\ LatestBatch(w) \in BatchesOf(w)
         /\ HostFact(w) = FactBetween(Baseline(w), LatestBatch(w))
<1> DEFINE n == Len(batches)  first == Baseline(w)  last == LatestBatch(w)
<1>1. /\ n \in Nat /\ DOMAIN batches = 1..n
      /\ BatchesOf(w) \in SUBSET (1..n) /\ FullsOf(w) \in SUBSET BatchesOf(w)
      /\ FullsOf(w) # {} /\ BatchesOf(w) # {}
  BY Ids DEF ShadowIsCurrent
<1>2. first \in FullsOf(w) /\ last \in BatchesOf(w) /\ \A j \in BatchesOf(w) : j <= last
  <2>1. FullsOf(w) \in SUBSET (1..n)
    BY <1>1
  <2> QED
    BY <1>1, <2>1, GreatestIs DEF Baseline, LatestBatch
<1>3. first \in 1..n /\ last \in 1..n /\ batches[first].ws = w /\ batches[first].obs = Current(w)
  BY <1>1, <1>2 DEF BatchesOf
<1> HIDE DEF first, last
<1>4. {i \in BatchesOf(w) : i >= first /\ batches[i].says # None}
        = {i \in first..last : /\ batches[i].ws = batches[first].ws
                               /\ batches[i].obs = batches[first].obs
                               /\ batches[i].says # None}
  <2>1. ASSUME NEW i \in BatchesOf(w), i >= first
        PROVE  i \in first..last /\ batches[i].ws = w /\ batches[i].obs = Current(w)
    BY <1>1, <1>2, <1>3, <2>1 DEF BatchesOf
  <2>2. ASSUME NEW i \in first..last, batches[i].ws = w, batches[i].obs = Current(w)
        PROVE  i \in BatchesOf(w) /\ i >= first
    BY <1>1, <1>3, <2>2 DEF BatchesOf
  <2> QED
    BY <1>3, <2>1, <2>2
<1> QED
  BY <1>2, <1>4 DEF HostFact, FactBetween, first, last

\* A word of the host is a value it reported, in a batch of the project.
LEMMA FactOfProject ==
  ASSUME HostTypeOK, NEW w
  PROVE  /\ HostFact(w) \in Fact \cup {None}
         /\ HostFact(w) # None => HostFact(w).batch \in BatchesOf(w)
<1> DEFINE said == {i \in BatchesOf(w) : i >= Baseline(w) /\ batches[i].says # None}
<1>1. /\ Len(batches) \in Nat /\ said \in SUBSET (1..Len(batches)) /\ said \in SUBSET BatchesOf(w)
      /\ \A i \in said : batches[i].says # None
      /\ \A i \in 1..Len(batches) : batches[i] \in Reading
  BY Ids
<1>2. HostFact(w) = LastWord(said)
  BY DEF HostFact
<1> HIDE DEF said
<1>3. CASE said = {} \/ batches[Greatest(said)].says = Removed
  BY <1>2, <1>3 DEF LastWord
<1>4. CASE said # {} /\ batches[Greatest(said)].says # Removed
  <2>1. Greatest(said) \in said
    BY <1>1, <1>4, GreatestIs
  <2>2. /\ Greatest(said) \in 1..Len(batches) /\ Greatest(said) \in Nat
        /\ Greatest(said) \in BatchesOf(w)
    <3>1. \A i \in said : i \in 1..Len(batches) /\ i \in Nat /\ i \in BatchesOf(w)
      BY <1>1
    <3> QED
      BY <2>1, <3>1
  <2>3. batches[Greatest(said)].says \in Texts
    BY <1>1, <1>4, <2>1, <2>2 DEF Reading
  <2>4. HostFact(w) = [value |-> Load(batches[Greatest(said)].says), batch |-> Greatest(said)]
    BY <1>2, <1>4 DEF LastWord
  <2>5. HostFact(w) \in Fact /\ HostFact(w).batch = Greatest(said)
    BY <2>2, <2>3, <2>4 DEF Fact
  <2> QED
    BY <2>2, <2>5
<1> QED
  BY <1>3, <1>4

\* The claims compared are of the song, of its version, or of something wider.
LEMMA ScopesOfSong ==
  ASSUME NEW song \in Song, NEW version \in Version \cup {None}, NEW S,
         FirstOf(Scopes(song, version), S) # None
  PROVE  FirstOf(Scopes(song, version), S) \in ({version} \ {None}) \cup {song} \cup Range(Wider)
<1> DEFINE T == ({version} \ {None}) \cup {song} \cup Range(Wider)
           q == Scopes(song, version)
           hits == {k \in DOMAIN q : q[k] \in S}
<1>1. q \in Seq(T)
  <2>1. Wider \in Seq(T)
    <3>1. \A i \in 1..Len(Wider) : Wider[i] \in T
      BY ScopeAssumption, ElementOfSeq
    <3> QED
      BY <3>1, ScopeAssumption, SeqOver
  <2>2. <<song>> \in Seq(T)
    OBVIOUS
  <2>3. (IF version = None THEN <<>> ELSE <<version>>) \in Seq(T)
    <3>1. CASE version = None
      BY <3>1
    <3>2. CASE version # None
      <4>1. version \in T
        BY <3>2
      <4> HIDE DEF T
      <4> QED
        BY <3>2, <4>1
    <3> QED
      BY <3>1, <3>2
  <2> HIDE DEF T
  <2> QED
    BY <2>1, <2>2, <2>3 DEF Scopes
<1>2. DOMAIN q = 1..Len(q) /\ Len(q) \in Nat
  BY <1>1, LenProperties
<1>3. hits # {} /\ FirstOf(q, S) = q[Least(hits)]
  BY DEF FirstOf
<1>4. Least(hits) \in DOMAIN q
  <2>1. hits \in SUBSET Nat
    BY <1>2
  <2> QED
    BY <1>3, <2>1, LeastIs
<1> QED
  BY <1>1, <1>2, <1>3, <1>4, ElementOfSeq

LEMMA ClaimsOfSong ==
  ASSUME claims \in Seq(Claimed),
         NEW song \in Song, NEW version \in Version \cup {None},
         version # None => SongOf[version] = song,
         NEW i \in TechnicalClaims(song, version)
  PROVE  /\ i \in DOMAIN claims /\ i \in Nat /\ claims[i].value \in Texts
         /\ claims[i].domain = "TECHNICAL"
         /\ claims[i].scope \in Song => claims[i].scope = song
         /\ claims[i].scope \in Version => SongOf[claims[i].scope] = song
<1>1. DOMAIN claims = 1..Len(claims) /\ Len(claims) \in Nat
  BY LenProperties
<1> DEFINE scope == FirstOf(Scopes(song, version), {s \in Scope : TechnicalOf(s) # {}})
<1>2. scope # None /\ i \in TechnicalOf(scope)
  BY DEF TechnicalClaims
<1>3. scope \in ({version} \ {None}) \cup {song} \cup Range(Wider)
  BY <1>2, ScopesOfSong
<1> HIDE DEF scope
<1>4. i \in DOMAIN claims /\ claims[i].scope = scope /\ claims[i].domain = "TECHNICAL"
  BY <1>2 DEF TechnicalOf, Active
<1>5. claims[i] \in Claimed
  BY <1>1, <1>4, ElementOfSeq
<1> QED
  BY <1>1, <1>3, <1>4, <1>5, ScopeAssumption DEF Claimed

LEMMA FoundIs ==
  ASSUME NEW ids \in SUBSET Nat, NEW values \in SUBSET Held, NEW fact \in Fact \cup {None},
         NEW baseline \in Nat, NEW latest \in Nat, NEW status \in Status
  PROVE  [ids |-> ids, values |-> values, fact |-> fact, baseline |-> baseline,
          latest |-> latest, status |-> status] \in Found
BY DEF Found

\* What a comparison finds can be read, and is so.
LEMMA ComparisonIsSound ==
  ASSUME HostTypeOK, claims \in Seq(Claimed), NEW w \in Known,
         NEW version \in Version \cup {None},
         Comparable(spaces[w].song, w, version),
         Compare(spaces[w].song, w, version).status # "MATCH", NEW c,
         c = [song |-> spaces[w].song, ws |-> w, version |-> version,
              found |-> Compare(spaces[w].song, w, version)]
  PROVE  c \in Case /\ CaseReadable(c) /\ CaseTold(c)
<1> DEFINE song == spaces[w].song
           ids == TechnicalClaims(song, version)
           fact == HostFact(w)
           values == {Canonical(claims[i].value) : i \in ids}
<1>1. song \in Song /\ w \in Workspace
  BY DEF Known, HostTypeOK, Project
<1>2. version # None => SongOf[version] = song
  BY DEF Comparable
<1>3. ASSUME NEW i \in ids
      PROVE  /\ i \in DOMAIN claims /\ i \in Nat /\ claims[i].value \in Texts
             /\ claims[i].domain = "TECHNICAL"
             /\ claims[i].scope \in Song => claims[i].scope = song
             /\ claims[i].scope \in Version => SongOf[claims[i].scope] = song
  BY <1>1, <1>2, <1>3, ClaimsOfSong
<1>4. /\ Baseline(w) \in BatchesOf(w) /\ LatestBatch(w) \in BatchesOf(w)
      /\ fact = FactBetween(Baseline(w), LatestBatch(w))
  BY FactIsBetween, Ids DEF Comparable
<1>5. \A b \in BatchesOf(w) : b \in DOMAIN batches /\ b \in Nat /\ batches[b].ws = w
  BY Ids DEF BatchesOf
<1>6. fact \in Fact \cup {None} /\ (fact # None => fact.batch \in BatchesOf(w))
  BY FactOfProject
<1>7. /\ c.song = song /\ c.ws = w /\ c.version = version
      /\ c.found = [ids |-> ids, values |-> values, fact |-> fact,
                    baseline |-> Baseline(w), latest |-> LatestBatch(w),
                    status |-> StatusOf(values, fact)]
  BY DEF Compare
<1>8. values \in SUBSET Held
  BY <1>3 DEF Held
<1>9. StatusOf(values, fact) \in Status
  BY DEF StatusOf, Status
<1>10. ids \in SUBSET Nat
  BY <1>3
<1>11. c.found.status # "MATCH"
  <2>1. c.found = Compare(song, w, version)
    OBVIOUS
  <2> QED
    BY <2>1
<1> HIDE DEF ids, fact, values, song
<1>12. /\ c.found.ids = ids /\ c.found.values = values /\ c.found.fact = fact
       /\ c.found.baseline = Baseline(w) /\ c.found.latest = LatestBatch(w)
       /\ c.found.status = StatusOf(values, fact)
  BY <1>7
<1>13. c \in Case
  <2>1. c.found \in Found
    <3>1. Baseline(w) \in Nat /\ LatestBatch(w) \in Nat
      BY <1>4, <1>5
    <3>2. fact \in Fact \cup {None}
      BY <1>6
    <3>3. ids \in SUBSET Nat
      BY <1>10
    <3>4. values \in SUBSET Held
      BY <1>8
    <3>5. StatusOf(values, fact) \in Status
      BY <1>9
    <3>6. [ids |-> ids, values |-> values, fact |-> fact, baseline |-> Baseline(w),
           latest |-> LatestBatch(w), status |-> StatusOf(values, fact)] \in Found
      BY <3>1, <3>2, <3>3, <3>4, <3>5, FoundIs
    <3> QED
      BY <1>7, <3>6
  <2>2. c = [song |-> song, ws |-> w, version |-> version, found |-> c.found]
    BY DEF song
  <2> QED
    BY <1>1, <2>1, <2>2 DEF Case
<1>14. CaseReadable(c)
  BY <1>2, <1>3, <1>4, <1>5, <1>6, <1>7, <1>11, <1>12 DEF CaseReadable, song
<1>15. CaseTold(c)
  BY <1>3, <1>4, <1>5, <1>6, <1>7, <1>12 DEF CaseTold, values
<1> QED
  BY <1>13, <1>14, <1>15

-----------------------------------------------------------------------------
(* The inductive invariant *)

Decided == [case : DOMAIN cases, choice : Answers]

LEMMA Parts ==
  ASSUME BaseInv
  PROVE  /\ ProjectsInv /\ claims \in Seq(Claimed) /\ decisions \in Seq(Decided)
         /\ cases \in Seq(Case) /\ FactsReadable /\ ClaimsReadable /\ CasesReadable /\ CaseInv
         /\ Len(claims) \in Nat /\ DOMAIN claims = 1..Len(claims)
         /\ Len(cases) \in Nat /\ DOMAIN cases = 1..Len(cases)
<1>1. /\ ProjectsInv /\ claims \in Seq(Claimed) /\ decisions \in Seq(Decided)
      /\ cases \in Seq(Case) /\ FactsReadable /\ ClaimsReadable /\ CasesReadable /\ CaseInv
  BY DEF BaseInv, TypeOK, ProjectsInv, Claimed, Decided
<1> QED
  BY <1>1, LenProperties

LEMMA PartsAfter ==
  ASSUME ProjectsInv', claims' \in Seq(Claimed'), decisions' \in Seq(Decided'),
         cases' \in Seq(Case), FactsReadable', ClaimsReadable', CasesReadable', CaseInv'
  PROVE  BaseInv'
<1>1. ASSUME NEW n \in DOMAIN cases'
      PROVE  /\ cases'[n].song \in Song /\ cases'[n].ws \in Workspace
             /\ cases'[n].version \in Version \cup {None}
  <2>1. cases'[n] \in Case
    BY <1>1, ElementOfSeq, LenProperties
  <2> QED
    BY <2>1 DEF Case
<1> QED
  BY <1>1 DEF BaseInv, TypeOK, ProjectsInv, Claimed, Decided

\* A decision stays one on a case there is.
LEMMA DecisionsStay ==
  ASSUME decisions \in Seq(Decided), DOMAIN cases \subseteq DOMAIN cases', UNCHANGED decisions
  PROVE  decisions' \in Seq(Decided')
<1>1. Decided \subseteq Decided'
  BY DEF Decided
<1>2. \A i \in 1..Len(decisions) : decisions[i] \in Decided'
  BY <1>1, ElementOfSeq
<1> QED
  BY <1>2, SeqOver

LEMMA HostSteps ==
  ASSUME BaseInv, HostNext, UNCHANGED <<claims, cases, decisions>>
  PROVE  BaseInv' /\ ((\A m \in Map : m.keyed = "text") /\ ShadowReadable => ShadowReadable')
<1>1. /\ ProjectsInv /\ HostTypeOK /\ WorkspacesReadable /\ KnownInv /\ FactsReadable
      /\ CasesReadable /\ CaseInv
      /\ DOMAIN batches = 1..Len(batches) /\ Len(batches) \in Nat
  BY Parts, Ids DEF ProjectsInv
<1>2. ASSUME ProjectsInv', FactsReadable',
             Known \subseteq Known', \A w \in Known : spaces'[w] = spaces[w],
             DOMAIN batches \subseteq DOMAIN batches',
             \A i \in DOMAIN batches : batches'[i] = batches[i]
      PROVE  BaseInv'
  <2>1. RowsAdded
    BY <1>2 DEF RowsAdded
  <2>2. CasesReadable' /\ CaseInv'
    BY <1>1, <2>1, CasesStand
  <2>3. claims' \in Seq(Claimed') /\ ClaimsReadable'
    BY Parts DEF Claimed, ClaimsReadable
  <2>4. decisions' \in Seq(Decided') /\ cases' \in Seq(Case)
    BY Parts, DecisionsStay
  <2> QED
    BY <1>2, <2>2, <2>3, <2>4, PartsAfter
<1>3. ASSUME NEW w \in Workspace, NEW song \in Song, NEW source \in Workspace \cup {None},
             NEW rt \in Runtime, NEW loc \in Location, NewWorkspace(w, song, source, rt, loc),
             source # None => source \in Known /\ song = spaces[source].song
      PROVE  BaseInv' /\ (ShadowReadable => ShadowReadable')
  <2>1. ProjectsInv' /\ Known \subseteq Known' /\ \A v \in Known : spaces'[v] = spaces[v]
    BY <1>1, <1>3, ProjectIsNew
  <2>2. /\ UNCHANGED <<batches, facts, session>>
        /\ Appear(w, FirstKind(source), rt, loc)
        /\ FirstKind(source) \in {"CREATED", "DERIVED", "EXISTING"}
    BY <1>3 DEF NewWorkspace, FirstKind
  <2>3. FactsReadable'
    BY <1>1, <2>2 DEF FactsReadable
  <2>4. ShadowReadable => ShadowReadable'
    <3>1. \A i \in 1..Len(seen) : seen'[i] = seen[i]
      BY <1>1, <2>2, ProjectAppears
    <3>2. \A i \in DOMAIN batches : batches[i].obs \in 1..Len(seen)
      BY <1>1, Ids DEF Reading
    <3> QED
      BY <2>2, <3>1, <3>2 DEF ShadowReadable
  <2> QED
    BY <1>2, <2>1, <2>2, <2>3, <2>4
<1>4. ASSUME NEW w \in Workspace, NEW rt \in Runtime, NEW loc \in Location,
             \/ \E song \in Song : Create(w, song, rt, loc)
             \/ \E source \in Workspace : Derive(w, source, rt, loc)
      PROVE  BaseInv' /\ (ShadowReadable => ShadowReadable')
  <2>1. ASSUME NEW song \in Song, Create(w, song, rt, loc)
        PROVE  BaseInv' /\ (ShadowReadable => ShadowReadable')
    <3>1. NewWorkspace(w, song, None, rt, loc)
      BY <2>1 DEF Create
    <3> QED
      BY <1>3, <3>1
  <2>2. ASSUME NEW source \in Workspace, Derive(w, source, rt, loc)
        PROVE  BaseInv' /\ (ShadowReadable => ShadowReadable')
    <3>1. source \in Known /\ NewWorkspace(w, spaces[source].song, source, rt, loc)
      BY <2>2 DEF Derive
    <3>2. spaces[source].song \in Song
      BY <1>1, <3>1 DEF Known, HostTypeOK, Project
    <3>3. PICK song \in Song : song = spaces[source].song
      BY <3>2
    <3> QED
      BY <1>3, <3>1, <3>3
  <2> QED
    BY <1>4, <2>1, <2>2
<1>5. ASSUME NEW w \in Workspace, NEW rt \in Runtime, NEW loc \in Location,
             ReconcileExisting(w, rt, loc)
      PROVE  BaseInv' /\ (ShadowReadable => ShadowReadable')
  <2>1. ProjectsInv'
    BY <1>1, <1>5, ProjectIsSeenAgain
  <2>2. UNCHANGED <<spaces, batches, facts, session>> /\ Appear(w, "EXISTING", rt, loc)
    BY <1>5 DEF ReconcileExisting
  <2>3. FactsReadable' /\ Known' = Known
    BY <1>1, <2>2 DEF FactsReadable, Known
  <2>4. ShadowReadable => ShadowReadable'
    <3>1. \A i \in 1..Len(seen) : seen'[i] = seen[i]
      BY <1>1, <2>2, ProjectAppears
    <3>2. \A i \in DOMAIN batches : batches[i].obs \in 1..Len(seen)
      BY <1>1, Ids DEF Reading
    <3> QED
      BY <2>2, <3>1, <3>2 DEF ShadowReadable
  <2> QED
    BY <1>2, <2>1, <2>2, <2>3, <2>4
<1>6. ASSUME NEW s \in Session, Observe(s)
      PROVE  BaseInv' /\ ((\A m \in Map : m.keyed = "text") /\ ShadowReadable => ShadowReadable')
  <2>1. ProjectsInv' /\ FactsReadable'
    BY <1>1, <1>6, SessionIsRecorded
  <2>2. (\A m \in Map : m.keyed = "text") /\ ShadowReadable => ShadowReadable'
    BY <1>1, <1>6, ShadowStaysReadable
  <2>3. /\ UNCHANGED <<spaces, seen>>
        /\ UNCHANGED batches \/ \E b \in Readings(session[s]) : batches' = Append(batches, b)
        /\ session[s] \in DOMAIN seen /\ seen[session[s]].ws \in Workspace
    BY <1>1, <1>6, SessionRecords
  <2>4. Readings(session[s]) \in SUBSET Reading
    BY <2>3 DEF Readings, Reading
  <2>5. /\ DOMAIN batches \subseteq DOMAIN batches'
        /\ \A i \in DOMAIN batches : batches'[i] = batches[i]
    <3>1. ASSUME NEW b \in Reading, batches' = Append(batches, b)
          PROVE  /\ DOMAIN batches \subseteq DOMAIN batches'
                 /\ \A i \in DOMAIN batches : batches'[i] = batches[i]
      BY <1>1, <3>1, Ids, Appended
    <3> QED
      BY <2>3, <2>4, <3>1
  <2>6. Known' = Known
    BY <2>3 DEF Known
  <2> QED
    BY <1>2, <2>1, <2>2, <2>3, <2>5, <2>6
<1>7. ASSUME NEW s \in Session, Abandon(s) \/ \E w \in Workspace : BeginSession(s, w)
      PROVE  BaseInv' /\ (ShadowReadable => ShadowReadable')
  <2>1. UNCHANGED <<spaces, seen, batches, facts>>
    BY <1>7 DEF Abandon, BeginSession
  <2>2. session' \in [Session -> {0} \cup DOMAIN seen]
    <3>1. ASSUME NEW w \in Known PROVE Current(w) \in DOMAIN seen
      BY <1>1, <3>1, OfKnown, Ids
    <3>2. session \in [Session -> {0} \cup DOMAIN seen]
      BY <1>1 DEF HostTypeOK
    <3> QED
      BY <1>7, <3>1, <3>2 DEF Abandon, BeginSession
  <2>3. HostTypeOK'
    BY <1>1, <2>1, <2>2 DEF HostTypeOK
  <2>4. ProjectsInv'
    BY <1>1, <2>1, <2>3, ProjectsStand DEF ProjectsInv
  <2>5. FactsReadable' /\ Known' = Known /\ (ShadowReadable => ShadowReadable')
    BY <1>1, <2>1 DEF FactsReadable, Known, ShadowReadable
  <2> QED
    BY <1>2, <2>1, <2>4, <2>5
<1> QED
  BY <1>4, <1>5, <1>6, <1>7 DEF HostNext

LEMMA ClaimIsRecorded ==
  ASSUME BaseInv, NEW scope \in Scope, NEW domain \in Domain, NEW v \in Value, NEW over,
         RecordClaim(scope, domain, v, over)
  PROVE  BaseInv'
<1> DEFINE n == Len(claims)
           r == [scope |-> scope, domain |-> domain, value |-> Dump(v), over |-> over]
<1>1. /\ claims' = Append(claims, r) /\ over \subseteq Active(scope)
      /\ UNCHANGED <<hostVars, cases, decisions>>
  BY DEF RecordClaim
<1>2. /\ ProjectsInv /\ HostTypeOK /\ claims \in Seq(Claimed) /\ ClaimsReadable
      /\ FactsReadable /\ CasesReadable /\ CaseInv
      /\ n \in Nat /\ DOMAIN claims = 1..n
  BY Parts DEF ProjectsInv
<1>3. \A j \in over : j \in 1..n /\ claims[j].scope = scope
  BY <1>1, <1>2 DEF Active
<1>4. r \in Claimed
  BY <1>2, <1>3 DEF Claimed, Texts
<1>5. /\ claims' \in Seq(Claimed) /\ Len(claims') = n + 1 /\ DOMAIN claims' = 1..(n + 1)
      /\ \A i \in 1..n : claims'[i] = claims[i]
      /\ claims'[n + 1] = r
  BY <1>1, <1>2, <1>4, Appended
<1>6. claims' \in Seq(Claimed')
  <2>1. Claimed \subseteq Claimed'
    BY <1>2, <1>5 DEF Claimed
  <2>2. \A i \in 1..Len(claims') : claims'[i] \in Claimed'
    BY <1>5, <2>1, ElementOfSeq
  <2> QED
    BY <1>5, <2>2, SeqOver
<1>7. ClaimsReadable'
  <2>1. ASSUME NEW i \in 1..(n + 1), NEW j \in claims'[i].over
        PROVE  j < i /\ claims'[j].scope = claims'[i].scope
    <3>1. CASE i \in 1..n
      <4>1. j \in claims[i].over /\ claims'[i] = claims[i]
        BY <1>5, <2>1, <3>1
      <4>2. j < i /\ claims[j].scope = claims[i].scope
        BY <1>2, <3>1, <4>1 DEF ClaimsReadable
      <4>3. claims[i].over \in SUBSET (1..n)
        <5>1. claims[i] \in Claimed
          BY <1>2, <3>1, ElementOfSeq
        <5> QED
          BY <1>2, <5>1 DEF Claimed
      <4> QED
        BY <1>5, <4>1, <4>2, <4>3
    <3>2. CASE i = n + 1
      <4>1. claims'[i].over = over /\ claims'[i].scope = scope
        BY <1>5, <3>2
      <4>2. j \in 1..n /\ claims[j].scope = scope
        BY <1>3, <2>1, <4>1
      <4> QED
        BY <1>2, <1>5, <3>2, <4>1, <4>2
    <3> QED
      BY <1>2, <3>1, <3>2
  <2> QED
    BY <1>5, <2>1 DEF ClaimsReadable
<1>8. CasesReadable' /\ CaseInv'
  <2>1. RowsAdded
    BY <1>1, <1>2, <1>5 DEF RowsAdded, hostVars, Known
  <2> QED
    BY <1>1, <1>2, <2>1, CasesStand
<1>9. ProjectsInv' /\ FactsReadable'
  BY <1>1, <1>2, ProjectsStand DEF ProjectsInv, HostTypeOK, FactsReadable, hostVars
<1>10. decisions' \in Seq(Decided') /\ cases' \in Seq(Case)
  BY <1>1, Parts, DecisionsStay
<1> QED
  BY <1>6, <1>7, <1>8, <1>9, <1>10, PartsAfter

LEMMA CaseIsOpened ==
  ASSUME BaseInv, NEW w \in Workspace, NEW version \in Version \cup {None}, OpenCase(w, version)
  PROVE  BaseInv'
<1> DEFINE n == Len(cases)
<1>1. PICK c : /\ c = [song |-> spaces[w].song, ws |-> w, version |-> version,
                       found |-> Compare(spaces[w].song, w, version)]
               /\ cases' = Append(cases, c)
  BY DEF OpenCase
<1>2. /\ ProjectsInv /\ HostTypeOK /\ claims \in Seq(Claimed) /\ decisions \in Seq(Decided)
      /\ cases \in Seq(Case) /\ FactsReadable /\ ClaimsReadable /\ CasesReadable /\ CaseInv
      /\ n \in Nat /\ DOMAIN cases = 1..n
  BY Parts DEF ProjectsInv
<1>3. UNCHANGED <<hostVars, claims, decisions>>
  BY DEF OpenCase
<1>4. c \in Case /\ CaseReadable(c) /\ CaseTold(c)
  <2>1. w \in Known /\ Comparable(spaces[w].song, w, version)
        /\ Compare(spaces[w].song, w, version).status # "MATCH"
    BY DEF OpenCase
  <2> QED
    BY <1>1, <1>2, <2>1, ComparisonIsSound
<1>5. /\ cases' \in Seq(Case) /\ DOMAIN cases' = 1..(n + 1)
      /\ \A i \in 1..n : cases'[i] = cases[i]
      /\ cases'[n + 1] = c
  BY <1>1, <1>2, <1>4, Appended
<1>6. RowsAdded
  BY <1>3 DEF RowsAdded, hostVars, Known
<1>7. CasesReadable' /\ CaseInv'
  <2>1. ASSUME NEW i \in 1..(n + 1) PROVE CaseReadable(cases[i])' /\ CaseTold(cases[i])'
    <3>1. PICK d : d = cases'[i]
      OBVIOUS
    <3>2. CaseReadable(d) /\ CaseTold(d)
      <4>1. CASE i \in 1..n
        <5>1. d = cases[i] /\ i \in DOMAIN cases
          BY <1>2, <1>5, <3>1, <4>1
        <5> QED
          BY <1>2, <5>1 DEF CasesReadable, CaseInv
      <4>2. CASE i = n + 1
        BY <1>4, <1>5, <3>1, <4>2
      <4> QED
        BY <1>2, <4>1, <4>2
    <3>3. CaseReadable(d)' /\ CaseTold(d)'
      BY <1>2, <1>6, <3>2, CaseStands
    <3> QED
      BY <3>1, <3>3
  <2> QED
    BY <1>5, <2>1 DEF CasesReadable, CaseInv
<1>8. ProjectsInv' /\ FactsReadable' /\ ClaimsReadable'
  BY <1>2, <1>3, ProjectsStand DEF ProjectsInv, HostTypeOK, FactsReadable, ClaimsReadable, hostVars
<1>9. claims' \in Seq(Claimed') /\ decisions' \in Seq(Decided')
  BY <1>2, <1>3, <1>5, DecisionsStay DEF Claimed
<1> QED
  BY <1>5, <1>7, <1>8, <1>9, PartsAfter

LEMMA DecisionIsRecorded ==
  ASSUME BaseInv, NEW i \in DOMAIN cases, NEW choice \in Answers, RecordDecision(i, choice)
  PROVE  BaseInv'
<1>1. /\ ProjectsInv /\ HostTypeOK /\ claims \in Seq(Claimed) /\ decisions \in Seq(Decided)
      /\ cases \in Seq(Case) /\ FactsReadable /\ ClaimsReadable /\ CasesReadable /\ CaseInv
  BY Parts DEF ProjectsInv
<1>2. UNCHANGED <<hostVars, claims, cases>>
      /\ decisions' = Append(decisions, [case |-> i, choice |-> choice])
  BY DEF RecordDecision
<1>3. decisions' \in Seq(Decided')
  <2>1. [case |-> i, choice |-> choice] \in Decided
    BY DEF Decided
  <2>2. decisions' \in Seq(Decided)
    BY <1>1, <1>2, <2>1, Appended
  <2> QED
    BY <1>2, <2>2 DEF Decided
<1>4. CasesReadable' /\ CaseInv'
  <2>1. RowsAdded
    BY <1>2 DEF RowsAdded, hostVars, Known
  <2> QED
    BY <1>1, <1>2, <2>1, CasesStand
<1>5. ProjectsInv' /\ FactsReadable' /\ ClaimsReadable'
  BY <1>1, <1>2, ProjectsStand DEF ProjectsInv, HostTypeOK, FactsReadable, ClaimsReadable, hostVars
<1>6. claims' \in Seq(Claimed') /\ cases' \in Seq(Case)
  BY <1>1, <1>2 DEF Claimed
<1> QED
  BY <1>3, <1>4, <1>5, <1>6, PartsAfter

LEMMA BaseStart == Init => BaseInv /\ ShadowReadable
<1> SUFFICES ASSUME Init PROVE BaseInv /\ ShadowReadable
  OBVIOUS
<1>1. /\ spaces = [w \in Workspace |-> None] /\ seen = <<>> /\ batches = <<>> /\ facts = <<>>
      /\ session = [s \in Session |-> 0] /\ claims = <<>> /\ cases = <<>> /\ decisions = <<>>
  BY DEF Init, HostInit, CapabilitiesInit
<1>2. Known = {}
  BY <1>1 DEF Known
<1>3. HostTypeOK
  BY <1>1 DEF HostTypeOK
<1>4. TypeOK /\ cases \in Seq(Case)
  BY <1>1, <1>3 DEF TypeOK
<1>5. WorkspacesReadable /\ KnownInv
  BY <1>1, <1>2 DEF WorkspacesReadable, KnownInv
<1>6. FactsReadable /\ ClaimsReadable /\ CasesReadable /\ CaseInv /\ ShadowReadable
  BY <1>1 DEF FactsReadable, ClaimsReadable, CasesReadable, CaseInv, ShadowReadable
<1> QED
  BY <1>4, <1>5, <1>6 DEF BaseInv

LEMMA BaseStep ==
  ASSUME BaseInv, [Next]_vars
  PROVE  BaseInv' /\ ((\A m \in Map : m.keyed = "text") /\ ShadowReadable => ShadowReadable')
<1>1. CASE HostNext /\ UNCHANGED <<claims, cases, decisions>>
  BY <1>1, HostSteps
<1>2. ASSUME NEW scope \in Scope, NEW domain \in Domain, NEW v \in Value,
             NEW over, RecordClaim(scope, domain, v, over)
      PROVE  BaseInv' /\ (ShadowReadable => ShadowReadable')
  <2>1. BaseInv'
    BY <1>2, ClaimIsRecorded
  <2> QED
    BY <1>2, <2>1 DEF RecordClaim, hostVars, ShadowReadable
<1>3. ASSUME NEW song \in Song, NEW version \in Version \cup {None}, NEW domain \in Domain,
             NEW v \in Value, ReconcileClaims(song, version, domain, v)
      PROVE  BaseInv' /\ (ShadowReadable => ShadowReadable')
  <2>1. PICK named \in Scope : RecordClaim(named, domain, v, Active(named))
    BY <1>3 DEF ReconcileClaims, Scope
  <2>2. PICK over : over = Active(named)
    OBVIOUS
  <2> QED
    BY <1>2, <2>1, <2>2
<1>4. ASSUME NEW w \in Workspace, NEW version \in Version \cup {None}, OpenCase(w, version)
      PROVE  BaseInv' /\ (ShadowReadable => ShadowReadable')
  <2>1. BaseInv'
    BY <1>4, CaseIsOpened
  <2> QED
    BY <1>4, <2>1 DEF OpenCase, hostVars, ShadowReadable
<1>5. ASSUME NEW i \in DOMAIN cases, NEW choice \in Answers, RecordDecision(i, choice)
      PROVE  BaseInv' /\ (ShadowReadable => ShadowReadable')
  <2>1. BaseInv'
    BY <1>5, DecisionIsRecorded
  <2> QED
    BY <1>5, <2>1 DEF RecordDecision, hostVars, ShadowReadable
<1>6. CASE UNCHANGED vars
  <2>1. UNCHANGED <<spaces, seen, batches, facts, session, claims, cases, decisions>>
    BY <1>6 DEF vars, hostVars
  <2>2. /\ ProjectsInv /\ claims \in Seq(Claimed) /\ decisions \in Seq(Decided)
        /\ cases \in Seq(Case) /\ FactsReadable /\ ClaimsReadable /\ CasesReadable /\ CaseInv
    BY Parts
  <2>3. ProjectsInv' /\ FactsReadable' /\ ClaimsReadable'
    BY <2>1, <2>2, ProjectsStand DEF ProjectsInv, HostTypeOK, FactsReadable, ClaimsReadable
  <2>4. CasesReadable' /\ CaseInv'
    <3>1. RowsAdded
      BY <2>1 DEF RowsAdded, Known
    <3> QED
      BY <2>1, <2>2, <3>1, CasesStand DEF ProjectsInv
  <2>5. claims' \in Seq(Claimed') /\ decisions' \in Seq(Decided') /\ cases' \in Seq(Case)
    BY <2>1, <2>2 DEF Claimed, Decided
  <2>6. ShadowReadable => ShadowReadable'
    BY <2>1 DEF ShadowReadable
  <2> QED
    BY <2>3, <2>4, <2>5, <2>6, PartsAfter
<1> QED
  BY <1>1, <1>2, <1>3, <1>4, <1>5, <1>6 DEF Next

\* Whatever hosts report and artists claim and decide, rows of all tables stay in their
\* types and places, and a case says what the rows it was opened on still say.
THEOREM RecordsInvariant == Spec => []BaseInv
<1>1. Init => BaseInv
  BY BaseStart
<1>2. BaseInv /\ [Next]_vars => BaseInv'
  BY BaseStep
<1> QED
  BY <1>1, <1>2, PTL DEF Spec

\* Of hosts that key their maps by texts, the profile opens again after any calls that were
\* accepted: _validate_existing of workspace.py, shadow.py, capability_evidence.py,
\* evidence.py and reconcile.py find nothing to refuse.  Without the hypothesis it is not
\* so (shadow.py:493).
THEOREM HistoryStaysReadable ==
  ASSUME \A m \in Map : m.keyed = "text"
  PROVE  Spec => []HistoryReadable
<1>1. Init => IInv
  BY BaseStart DEF IInv
<1>2. IInv /\ [Next]_vars => IInv'
  BY BaseStep DEF IInv
<1>3. IInv => HistoryReadable
  BY DEF IInv, BaseInv, HistoryReadable
<1> QED
  BY <1>1, <1>2, <1>3, PTL DEF Spec

\* A case that the host has overtaken is never decided later, wherever its project goes
\* and whatever is reported of it again (reconcile.py:583, state).
THEOREM OvertakenStaysSo == Spec => OvertakenForGood
<1>1. ASSUME BaseInv, [Next]_vars
      PROVE  [\A i \in DOMAIN cases : OvertakenByHost(cases[i]) => OvertakenByHost(cases[i])']_vars
  <2>1. [HostNext]_hostVars
    BY <1>1 DEF Next, RecordClaim, ReconcileClaims, OpenCase, RecordDecision, vars
  <2>2. HostTypeOK /\ cases \in Seq(Case) /\ DOMAIN cases = 1..Len(cases) /\ Len(cases) \in Nat
    BY <1>1, Parts DEF ProjectsInv
  <2>3. \A i \in DOMAIN cases : cases'[i] = cases[i]
    <3>1. ASSUME NEW w \in Workspace, NEW version \in Version \cup {None}, OpenCase(w, version)
          PROVE  \A i \in DOMAIN cases : cases'[i] = cases[i]
      <4>1. PICK c : cases' = Append(cases, c)
        BY <3>1 DEF OpenCase
      <4> QED
        BY <2>2, <4>1
    <3> QED
      BY <1>1, <3>1 DEF Next, RecordClaim, ReconcileClaims, RecordDecision, vars
  <2>4. ASSUME NEW i \in DOMAIN cases, OvertakenByHost(cases[i]) PROVE OvertakenByHost(cases[i])'
    <3>1. PICK c : c = cases[i] /\ c = cases'[i]
      BY <2>3
    <3>2. {c.found.baseline, c.found.latest} \subseteq DOMAIN batches
      BY <1>1, <3>1, Parts DEF CaseInv, CaseTold
    <3>3. OvertakenByHost(c)
      BY <2>4, <3>1
    <3>4. OvertakenByHost(c)'
      BY <2>1, <2>2, <3>2, <3>3, OvertakenStays
    <3> QED
      BY <3>1, <3>4
  <2> QED
    BY <2>4
<1> QED
  BY <1>1, RecordsInvariant, PTL DEF Spec, OvertakenForGood

\* A case that is not stale, by the ids that state() compares (reconcile.py:583-587), is
\* decided on the comparison that its page shows: the same claims, the same fact of the
\* host, the same verdict.
THEOREM DecisionsAreInformed == Spec => DecidedKnowingly
<1>1. ASSUME BaseInv, [Next]_vars
      PROVE  [\A n \in DOMAIN decisions' \ DOMAIN decisions :
                LET c == cases[decisions'[n].case] IN
                Comparable(c.song, c.ws, c.version)
                /\ Compare(c.song, c.ws, c.version) = c.found]_vars
  <2>1. ASSUME NEW i \in DOMAIN cases, NEW choice \in Answers, RecordDecision(i, choice),
               NEW n \in DOMAIN decisions' \ DOMAIN decisions
        PROVE  decisions'[n].case = i
    <3>1. decisions \in Seq(Decided) /\ [case |-> i, choice |-> choice] \in Decided
      BY <1>1, Parts DEF Decided
    <3>2. /\ DOMAIN decisions = 1..Len(decisions) /\ Len(decisions) \in Nat
          /\ DOMAIN decisions' = 1..(Len(decisions) + 1)
          /\ decisions'[Len(decisions) + 1] = [case |-> i, choice |-> choice]
      BY <2>1, <3>1, Appended DEF RecordDecision
    <3>3. n = Len(decisions) + 1
      BY <2>1, <3>2
    <3> QED
      BY <3>2, <3>3
  <2>2. ASSUME NEW i \in DOMAIN cases, NEW choice \in Answers, RecordDecision(i, choice)
        PROVE  Comparable(cases[i].song, cases[i].ws, cases[i].version)
               /\ Compare(cases[i].song, cases[i].ws, cases[i].version) = cases[i].found
    <3> DEFINE c == cases[i]
    <3>1. c \in Case /\ CaseReadable(c) /\ CaseTold(c) /\ HostTypeOK
      BY <1>1, <2>2, Parts, ElementOfSeq DEF CasesReadable, CaseInv, ProjectsInv
    <3>2. ~Stale(c)
      BY <2>2 DEF RecordDecision
    <3> HIDE DEF c
    <3>3. /\ ShadowIsCurrent(c.ws) /\ Baseline(c.ws) = c.found.baseline
          /\ LatestBatch(c.ws) = c.found.latest
          /\ TechnicalClaims(c.song, c.version) = c.found.ids
      BY <3>2 DEF Stale, OvertakenByHost
    <3>4. HostFact(c.ws) = c.found.fact
      <4>1. HostFact(c.ws) = FactBetween(c.found.baseline, c.found.latest)
        BY <3>1, <3>3, FactIsBetween
      <4> QED
        BY <3>1, <4>1 DEF CaseTold
    <3>5. {Canonical(claims[j].value) : j \in TechnicalClaims(c.song, c.version)} = c.found.values
      BY <3>1, <3>3 DEF CaseTold
    <3>6. Compare(c.song, c.ws, c.version)
            = [ids |-> c.found.ids, values |-> c.found.values, fact |-> c.found.fact,
               baseline |-> c.found.baseline, latest |-> c.found.latest,
               status |-> c.found.status]
      <4>1. StatusOf(c.found.values, c.found.fact) = c.found.status
        BY <3>1 DEF CaseTold
      <4> QED
        BY <3>3, <3>4, <3>5, <4>1 DEF Compare
    <3>7. c.found \in Found
      BY <3>1 DEF Case
    <3>8. c.found = [ids |-> c.found.ids, values |-> c.found.values, fact |-> c.found.fact,
                     baseline |-> c.found.baseline, latest |-> c.found.latest,
                     status |-> c.found.status]
      BY <3>7 DEF Found
    <3>9. Comparable(c.song, c.ws, c.version)
      BY <3>1, <3>3 DEF Comparable, CaseReadable, CaseTold
    <3> QED
      BY <3>6, <3>8, <3>9 DEF c
  <2>3. ASSUME NEW i \in DOMAIN cases, NEW choice \in Answers, RecordDecision(i, choice)
        PROVE  \A n \in DOMAIN decisions' \ DOMAIN decisions :
                 LET c == cases[decisions'[n].case] IN
                 Comparable(c.song, c.ws, c.version)
                 /\ Compare(c.song, c.ws, c.version) = c.found
    BY <2>1, <2>2, <2>3
  <2>4. CASE UNCHANGED decisions
    BY <2>4
  <2> QED
    BY <1>1, <2>3, <2>4 DEF Next, HostNext, RecordClaim, ReconcileClaims, OpenCase, vars
<1> QED
  BY <1>1, RecordsInvariant, PTL DEF Spec, DecidedKnowingly
=============================================================================
