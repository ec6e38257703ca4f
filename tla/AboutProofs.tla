----------------------------- MODULE AboutProofs -----------------------------
(***************************************************************************)
(* Proofs about the way of about metadata from one archive to a page.      *)
(*                                                                         *)
(* Of RangedRead, for every set of archives and every window: no range is  *)
(* asked for that is not inside the object, and the ranges say what the    *)
(* whole file says.                                                        *)
(*                                                                         *)
(* Of Versions, for every set of rows and every order of the versions      *)
(* rattler may give: the chain of stable sorts puts the rows in the order  *)
(* of the three keys, a page shows the same order whatever order the rows  *)
(* came in, its ranks are that order in integers, and its metadata is that *)
(* of the newest row with any.                                             *)
(***************************************************************************)
EXTENDS RangedRead, Versions, FiniteSetTheorems, FunctionTheorems,
        WellFoundedInduction, TLAPS

Ranges == [start : Int, length : Int]

ReadTypeOK ==
    /\ archive \in Archives
    /\ window \in Nat /\ window <= archive.size
    /\ at \in {"tail", "locate", "member", "extract", "end"}
    /\ requests \subseteq Ranges
    /\ broke \in BOOLEAN
    /\ outcome \in {"about", "empty", "failed"}

\* The directory was found, and the member in it.
Found ==
    /\ ~TooShort(archive) /\ archive.zip /\ archive.info
    /\ FirstByteRead(archive) >= archive.size - window

\* What a reading has gone through, by where it is: none that goes on has
\* failed; one at the member has found it; one that is over without a failure
\* says what the file says, or gave up on the directory.
Reading ==
    /\ at # "end" => ~broke /\ outcome = "empty"
    /\ at \in {"member", "extract"} => Found
    /\ at = "end" /\ ~broke =>
           \/ /\ outcome = "empty"
              /\ FirstByteRead(archive) < archive.size - WindowMax
              /\ ~TooShort(archive)
           \/ /\ outcome \in {"empty", "about"}
              /\ archive.header <= Slack => outcome = PathOutcome(archive)
              /\ outcome = "about" => PathOutcome(archive) = "about"
    /\ at = "end" /\ broke => outcome = "failed"

IInv == ReadTypeOK /\ RequestsInside /\ Reading

-----------------------------------------------------------------------------
\* An archive has the fields of a layout.
LEMMA ArchiveFields ==
  ASSUME NEW a \in Archives
  PROVE  /\ a.size \in Nat /\ a.zip \in BOOLEAN /\ a.directory \in Nat
         /\ a.comment \in Nat /\ a.info \in BOOLEAN /\ a.offset \in Nat
         /\ a.header \in Nat /\ a.data \in Nat /\ a.about \in BOOLEAN
BY ArchiveAssumption DEF Layouts

\* zipfile reads nothing in front of the file.
LEMMA FirstByteInFile ==
  ASSUME NEW a \in Archives, ~TooShort(a)
  PROVE  FirstByteRead(a) \in Nat
BY ArchiveFields, ArchiveAssumption, SizeAssumption
   DEF FirstByteRead, EndStart, TooShort, Lesser, Greater

\* A file too short for an end record is not a zip.
LEMMA ShortIsNoZip ==
  ASSUME NEW a \in Archives, TooShort(a) \/ a.size = 0
  PROVE  ~a.zip
BY ArchiveFields, ArchiveAssumption, SizeAssumption DEF TooShort

\* The second range ends in the object, however much slack it has.
LEMMA MemberFits ==
  ASSUME archive \in Archives
  PROVE  /\ MemberLength \in Int
         /\ archive.offset + MemberLength <= archive.size
         /\ MemberLength <= archive.data + Slack
BY ArchiveFields, SizeAssumption DEF MemberLength, Lesser

-----------------------------------------------------------------------------
LEMMA InitIInv == ReadInit => IInv
<1> SUFFICES ASSUME ReadInit PROVE IInv
  OBVIOUS
<1> USE DEF ReadInit
<1>1. ReadTypeOK
  <2>1. archive.size \in Nat
    BY ArchiveFields
  <2>2. window \in Nat /\ window <= archive.size
    BY <2>1, SizeAssumption DEF Lesser
  <2> QED BY <2>2 DEF ReadTypeOK
<1>2. RequestsInside
  BY DEF RequestsInside
<1>3. Reading
  <2>1. CASE archive.size = 0
    BY <2>1, ShortIsNoZip DEF Reading, PathOutcome
  <2>2. CASE archive.size # 0
    BY <2>2 DEF Reading
  <2> QED BY <2>1, <2>2
<1> QED BY <1>1, <1>2, <1>3 DEF IInv

\* A range inside the object may be asked for.
LEMMA AskInside ==
  ASSUME ReadTypeOK, RequestsInside, NEW start \in Int, NEW length \in Int,
         start >= 0, start + length <= archive.size,
         AskRange(start, length), archive' = archive
  PROVE  requests' \subseteq Ranges /\ RequestsInside'
BY DEF ReadTypeOK, RequestsInside, AskRange, Ranges

LEMMA NextIInv == IInv /\ [ReadNext]_readVars => IInv'
<1> SUFFICES ASSUME IInv, [ReadNext]_readVars PROVE IInv'
  OBVIOUS
<1> USE DEF IInv
<1>0. ReadTypeOK /\ RequestsInside /\ Reading /\ archive \in Archives
      /\ archive.size \in Nat
  BY ArchiveFields DEF ReadTypeOK
<1>1. CASE FetchTail
  <2>1. AskRange(archive.size - window, window) /\ archive' = archive
    BY <1>1 DEF FetchTail
  <2>2. requests' \subseteq Ranges /\ RequestsInside'
    BY <1>0, <2>1, AskInside, archive.size - window \in Int DEF ReadTypeOK
  <2> QED BY <1>0, <1>1, <2>2 DEF FetchTail, ReadTypeOK, Reading
<1>2. CASE Locate
  <2> DEFINE missed == ~TooShort(archive)
                       /\ FirstByteRead(archive) < archive.size - window
             wider == missed /\ window < Lesser(archive.size, WindowMax)
             over == missed \/ TooShort(archive) \/ ~archive.zip \/ ~archive.info
  <2>1. /\ at = "locate" /\ UNCHANGED <<archive, requests, broke, outcome>>
        /\ IF wider THEN window' = Widened(window) /\ at' = "tail"
           ELSE at' = (IF over THEN "end" ELSE "member") /\ window' = window
    BY <1>2 DEF Locate
  <2>2. ReadTypeOK' /\ RequestsInside'
    <3>1. Widened(window) \in Nat /\ Widened(window) <= archive.size
      BY <1>0 DEF Widened, Lesser, ReadTypeOK
    <3> HIDE DEF wider, over
    <3>2. window' \in {window, Widened(window)}
      BY <2>1
    <3>3. at' \in {"tail", "member", "end"}
      BY <2>1
    <3> QED
      BY <1>0, <2>1, <3>1, <3>2, <3>3 DEF ReadTypeOK, RequestsInside
  <2>3. ASSUME wider PROVE Reading'
    BY <1>0, <2>1, <2>3 DEF Reading
  <2>4. ASSUME ~wider, ~over PROVE Reading'
    <3>1. archive.size - window \in Int
      BY <1>0 DEF ReadTypeOK
    <3>2. Found
      BY <1>0, <2>4, <3>1, FirstByteInFile DEF Found
    <3> QED BY <1>0, <2>1, <2>4, <3>2 DEF Reading, Found
  <2>5. ASSUME ~wider, over, ~missed PROVE Reading'
    <3>1. PathOutcome(archive) = "empty"
      BY <1>0, <2>5, ShortIsNoZip DEF PathOutcome
    <3> HIDE DEF missed, wider, over
    <3> QED BY <1>0, <2>1, <2>5, <3>1 DEF Reading, PathOutcome
  <2>6. ASSUME ~wider, missed PROVE Reading'
    <3>1. FirstByteRead(archive) \in Nat
      BY <1>0, <2>6, FirstByteInFile
    <3>2. FirstByteRead(archive) < archive.size - WindowMax
      BY <1>0, <2>6, <3>1, SizeAssumption DEF Lesser, ReadTypeOK
    <3> QED BY <1>0, <2>1, <2>6, <3>2 DEF Reading
  <2> QED BY <2>2, <2>3, <2>4, <2>5, <2>6
<1>3. CASE FetchMember
  <2>1. AskRange(archive.offset, MemberLength) /\ archive' = archive
    BY <1>3 DEF FetchMember
  <2>2. requests' \subseteq Ranges /\ RequestsInside'
    BY <1>0, <2>1, AskInside, MemberFits, ArchiveFields
  <2> QED BY <1>0, <1>3, <2>2 DEF FetchMember, ReadTypeOK, Reading, Found
<1>4. CASE Extract
  <2>1. /\ at = "extract" /\ at' = "end" /\ Found /\ ~broke
        /\ UNCHANGED <<archive, window, requests, broke>>
        /\ outcome' = IF archive.about /\ Holds THEN "about" ELSE "empty"
    BY <1>0, <1>4 DEF Extract, Reading
  <2> DEFINE end == archive.offset + archive.header + archive.data
  <2>2. archive.about /\ Holds => PathOutcome(archive) = "about"
    BY <1>0, <2>1, ArchiveFields, MemberFits DEF Holds, PathOutcome, Found
  <2>3. end <= archive.size /\ archive.header <= Slack => Holds
    BY <1>0, ArchiveFields, SizeAssumption DEF Holds, MemberLength, Lesser
  <2>4. archive.header <= Slack => outcome' = PathOutcome(archive)
    BY <2>1, <2>2, <2>3 DEF PathOutcome, Found
  <2> QED BY <1>0, <2>1, <2>2, <2>4 DEF ReadTypeOK, RequestsInside, Reading
<1>5. CASE RangeFails
  <2>1. requests' \subseteq Ranges /\ RequestsInside'
    <3>1. CASE AskRange(archive.size - window, window)
      BY <1>0, <1>5, <3>1, AskInside, archive.size - window \in Int
         DEF RangeFails, ReadTypeOK
    <3>2. CASE AskRange(archive.offset, MemberLength)
      BY <1>0, <1>5, <3>2, AskInside, MemberFits, ArchiveFields
         DEF RangeFails
    <3> QED BY <1>5, <3>1, <3>2 DEF RangeFails
  <2> QED BY <1>0, <1>5, <2>1 DEF RangeFails, ReadTypeOK, Reading
<1>6. CASE UNCHANGED readVars
  BY <1>0, <1>6 DEF readVars, ReadTypeOK, RequestsInside, Reading, Found
<1> QED
  BY <1>1, <1>2, <1>3, <1>4, <1>5, <1>6 DEF ReadNext, Step, Ended

LEMMA Inductive == ReadSpec => []IInv
BY InitIInv, NextIInv, PTL DEF ReadSpec

-----------------------------------------------------------------------------
\* storage.py 77: a backend may reject a range that starts at the end or past
\* it.  read_conda_about_ranged asks for none, whatever the archive's
\* directory claims.
THEOREM RangesInside == ReadSpec => []RequestsInside
BY Inductive, PTL DEF IInv

\* However far the guess of the first range was off, the ranged reading of an
\* archive says what a reading of the whole file says, and it fails exactly if
\* a range was not delivered.
THEOREM RangesAgree == ReadSpec => []RangedAgrees
<1>1. IInv => RangedAgrees
  <2> SUFFICES ASSUME IInv, at = "end" PROVE
        /\ outcome = "failed" <=> broke
        /\ ~broke /\ (TooShort(archive) \/ FirstByteRead(archive)
                          >= archive.size - WindowMax)
                  /\ archive.header <= Slack
               => outcome = PathOutcome(archive)
        /\ outcome = "about" => PathOutcome(archive) = "about"
    BY DEF RangedAgrees
  <2>1. archive \in Archives /\ broke \in BOOLEAN
        /\ outcome \in {"about", "empty", "failed"} /\ Reading
    BY DEF IInv, ReadTypeOK
  <2>2. CASE broke
    BY <2>1, <2>2 DEF Reading
  <2>3. CASE ~broke
    <3>1. ~TooShort(archive) => FirstByteRead(archive) \in Nat
      BY <2>1, FirstByteInFile
    <3>2. archive.size - WindowMax \in Int
      BY <2>1, ArchiveFields, SizeAssumption
    <3> QED BY <2>1, <2>3, <3>1, <3>2 DEF Reading
  <2> QED BY <2>1, <2>2, <2>3
<1> QED BY <1>1, Inductive, PTL

-----------------------------------------------------------------------------
\* s is t with its elements moved, and p says from where.
Moves(p, s, t, n) ==
    /\ p \in [1 .. n -> 1 .. n]
    /\ \A i, j \in 1 .. n : p[i] = p[j] => i = j
    /\ t = [k \in 1 .. n |-> s[p[k]]]

\* before is the strict part of an order in which any two rows compare.
StrictWeak(before) ==
    /\ before \subseteq Pairs
    /\ \A a, b \in Artifacts : <<a, b>> \in before => <<b, a>> \notin before
    /\ \A a, b, c \in Artifacts :
           <<a, b>> \in before => <<a, c>> \in before \/ <<c, b>> \in before

\* The order of the three keys, ties allowed.
NotAfter(a, b) ==
    LET order == Compare(VersionOf[a], VersionOf[b]) IN
    \/ order > 0
    \/ order = 0 /\ NumberOf[a] > NumberOf[b]
    \/ order = 0 /\ NumberOf[a] = NumberOf[b] /\ PlaceOf[a] <= PlaceOf[b]

-----------------------------------------------------------------------------
\* Every set of numbers that is not empty has a least one.
LEMMA LeastNumber ==
    ASSUME NEW K \in SUBSET Nat, K # {}
    PROVE  \E m \in K : \A k \in K : m <= k
<1> DEFINE upTo(k) == 0 .. k
           T == {upTo(k) : k \in K}
<1>1. \A k \in K : IsFiniteSet(upTo(k)) /\ upTo(k) \in SUBSET Nat
  BY FS_Interval
<1>2. T \subseteq FiniteSubsetsOf(Nat) /\ T # {}
  BY <1>1 DEF FiniteSubsetsOf
<1>3. IsWellFoundedOn(StrictSubsetOrdering(Nat), FiniteSubsetsOf(Nat))
  BY FS_StrictSubsetOrderingWellFounded
<1>4. \E x \in T : \A y \in T : <<y, x>> \notin StrictSubsetOrdering(Nat)
  BY <1>2, <1>3, WFMin
<1>5. PICK m \in K :
          \A k \in K : <<upTo(k), upTo(m)>> \notin StrictSubsetOrdering(Nat)
  BY <1>4
<1>6. \A k \in K : ~(k < m)
  <2>1. SUFFICES ASSUME NEW k \in K, k < m PROVE FALSE
    OBVIOUS
  <2>2. upTo(k) \subseteq upTo(m) /\ upTo(k) # upTo(m)
    BY <2>1
  <2>3. QED
    BY <1>1, <1>5, <2>2 DEF StrictSubsetOrdering
<1>7. QED
  BY <1>6

\* compare_versions is a total order up to equality (versions.py 57: "the result
\* is always a deterministic total order").
LEMMA CompareIsOrder ==
    ASSUME NEW u \in Spellings, NEW v \in Spellings, NEW w \in Spellings
    PROVE  /\ Compare(u, v) \in {-1, 0, 1}
           /\ Compare(u, v) = -Compare(v, u)
           /\ Compare(u, v) > 0 => Compare(u, w) > 0 \/ Compare(w, v) > 0
           /\ Compare(u, v) = 0 => Compare(u, w) = Compare(v, w)
<1>1. /\ Parsed[u] \in Nat \/ Parsed[u] = Unparsed
      /\ Parsed[v] \in Nat \/ Parsed[v] = Unparsed
      /\ Parsed[w] \in Nat \/ Parsed[w] = Unparsed
      /\ Unparsed \notin Nat
      /\ Text[u] \in Nat /\ Text[v] \in Nat /\ Text[w] \in Nat
  BY SpellingAssumption
<1>2. QED
  BY <1>1 DEF Compare, Sign

LEMMA KeysAreOrders ==
    /\ StrictWeak(Placed) /\ StrictWeak(Rebuilt) /\ StrictWeak(Newer)
<1>1. \A a \in Artifacts : /\ PlaceOf[a] \in Nat /\ NumberOf[a] \in Nat
                           /\ VersionOf[a] \in Spellings
  BY ArtifactAssumption
<1>2. StrictWeak(Placed)
  BY <1>1 DEF StrictWeak, Placed, Pairs
<1>3. StrictWeak(Rebuilt)
  BY <1>1 DEF StrictWeak, Rebuilt, Pairs
<1>4. StrictWeak(Newer)
  <2>1. \A a, b \in Artifacts : <<a, b>> \in Newer <=>
            Compare(VersionOf[a], VersionOf[b]) > 0
    BY DEF Newer, Pairs
  <2>2. ASSUME NEW a \in Artifacts, NEW b \in Artifacts, <<a, b>> \in Newer
        PROVE  <<b, a>> \notin Newer
    BY <1>1, <2>1, <2>2, CompareIsOrder
  <2>3. ASSUME NEW a \in Artifacts, NEW b \in Artifacts, NEW c \in Artifacts,
               <<a, b>> \in Newer
        PROVE  <<a, c>> \in Newer \/ <<c, b>> \in Newer
    BY <1>1, <2>1, <2>3, CompareIsOrder
  <2>4. Newer \subseteq Pairs
    BY DEF Newer
  <2>5. QED
    BY <2>2, <2>3, <2>4 DEF StrictWeak
<1>5. QED
  BY <1>2, <1>3, <1>4

-----------------------------------------------------------------------------
\* What list.sort does: it moves the elements so that none is before an
\* earlier one, and leaves those that tie in their order.
LEMMA StableSortSorts ==
    ASSUME NEW n \in Nat, NEW s \in [1 .. n -> Artifacts],
           NEW before, StrictWeak(before)
    PROVE  \E p : /\ Moves(p, s, StableSort(s, before), n)
                  /\ \A k, l \in 1 .. n : k < l =>
                         /\ <<s[p[l]], s[p[k]]>> \notin before
                         /\ <<s[p[k]], s[p[l]]>> \in before \/ p[k] < p[l]
<1> DEFINE I == 1 .. n
           Ahead(j, i) == \/ <<s[j], s[i]>> \in before
                          \/ <<s[i], s[j]>> \notin before /\ j <= i
           set(i) == {j \in I : Ahead(j, i)}
           place == [i \in I |-> Cardinality(set(i))]
           p == [k \in I |-> CHOOSE i \in I : place[i] = k]
<1>0. DOMAIN s = I /\ I \subseteq Nat
  OBVIOUS
<1>1. \A i \in I : Ahead(i, i)
  BY DEF StrictWeak
<1>2. ASSUME NEW i \in I, NEW j \in I
      PROVE  /\ Ahead(i, j) \/ Ahead(j, i)
             /\ Ahead(i, j) /\ Ahead(j, i) => i = j
  BY DEF StrictWeak
<1>3. ASSUME NEW i \in I, NEW j \in I, NEW k \in I, Ahead(i, j), Ahead(j, k)
      PROVE  Ahead(i, k)
  <2> DEFINE a == s[i]
             b == s[j]
             c == s[k]
  <2>0. a \in Artifacts /\ b \in Artifacts /\ c \in Artifacts
    OBVIOUS
  <2>1. CASE <<a, b>> \in before
    <3>1. <<a, c>> \in before \/ <<c, b>> \in before
      BY <2>0, <2>1 DEF StrictWeak
    <3>2. <<c, b>> \notin before
      BY <1>3, <2>0 DEF StrictWeak
    <3>3. QED
      BY <3>1, <3>2
  <2>2. CASE <<a, b>> \notin before /\ <<b, c>> \in before
    <3>1. <<b, a>> \in before \/ <<a, c>> \in before
      BY <2>0, <2>2 DEF StrictWeak
    <3>2. <<b, a>> \notin before
      BY <1>3, <2>0, <2>2
    <3>3. QED
      BY <3>1, <3>2
  <2>3. CASE <<a, b>> \notin before /\ <<b, c>> \notin before
    <3>1. <<b, a>> \notin before /\ <<c, b>> \notin before
          /\ i <= j /\ j <= k
      BY <1>3, <2>3
    <3>2. <<c, a>> \notin before
      BY <2>0, <3>1 DEF StrictWeak
    <3>3. QED
      BY <3>1, <3>2
  <2>4. QED
    BY <2>1, <2>2, <2>3
<1>4. \A i \in I : IsFiniteSet(set(i)) /\ place[i] \in I
  <2>1. IsFiniteSet(I) /\ Cardinality(I) = n
    BY FS_Interval
  <2>2. TAKE i \in I
  <2>3. IsFiniteSet(set(i)) /\ Cardinality(set(i)) <= n
    <3>1. set(i) \in SUBSET I
      OBVIOUS
    <3> HIDE DEF set
    <3>2. /\ IsFiniteSet(set(i))
          /\ Cardinality(set(i)) <= Cardinality(I)
      BY <2>1, <3>1, FS_Subset
    <3>3. QED
      BY <2>1, <3>2
  <2>4. set(i) # {}
    BY <1>1
  <2>5. Cardinality(set(i)) \in Nat /\ Cardinality(set(i)) # 0
    BY <2>3, <2>4, FS_CardinalityType, FS_EmptySet
  <2>6. QED
    BY <2>3, <2>5
<1>5. ASSUME NEW i \in I, NEW j \in I, i # j, Ahead(j, i)
      PROVE  place[j] < place[i]
  <2>1. set(j) \subseteq set(i)
    BY <1>3, <1>5
  <2>2. i \in set(i) /\ i \notin set(j)
    BY <1>1, <1>2, <1>5
  <2>3. IsFiniteSet(set(i)) /\ set(j) \in SUBSET set(i)
    BY <1>4, <2>1
  <2>4. /\ Cardinality(set(j)) <= Cardinality(set(i))
        /\ Cardinality(set(i)) = Cardinality(set(j)) => set(i) = set(j)
    BY <2>3, FS_Subset
  <2>5. place[j] <= place[i] /\ place[i] # place[j]
    BY <2>2, <2>4
  <2>a. place[j] \in I /\ place[i] \in I
    BY <1>4
  <2>6. QED
    BY <2>5, <2>a
<1>6. place \in [I -> I]
  BY <1>4
<1> HIDE DEF Ahead
<1> HIDE DEF place
<1>7. \A i, j \in I : place[i] = place[j] => i = j
  <2>1. SUFFICES ASSUME NEW i \in I, NEW j \in I, i # j
                 PROVE  place[i] # place[j]
    OBVIOUS
  <2>2. place[i] \in I /\ place[j] \in I
    BY <1>6
  <2>3. Ahead(i, j) \/ Ahead(j, i)
    BY <1>2
  <2>4. place[i] < place[j] \/ place[j] < place[i]
    BY <1>5, <2>1, <2>3
  <2>5. QED
    BY <2>2, <2>4
<1>8. \A k \in I : \E i \in I : place[i] = k
  <2>1. place \in Injection(I, I)
    BY <1>6, <1>7, Fun_IsInj
  <2>2. IsFiniteSet(I)
    BY FS_Interval
  <2>3. place \in Surjection(I, I)
    BY <2>1, <2>2, FS_Injection
  <2>4. QED
    BY <2>3 DEF Surjection
<1>9. \A k \in I : p[k] \in I /\ place[p[k]] = k
  BY <1>8
<1>10. StableSort(s, before) = [k \in I |-> s[p[k]]]
  <2>1. StableSort(s, before) =
            [k \in I |-> s[CHOOSE i \in I : place[i] = k]]
    BY <1>0 DEF StableSort, Ahead, place
  <2>2. QED
    BY <2>1
<1>11. Moves(p, s, StableSort(s, before), n)
  <2>1. p \in [I -> I]
    BY <1>9
  <2>2. \A i, j \in I : p[i] = p[j] => i = j
    BY <1>9
  <2>3. QED
    BY <1>10, <2>1, <2>2 DEF Moves
<1> HIDE DEF p
<1>12. ASSUME NEW k \in I, NEW l \in I, k < l
       PROVE  /\ <<s[p[l]], s[p[k]]>> \notin before
              /\ <<s[p[k]], s[p[l]]>> \in before \/ p[k] < p[l]
  <2>1. p[k] \in I /\ p[l] \in I /\ place[p[k]] < place[p[l]] /\ p[k] # p[l]
    BY <1>9, <1>12
  <2>2. ASSUME Ahead(p[l], p[k])
        PROVE  FALSE
    <3>1. place[p[l]] < place[p[k]]
      BY <1>5, <2>1, <2>2
    <3>2. place[p[l]] = l /\ place[p[k]] = k
      BY <1>9
    <3>3. QED
      BY <1>12, <3>1, <3>2
  <2>3. Ahead(p[k], p[l])
    BY <1>2, <2>1, <2>2
  <2>4. QED
    BY <2>1, <2>2, <2>3 DEF Ahead
<1>13. QED
  BY <1>11, <1>12

-----------------------------------------------------------------------------
LEMMA NotAfterIsOrder ==
    ASSUME NEW a \in Artifacts, NEW b \in Artifacts, NEW c \in Artifacts
    PROVE  /\ NotAfter(a, a)
           /\ NotAfter(a, b) /\ NotAfter(b, c) => NotAfter(a, c)
           /\ NotAfter(a, b) /\ NotAfter(b, a) => SameKey(a, b)
<1> DEFINE u == VersionOf[a]
           v == VersionOf[b]
           w == VersionOf[c]
<1>1. /\ u \in Spellings /\ v \in Spellings /\ w \in Spellings
      /\ NumberOf[a] \in Nat /\ NumberOf[b] \in Nat /\ NumberOf[c] \in Nat
      /\ PlaceOf[a] \in Nat /\ PlaceOf[b] \in Nat /\ PlaceOf[c] \in Nat
  BY ArtifactAssumption
<1>2. /\ Compare(u, v) \in {-1, 0, 1} /\ Compare(v, u) = -Compare(u, v)
      /\ Compare(v, w) \in {-1, 0, 1} /\ Compare(w, v) = -Compare(v, w)
      /\ Compare(u, w) \in {-1, 0, 1} /\ Compare(w, u) = -Compare(u, w)
      /\ Compare(u, u) = 0
  BY <1>1, CompareIsOrder
<1>3. /\ Compare(u, v) > 0 => Compare(u, w) > 0 \/ Compare(w, v) > 0
      /\ Compare(v, w) > 0 => Compare(v, u) > 0 \/ Compare(u, w) > 0
      /\ Compare(u, v) = 0 => Compare(u, w) = Compare(v, w)
  BY <1>1, CompareIsOrder
<1> HIDE DEF u, v, w
<1>4. NotAfter(a, a)
  BY <1>1, <1>2 DEF NotAfter, u
<1>5. NotAfter(a, b) /\ NotAfter(b, c) => NotAfter(a, c)
  BY <1>1, <1>2, <1>3 DEF NotAfter, u, v, w
<1>6. NotAfter(a, b) /\ NotAfter(b, a) => SameKey(a, b)
  BY <1>1, <1>2 DEF NotAfter, SameKey, u, v
<1>7. QED
  BY <1>4, <1>5, <1>6

\* sort_versions moves the rows into the order of the three keys.
LEMMA SortVersionsSorts ==
    ASSUME NEW n \in Nat, NEW rows \in [1 .. n -> Artifacts]
    PROVE  \E p : /\ Moves(p, rows, SortVersions(rows), n)
                  /\ \A k, l \in 1 .. n : k < l =>
                         NotAfter(rows[p[k]], rows[p[l]])
<1> DEFINE s1 == StableSort(rows, Placed)
           s2 == StableSort(s1, Rebuilt)
           s3 == StableSort(s2, Newer)
<1>1. SortVersions(rows) = s3
  BY DEF SortVersions
<1>2. PICK p1 : /\ Moves(p1, rows, s1, n)
                /\ \A k, l \in 1 .. n : k < l =>
                       <<rows[p1[l]], rows[p1[k]]>> \notin Placed
  BY StableSortSorts, KeysAreOrders
<1>3. s1 \in [1 .. n -> Artifacts]
  BY <1>2 DEF Moves
<1> HIDE DEF s1
<1>4. PICK p2 : /\ Moves(p2, s1, s2, n)
                /\ \A k, l \in 1 .. n : k < l =>
                       /\ <<s1[p2[l]], s1[p2[k]]>> \notin Rebuilt
                       /\ <<s1[p2[k]], s1[p2[l]]>> \in Rebuilt \/ p2[k] < p2[l]
  BY <1>3, StableSortSorts, KeysAreOrders
<1>5. s2 \in [1 .. n -> Artifacts]
  BY <1>3, <1>4 DEF Moves
<1> HIDE DEF s2
<1>6. PICK p3 : /\ Moves(p3, s2, s3, n)
                /\ \A k, l \in 1 .. n : k < l =>
                       /\ <<s2[p3[l]], s2[p3[k]]>> \notin Newer
                       /\ <<s2[p3[k]], s2[p3[l]]>> \in Newer \/ p3[k] < p3[l]
  BY <1>5, StableSortSorts, KeysAreOrders
<1> HIDE DEF s3
<1> DEFINE p == [k \in 1 .. n |-> p1[p2[p3[k]]]]
<1>7. /\ \A k \in 1 .. n : p1[k] \in 1 .. n /\ s1[k] = rows[p1[k]]
      /\ \A k \in 1 .. n : p2[k] \in 1 .. n /\ s2[k] = s1[p2[k]]
      /\ \A k \in 1 .. n : p3[k] \in 1 .. n /\ s3[k] = s2[p3[k]]
  BY <1>2, <1>4, <1>6 DEF Moves
<1>8. Moves(p, rows, s3, n)
  <2>1. p \in [1 .. n -> 1 .. n]
    BY <1>7
  <2>2. \A i, j \in 1 .. n : p[i] = p[j] => i = j
    <3>1. /\ \A i, j \in 1 .. n : p1[i] = p1[j] => i = j
          /\ \A i, j \in 1 .. n : p2[i] = p2[j] => i = j
          /\ \A i, j \in 1 .. n : p3[i] = p3[j] => i = j
      BY <1>2, <1>4, <1>6 DEF Moves
    <3>2. TAKE i, j \in 1 .. n
    <3>3. HAVE p[i] = p[j]
    <3>4. p1[p2[p3[i]]] = p1[p2[p3[j]]]
      BY <3>3
    <3>5. p2[p3[i]] = p2[p3[j]]
      BY <1>7, <3>1, <3>4
    <3>6. p3[i] = p3[j]
      BY <1>7, <3>1, <3>5
    <3>7. QED
      BY <3>1, <3>6
  <2>3. s3 = [k \in 1 .. n |-> s2[p3[k]]]
    BY <1>6 DEF Moves
  <2>4. s3 = [k \in 1 .. n |-> rows[p[k]]]
    BY <1>7, <2>3
  <2>5. QED
    BY <2>1, <2>2, <2>4 DEF Moves
<1>9. ASSUME NEW k \in 1 .. n, NEW l \in 1 .. n, k < l
      PROVE  NotAfter(rows[p[k]], rows[p[l]])
  <2> DEFINE a == s3[k]
             b == s3[l]
  <2>1. a = rows[p[k]] /\ b = rows[p[l]]
    BY <1>7
  <2>2. a = s2[p3[k]] /\ b = s2[p3[l]] /\ a = s1[p2[p3[k]]] /\ b = s1[p2[p3[l]]]
    BY <1>7
  <2>3. a \in Artifacts /\ b \in Artifacts
    BY <1>5, <1>7, <2>2
  <2>4. /\ <<b, a>> \notin Newer
        /\ <<a, b>> \in Newer \/ p3[k] < p3[l]
    BY <1>6, <1>9, <2>2
  <2>5. p3[k] < p3[l] => /\ <<b, a>> \notin Rebuilt
                         /\ <<a, b>> \in Rebuilt \/ p2[p3[k]] < p2[p3[l]]
    BY <1>4, <1>7, <2>2
  <2>6. p2[p3[k]] < p2[p3[l]] => <<b, a>> \notin Placed
    BY <1>2, <1>7, <2>1
  <2> HIDE DEF a, b, p
  <2>7. /\ NumberOf[a] \in Nat /\ NumberOf[b] \in Nat
        /\ PlaceOf[a] \in Nat /\ PlaceOf[b] \in Nat
        /\ VersionOf[a] \in Spellings /\ VersionOf[b] \in Spellings
    BY <2>3, ArtifactAssumption
  <2> DEFINE order == Compare(VersionOf[a], VersionOf[b])
  <2>8. order \in {-1, 0, 1} /\ Compare(VersionOf[b], VersionOf[a]) = -order
    BY <2>7, CompareIsOrder
  <2>9. /\ <<b, a>> \in Newer <=> -order > 0
        /\ <<a, b>> \in Newer <=> order > 0
    BY <2>3, <2>8 DEF Newer, Pairs
  <2>10. /\ <<b, a>> \in Rebuilt <=> NumberOf[b] > NumberOf[a]
         /\ <<a, b>> \in Rebuilt <=> NumberOf[a] > NumberOf[b]
         /\ <<b, a>> \in Placed <=> PlaceOf[b] < PlaceOf[a]
    BY <2>3 DEF Rebuilt, Placed, Pairs
  <2> HIDE DEF order
  <2>11. NotAfter(a, b)
    <3>1. CASE order > 0
      BY <3>1 DEF NotAfter, order
    <3>2. CASE ~(order > 0)
      <4>1. order = 0 /\ p3[k] < p3[l]
        BY <2>4, <2>8, <2>9, <3>2
      <4>2. ~(NumberOf[b] > NumberOf[a])
            /\ (NumberOf[a] > NumberOf[b] \/ p2[p3[k]] < p2[p3[l]])
        BY <2>5, <2>10, <4>1
      <4>3. p2[p3[k]] < p2[p3[l]] => PlaceOf[a] <= PlaceOf[b]
        BY <2>6, <2>7, <2>10
      <4>4. \/ NumberOf[a] > NumberOf[b]
            \/ NumberOf[a] = NumberOf[b] /\ PlaceOf[a] <= PlaceOf[b]
        BY <2>7, <4>2, <4>3
      <4>5. QED
        BY <4>1, <4>4 DEF NotAfter, order
    <3>3. QED
      BY <3>1, <3>2
  <2>12. QED
    BY <2>1, <2>11
<1> HIDE DEF p
<1>10. QED
  BY <1>1, <1>8, <1>9

-----------------------------------------------------------------------------
\* The rows of R, each once, in the order of the three keys.
Arranged(s, n, R) ==
    /\ s \in [1 .. n -> R]
    /\ \A i, j \in 1 .. n : s[i] = s[j] => i = j
    /\ \A a \in R : \E i \in 1 .. n : s[i] = a
    /\ \A k, l \in 1 .. n : k < l => NotAfter(s[k], s[l])

\* What came in as the rows of R goes out as the rows of R, in order.
LEMMA PageArranged ==
    ASSUME NEW R \in SUBSET Artifacts, NEW rows \in Listings(R)
    PROVE  /\ Cardinality(R) \in Nat
           /\ Arranged(SortVersions(rows), Cardinality(R), R)
<1> DEFINE n == Cardinality(R)
           t == SortVersions(rows)
<1>1. IsFiniteSet(R) /\ n \in Nat
  BY ArtifactAssumption, FS_Subset, FS_CardinalityType
<1>2. /\ rows \in [1 .. n -> R]
      /\ \A i, j \in 1 .. n : rows[i] = rows[j] => i = j
  <2>1. /\ rows \in [1 .. n -> R]
        /\ \A i, j \in DOMAIN rows : rows[i] = rows[j] => i = j
    BY DEF Listings
  <2>2. DOMAIN rows = 1 .. n
    BY <2>1
  <2>3. QED
    BY <2>1, <2>2
<1>3. rows \in [1 .. n -> Artifacts]
  BY <1>2
<1> HIDE DEF n
<1>4. PICK p : /\ Moves(p, rows, t, n)
               /\ \A k, l \in 1 .. n : k < l =>
                      NotAfter(rows[p[k]], rows[p[l]])
  BY <1>1, <1>3, SortVersionsSorts
<1> HIDE DEF t
<1>5. t \in [1 .. n -> R] /\ \A k \in 1 .. n : t[k] = rows[p[k]]
  BY <1>2, <1>4 DEF Moves
<1>6. \A i, j \in 1 .. n : t[i] = t[j] => i = j
  BY <1>2, <1>4, <1>5 DEF Moves
<1>7. \A a \in R : \E i \in 1 .. n : t[i] = a
  <2>1. t \in Injection(1 .. n, R)
    BY <1>5, <1>6, Fun_IsInj
  <2>2. Cardinality(1 .. n) = n
    BY <1>1, FS_Interval
  <2>3. t \in Surjection(1 .. n, R)
    BY <1>1, <2>1, <2>2, FS_Injection DEF n
  <2>4. QED
    BY <2>3 DEF Surjection
<1>8. \A k, l \in 1 .. n : k < l => NotAfter(t[k], t[l])
  BY <1>4, <1>5
<1>9. Arranged(t, n, R)
  BY <1>5, <1>6, <1>7, <1>8 DEF Arranged
<1>10. QED
  BY <1>1, <1>9 DEF n, t

\* Of two arrangements of the same rows, neither has a later row in a place
\* than the other has: else the rows up to that place would have to fit into
\* the places before it.
LEMMA NoLaterRow ==
    ASSUME NEW R \in SUBSET Artifacts, NEW n \in Nat, NEW s, NEW t,
           Arranged(s, n, R), Arranged(t, n, R), NEW i \in 1 .. n
    PROVE  NotAfter(t[i], s[i])
<1>1. SUFFICES ASSUME ~NotAfter(t[i], s[i])
               PROVE  FALSE
  OBVIOUS
<1> DEFINE f == [k \in 1 .. i |-> CHOOSE j \in 1 .. n : t[j] = s[k]]
<1>2. \A k \in 1 .. n : s[k] \in Artifacts /\ t[k] \in Artifacts
  BY DEF Arranged
<1>3. 1 .. i \subseteq 1 .. n
  OBVIOUS
<1>4. \A k \in 1 .. i : f[k] \in 1 .. n /\ t[f[k]] = s[k]
  BY <1>3 DEF Arranged
<1> HIDE DEF f
<1>5. \A k \in 1 .. i : f[k] < i
  <2>1. SUFFICES ASSUME NEW k \in 1 .. i, i <= f[k]
                 PROVE  FALSE
    BY <1>4
  <2>2. NotAfter(s[k], s[i])
    <3>1. CASE k = i
      BY <1>2, <3>1, NotAfterIsOrder
    <3>2. CASE k < i
      BY <1>3, <3>2 DEF Arranged
    <3>3. QED
      BY <3>1, <3>2
  <2>3. NotAfter(t[i], s[k])
    <3>1. CASE f[k] = i
      BY <1>2, <1>4, <3>1, NotAfterIsOrder
    <3>2. CASE i < f[k]
      BY <1>4, <3>2 DEF Arranged
    <3>3. QED
      BY <1>4, <2>1, <3>1, <3>2
  <2>4. t[i] \in Artifacts /\ s[k] \in Artifacts /\ s[i] \in Artifacts
    BY <1>2, <1>3
  <2>5. QED
    BY <1>1, <2>2, <2>3, <2>4, NotAfterIsOrder
<1>6. f \in [1 .. i -> 1 .. i - 1]
  BY <1>4, <1>5 DEF f
<1>7. /\ IsFiniteSet(1 .. i) /\ IsFiniteSet(1 .. i - 1)
      /\ Cardinality(1 .. i - 1) < Cardinality(1 .. i)
  <2>1. i \in Int /\ i - 1 \in Int /\ 1 \in Int /\ i >= 1
    OBVIOUS
  <2>2. IsFiniteSet(1 .. i) /\ Cardinality(1 .. i) = i
    BY <2>1, FS_Interval
  <2>3. IsFiniteSet(1 .. i - 1) /\ Cardinality(1 .. i - 1) = i - 1
    BY <2>1, FS_Interval
  <2>4. QED
    BY <2>1, <2>2, <2>3
<1>8. PICK x, y \in 1 .. i : x # y /\ f[x] = f[y]
  BY <1>6, <1>7, FS_PigeonHole
<1>9. s[x] = s[y]
  BY <1>4, <1>8
<1>10. QED
  BY <1>3, <1>8, <1>9 DEF Arranged

\* A page is one of the rows stored.
PageInv ==
    /\ stored \in SUBSET Artifacts
    /\ answered =>
           \E rows \in Listings(stored) :
               /\ page.rows = SortVersions(rows)
               /\ page.ranks = VersionRanks(SortVersions(rows))
               /\ page.about = AboutSource(SortVersions(rows))

LEMMA PageInvHolds == PageSpec => []PageInv
<1>1. PageInit => PageInv
  BY DEF PageInit, PageInv
<1>2. PageInv /\ [Show]_pageVars => PageInv'
  <2> SUFFICES ASSUME PageInv, [Show]_pageVars PROVE PageInv'
    OBVIOUS
  <2>1. CASE UNCHANGED pageVars
    BY <2>1 DEF PageInv, pageVars
  <2>2. CASE Show
    <3>1. PICK rows \in Listings(stored) : page' = PageOf(rows)
      BY <2>2 DEF Show
    <3>2. stored' = stored
      BY <2>2 DEF Show
    <3>3. /\ page'.rows = SortVersions(rows)
          /\ page'.ranks = VersionRanks(SortVersions(rows))
          /\ page'.about = AboutSource(SortVersions(rows))
      BY <3>1 DEF PageOf
    <3>4. QED
      BY <3>1, <3>2, <3>3 DEF PageInv
  <2>3. QED
    BY <2>1, <2>2
<1>3. QED
  BY <1>1, <1>2, PTL DEF PageSpec

\* The first row with metadata is the newest with any: what an answered page
\* shows as the package's metadata (api/packages.py 133) is that row's.
THEOREM AboutIsNewest == PageSpec => []AboutFromNewest
<1>1. PageInv => AboutFromNewest
  <2>1. SUFFICES ASSUME PageInv, answered PROVE AboutFromNewest
    BY DEF AboutFromNewest
  <2>2. stored \in SUBSET Artifacts
    BY <2>1 DEF PageInv
  <2>3. PICK rows \in Listings(stored) :
            page.about = AboutSource(SortVersions(rows))
    BY <2>1 DEF PageInv
  <2> DEFINE n == Cardinality(stored)
             t == SortVersions(rows)
             K == {k \in 1 .. n : t[k] \in HasAbout}
  <2>4. n \in Nat /\ Arranged(t, n, stored)
    BY <2>2, PageArranged
  <2> HIDE DEF n, t
  <2>5. t \in [1 .. n -> stored] /\ DOMAIN t = 1 .. n
    BY <2>4 DEF Arranged
  <2>6. \A b \in stored \cap HasAbout : \E l \in K : t[l] = b
    BY <2>4 DEF Arranged
  <2>7. CASE K = {}
    <3>1. stored \cap HasAbout = {}
      BY <2>6, <2>7
    <3>2. AboutSource(t) = {}
      BY <2>5, <2>7 DEF AboutSource
    <3>3. page.about = {} /\ Cardinality(page.about) = 0
      BY <2>3, <3>2, FS_EmptySet DEF t
    <3>4. QED
      BY <3>1, <3>3 DEF AboutFromNewest
  <2>8. CASE K # {}
    <3>1. PICK m \in K : \A k \in K : m <= k
      <4>1. K \in SUBSET Nat
        BY <2>4
      <4> HIDE DEF K
      <4>2. QED
        BY <2>8, <4>1, LeastNumber
    <3>2. AboutSource(t) = {t[m]}
      <4>1. {k \in DOMAIN t : /\ t[k] \in HasAbout
                              /\ \A j \in 1 .. k - 1 : t[j] \notin HasAbout}
                = {m}
        <5>1. m \in 1 .. n /\ t[m] \in HasAbout
          OBVIOUS
        <5>2. \A j \in 1 .. m - 1 : t[j] \notin HasAbout
          BY <2>4, <3>1
        <5>3. ASSUME NEW k \in 1 .. n, t[k] \in HasAbout,
                     \A j \in 1 .. k - 1 : t[j] \notin HasAbout
              PROVE  k = m
          <6>1. m <= k
            BY <3>1, <5>3
          <6>2. ~(m < k)
            BY <2>4, <5>1, <5>3
          <6>3. QED
            BY <2>4, <6>1, <6>2
        <5>4. QED
          BY <2>5, <5>1, <5>2, <5>3
      <4>2. QED
        BY <4>1 DEF AboutSource
    <3>3. page.about = {t[m]} /\ Cardinality(page.about) = 1
      BY <2>3, <3>2, FS_Singleton DEF t
    <3>4. t[m] \in stored \cap HasAbout
      BY <2>5
    <3>5. ASSUME NEW b \in stored \cap HasAbout
          PROVE  LET order == Compare(VersionOf[b], VersionOf[t[m]])
                 IN  order < 0 \/ (order = 0 /\ NumberOf[b] <= NumberOf[t[m]])
      <4>1. PICK l \in K : t[l] = b
        BY <2>6
      <4>2. t[m] \in Artifacts /\ b \in Artifacts
        BY <2>2, <3>4
      <4>3. NotAfter(t[m], b)
        <5>1. CASE m = l
          BY <4>1, <4>2, <5>1, NotAfterIsOrder
        <5>2. CASE m < l
          BY <2>4, <4>1, <5>2 DEF Arranged
        <5>3. QED
          BY <2>4, <3>1, <5>1, <5>2
      <4>4. /\ VersionOf[b] \in Spellings /\ VersionOf[t[m]] \in Spellings
            /\ NumberOf[b] \in Nat /\ NumberOf[t[m]] \in Nat
        BY <4>2, ArtifactAssumption
      <4>5. /\ Compare(VersionOf[b], VersionOf[t[m]])
                   = -Compare(VersionOf[t[m]], VersionOf[b])
            /\ Compare(VersionOf[t[m]], VersionOf[b]) \in {-1, 0, 1}
        BY <4>4, CompareIsOrder
      <4>6. QED
        BY <4>3, <4>4, <4>5 DEF NotAfter
    <3>6. QED
      BY <3>3, <3>4, <3>5 DEF AboutFromNewest
  <2>9. QED
    BY <2>7, <2>8
<1>2. QED
  BY <1>1, PageInvHolds, PTL

\* versions.py 83: "so the row order is stable across requests", whatever order
\* the database returns the rows in.
THEOREM OneRowOrder == PageSpec => PagesAgree
<1>1. ASSUME PageInv, PageInv', [Show]_pageVars, answered
      PROVE  \/ UNCHANGED pageVars
             \/ /\ Len(page.rows) = Len(page'.rows)
                /\ \A i \in DOMAIN page.rows :
                       SameKey(page.rows[i], page'.rows[i])
  <2>1. SUFFICES ASSUME Show
                 PROVE  /\ Len(page.rows) = Len(page'.rows)
                        /\ \A i \in DOMAIN page.rows :
                               SameKey(page.rows[i], page'.rows[i])
    BY <1>1
  <2> DEFINE n == Cardinality(stored)
             s == page.rows
             t == page'.rows
  <2>2. stored \in SUBSET Artifacts /\ stored' = stored /\ answered'
    BY <1>1, <2>1 DEF PageInv, Show
  <2>3. n \in Nat /\ Arranged(s, n, stored)
    BY <1>1, <2>2, PageArranged DEF PageInv
  <2>4. Arranged(t, n, stored)
    <3>1. \E rows \in Listings(stored) : t = SortVersions(rows)
      BY <1>1, <2>2 DEF PageInv
    <3>2. QED
      BY <2>2, <3>1, PageArranged
  <2> HIDE DEF n, s, t
  <2>5. s \in [1 .. n -> stored] /\ t \in [1 .. n -> stored]
    BY <2>3, <2>4 DEF Arranged
  <2>6. Len(s) = n /\ Len(t) = n /\ DOMAIN s = 1 .. n
    BY <2>3, <2>5
  <2>7. \A i \in 1 .. n : SameKey(s[i], t[i])
    <3>1. TAKE i \in 1 .. n
    <3>2. NotAfter(t[i], s[i]) /\ NotAfter(s[i], t[i])
      BY <2>2, <2>3, <2>4, NoLaterRow
    <3>3. s[i] \in Artifacts /\ t[i] \in Artifacts
      BY <2>2, <2>5
    <3>4. QED
      BY <3>2, <3>3, NotAfterIsOrder
  <2>8. QED
    BY <2>6, <2>7 DEF s, t
<1>2. QED
  BY <1>1, PageInvHolds, PTL DEF PageSpec, PagesAgree

-----------------------------------------------------------------------------
\* What holds at the first place, and at a place if at the one before, holds at
\* every place.  (The places where P fails have no least one.)
LEMMA AtEveryPlace ==
    ASSUME NEW n \in Nat, NEW P \in SUBSET (1 .. n),
           1 \in 1 .. n => 1 \in P,
           \A i \in 2 .. n : i - 1 \in P => i \in P
    PROVE  P = 1 .. n
<1> SUFFICES ASSUME P # 1 .. n PROVE FALSE
  OBVIOUS
<1>1. PICK m \in (1 .. n) \ P : \A k \in (1 .. n) \ P : m <= k
  <2>1. (1 .. n) \ P # {}
    OBVIOUS
  <2>2. (1 .. n) \ P \in SUBSET Nat
    OBVIOUS
  <2> QED
    BY <2>1, <2>2, LeastNumber
<1>2. CASE m = 1
  BY <1>2
<1>3. CASE m # 1
  <2>1. m \in 2 .. n /\ m - 1 \in 1 .. n
    BY <1>3
  <2>2. m - 1 \in P
    BY <1>1, <2>1
  <2> QED
    BY <2>1, <2>2
<1> QED
  BY <1>2, <1>3

\* One turn of the loop of version_ranks, at a row of version v.
RankTurn(turn, v) ==
    IF turn.previous # {} /\ \A w \in turn.previous : SameVersion(w, v)
    THEN turn
    ELSE [rank |-> turn.rank + 1, previous |-> {v}]

\* The loop has a turn for every row: what the recursion defines exists.
LEMMA RanksAreTurns ==
    ASSUME NEW n \in Nat, NEW rows \in [1 .. n -> Artifacts]
    PROVE  \E run :
               /\ run[0] = [rank |-> -1, previous |-> {}]
               /\ \A i \in 1 .. n :
                      run[i] = RankTurn(run[i - 1], VersionOf[rows[i]])
               /\ VersionRanks(rows) = [i \in 1 .. n |-> run[i].rank]
<1> DEFINE Start == [rank |-> -1, previous |-> {}]
           Loop(k, g) == [i \in 0 .. k |->
                             IF i = 0 THEN Start
                             ELSE RankTurn(g[i - 1], VersionOf[rows[i]])]
           Exists(k) == \E g : g = Loop(k, g)
           Runs == {k \in 1 .. n : Exists(k)}
           run == CHOOSE g : g = Loop(n, g)
<1>1. Len(rows) = n /\ DOMAIN rows = 1 .. n
  OBVIOUS
<1>2. Exists(0)
  <2>1. [i \in 0 .. 0 |-> Start] = Loop(0, [i \in 0 .. 0 |-> Start])
    OBVIOUS
  <2> QED
    BY <2>1
<1>3. ASSUME NEW k \in 1 .. n, Exists(k - 1)
      PROVE  Exists(k)
  <2>1. PICK g : g = Loop(k - 1, g)
    BY <1>3
  <2> DEFINE h == [i \in 0 .. k |->
                      IF i = k THEN RankTurn(g[k - 1], VersionOf[rows[k]])
                      ELSE g[i]]
  <2>2. h = Loop(k, h)
    <3>1. ASSUME NEW i \in 0 .. k
          PROVE  h[i] = IF i = 0 THEN Start
                        ELSE RankTurn(h[i - 1], VersionOf[rows[i]])
      <4>1. CASE i = k
        BY <4>1
      <4>2. CASE i # k
        <5>1. i \in 0 .. k - 1 /\ h[i] = g[i]
          BY <4>2
        <5>2. g[i] = IF i = 0 THEN Start
                     ELSE RankTurn(g[i - 1], VersionOf[rows[i]])
          BY <2>1, <5>1
        <5>3. i # 0 => h[i - 1] = g[i - 1]
          BY <4>2
        <5> QED
          BY <5>1, <5>2, <5>3
      <4> QED
        BY <4>1, <4>2
    <3> QED
      BY <3>1
  <2> QED
    BY <2>2
<1>4. Exists(n)
  <2> HIDE DEF Exists
  <2>1. 1 \in 1 .. n => 1 \in Runs
    BY <1>2, <1>3
  <2>2. \A i \in 2 .. n : i - 1 \in Runs => i \in Runs
    BY <1>3
  <2>3. Runs \in SUBSET (1 .. n)
    OBVIOUS
  <2>4. Runs = 1 .. n
    <3> HIDE DEF Runs
    <3> QED
      BY <2>1, <2>2, <2>3, AtEveryPlace
  <2>5. n = 0 \/ n \in Runs
    BY <2>4
  <2> QED
    BY <1>2, <2>5
<1>5. VersionRanks(rows) = [i \in 1 .. n |-> run[i].rank]
  BY <1>1 DEF VersionRanks, RankTurn
<1>6. run = Loop(n, run)
  <2> HIDE DEF Loop
  <2> QED
    BY <1>4
<1>7. ASSUME NEW g, NEW i \in 0 .. n
      PROVE  Loop(n, g)[i] = IF i = 0 THEN Start
                             ELSE RankTurn(g[i - 1], VersionOf[rows[i]])
  OBVIOUS
<1>8. \A i \in 0 .. n : run[i] = IF i = 0 THEN Start
                                 ELSE RankTurn(run[i - 1], VersionOf[rows[i]])
  <2> HIDE DEF run, Loop
  <2> QED
    BY <1>6, <1>7
<1> HIDE DEF run
<1> QED
  BY <1>5, <1>8

\* The rank goes up by one where the version is not that of the row before, in
\* a listing that has its versions together: the first version of a rank, which
\* the loop compares with, is then the one before.
LEMMA RanksStep ==
    ASSUME NEW n \in Nat, NEW rows \in [1 .. n -> Artifacts]
    PROVE  /\ VersionRanks(rows) \in [1 .. n -> Nat]
           /\ n # 0 => VersionRanks(rows)[1] = 0
           /\ \A i \in 2 .. n : VersionRanks(rows)[i] =
                  IF Compare(VersionOf[rows[i - 1]], VersionOf[rows[i]]) = 0
                  THEN VersionRanks(rows)[i - 1]
                  ELSE VersionRanks(rows)[i - 1] + 1
<1> DEFINE v(i) == VersionOf[rows[i]]
<1>1. PICK run :
          /\ run[0] = [rank |-> -1, previous |-> {}]
          /\ \A i \in 1 .. n : run[i] = RankTurn(run[i - 1], v(i))
          /\ VersionRanks(rows) = [i \in 1 .. n |-> run[i].rank]
  BY RanksAreTurns
<1>2. \A i \in 1 .. n : v(i) \in Spellings
  BY ArtifactAssumption
<1> HIDE DEF v
<1> DEFINE Like(i) == /\ run[i].rank \in Nat
                      /\ \E w \in Spellings : /\ run[i].previous = {w}
                                              /\ Compare(w, v(i)) = 0
           P == {i \in 1 .. n : Like(i)}
<1>4. n # 0 => run[1].rank = 0 /\ Like(1)
  <2>1. n # 0 => /\ run[1] = [rank |-> 0, previous |-> {v(1)}]
                 /\ v(1) \in Spellings
    BY <1>1, <1>2 DEF RankTurn
  <2>2. n # 0 => Compare(v(1), v(1)) = 0
    BY <1>2, CompareIsOrder
  <2> QED
    BY <2>1, <2>2
<1>5. ASSUME NEW i \in 2 .. n, Like(i - 1)
      PROVE  /\ Like(i)
             /\ run[i].rank = IF Compare(v(i - 1), v(i)) = 0
                              THEN run[i - 1].rank ELSE run[i - 1].rank + 1
  <2>1. PICK w \in Spellings : /\ run[i - 1].previous = {w}
                               /\ Compare(w, v(i - 1)) = 0
    BY <1>5
  <2>2. v(i) \in Spellings /\ v(i - 1) \in Spellings
    BY <1>2
  <2>3. Compare(w, v(i)) = Compare(v(i - 1), v(i)) /\ Compare(v(i), v(i)) = 0
    BY <2>1, <2>2, CompareIsOrder
  <2>4. run[i] = IF Compare(w, v(i)) = 0 THEN run[i - 1]
                 ELSE [rank |-> run[i - 1].rank + 1, previous |-> {v(i)}]
    <3>1. run[i] = RankTurn(run[i - 1], v(i))
      BY <1>1
    <3> QED
      BY <2>1, <3>1 DEF RankTurn, SameVersion
  <2> QED
    BY <1>5, <2>1, <2>2, <2>3, <2>4
<1>6. \A i \in 1 .. n : Like(i)
  <2> HIDE DEF Like
  <2>1. P = 1 .. n
    <3>1. 1 \in 1 .. n => 1 \in P
      BY <1>4
    <3>2. \A i \in 2 .. n : i - 1 \in P => i \in P
      BY <1>5
    <3>3. P \in SUBSET (1 .. n)
      OBVIOUS
    <3> HIDE DEF P
    <3> QED
      BY <3>1, <3>2, <3>3, AtEveryPlace
  <2> QED
    BY <2>1
<1>7. VersionRanks(rows) \in [1 .. n -> Nat]
  BY <1>1, <1>6
<1>8. \A i \in 2 .. n : run[i].rank = IF Compare(v(i - 1), v(i)) = 0
                                     THEN run[i - 1].rank
                                     ELSE run[i - 1].rank + 1
  BY <1>5, <1>6
<1>9. \A i \in 1 .. n : VersionRanks(rows)[i] = run[i].rank
  BY <1>1
<1> HIDE DEF Like
<1>10. n # 0 => run[1].rank = 0
  BY <1>4
<1>11. ASSUME NEW i \in 2 .. n
       PROVE  VersionRanks(rows)[i] =
                  IF Compare(v(i - 1), v(i)) = 0 THEN VersionRanks(rows)[i - 1]
                  ELSE VersionRanks(rows)[i - 1] + 1
  <2>1. /\ VersionRanks(rows)[i] = run[i].rank
        /\ VersionRanks(rows)[i - 1] = run[i - 1].rank
    BY <1>9
  <2> QED
    BY <1>8, <2>1
<1>12. n # 0 => VersionRanks(rows)[1] = 0
  BY <1>9, <1>10
<1> QED
  BY <1>7, <1>11, <1>12 DEF v

\* In an arranged listing ranks stand to each other as the versions do.
LEMMA RanksOrder ==
    ASSUME NEW R \in SUBSET Artifacts, NEW n \in Nat, NEW rows,
           Arranged(rows, n, R), NEW i \in 1 .. n, NEW j \in 1 .. n, i < j
    PROVE  LET order == Compare(VersionOf[rows[i]], VersionOf[rows[j]]) IN
           \/ order = 0 /\ VersionRanks(rows)[i] = VersionRanks(rows)[j]
           \/ order = 1 /\ VersionRanks(rows)[i] < VersionRanks(rows)[j]
<1> DEFINE v(k) == VersionOf[rows[k]]
           ranks == VersionRanks(rows)
           As(k, l) == \/ Compare(v(k), v(l)) = 0 /\ ranks[k] = ranks[l]
                       \/ Compare(v(k), v(l)) = 1 /\ ranks[k] < ranks[l]
           P == {l \in 1 .. n : \A k \in 1 .. l - 1 : As(k, l)}
<1>1. rows \in [1 .. n -> Artifacts]
  BY DEF Arranged
<1>2. \A k \in 1 .. n : v(k) \in Spellings
  BY <1>1, ArtifactAssumption
<1>3. /\ ranks \in [1 .. n -> Nat]
      /\ \A l \in 2 .. n : ranks[l] = IF Compare(v(l - 1), v(l)) = 0
                                      THEN ranks[l - 1] ELSE ranks[l - 1] + 1
  BY <1>1, RanksStep
<1>4. \A k, l \in 1 .. n : k < l => Compare(v(k), v(l)) \in {0, 1}
  <2>1. \A k, l \in 1 .. n : k < l => Compare(v(k), v(l)) >= 0
    <3>1. ASSUME NEW k \in 1 .. n, NEW l \in 1 .. n, k < l
          PROVE  Compare(v(k), v(l)) > 0 \/ Compare(v(k), v(l)) = 0
      BY <3>1 DEF Arranged, NotAfter
    <3>2. \A k, l \in 1 .. n : Compare(v(k), v(l)) \in {-1, 0, 1}
      BY <1>2, CompareIsOrder
    <3> HIDE DEF v
    <3> QED
      BY <3>1, <3>2
  <2> HIDE DEF v
  <2> QED
    BY <1>2, <2>1, CompareIsOrder
<1> HIDE DEF v, ranks
<1>5. ASSUME NEW l \in 2 .. n, l - 1 \in P
      PROVE  l \in P
  <2>1. As(l - 1, l)
    BY <1>3, <1>4
  <2>2. ASSUME NEW k \in 1 .. l - 1, k # l - 1
        PROVE  As(k, l)
    <3>1. As(k, l - 1)
      BY <1>5, <2>2
    <3>2. v(k) \in Spellings /\ v(l - 1) \in Spellings /\ v(l) \in Spellings
      BY <1>2
    <3>3. CASE Compare(v(k), v(l - 1)) = 0
      <4>1. Compare(v(k), v(l)) = Compare(v(l - 1), v(l))
        BY <3>2, <3>3, CompareIsOrder
      <4> QED
        BY <2>1, <3>1, <3>3, <4>1
    <3>4. CASE Compare(v(k), v(l - 1)) = 1
      <4>1. Compare(v(k), v(l)) > 0 \/ Compare(v(l), v(l - 1)) > 0
        BY <3>2, <3>4, CompareIsOrder
      <4>2. Compare(v(l), v(l - 1)) = -Compare(v(l - 1), v(l))
        BY <3>2, CompareIsOrder
      <4>3. Compare(v(k), v(l)) = 1
        BY <2>1, <3>2, <4>1, <4>2, CompareIsOrder
      <4>4. ranks[k] \in Nat /\ ranks[l - 1] \in Nat /\ ranks[l] \in Nat
        BY <1>3
      <4> QED
        BY <2>1, <3>1, <3>4, <4>3, <4>4
    <3> QED
      BY <3>1, <3>3, <3>4
  <2> HIDE DEF As
  <2> QED
    BY <2>1, <2>2
<1>6. P = 1 .. n
  <2>1. 1 \in 1 .. n => 1 \in P
    OBVIOUS
  <2>2. P \in SUBSET (1 .. n)
    OBVIOUS
  <2> HIDE DEF P
  <2> QED
    BY <1>5, <2>1, <2>2, AtEveryPlace
<1>7. As(i, j)
  <2>1. i \in 1 .. j - 1
    OBVIOUS
  <2> HIDE DEF As
  <2> QED
    BY <1>6, <2>1
<1> QED
  BY <1>7 DEF v, ranks

\* No rank is left out.
LEMMA RanksAreAll ==
    ASSUME NEW R \in SUBSET Artifacts, NEW n \in Nat, NEW rows,
           Arranged(rows, n, R), n # 0
    PROVE  {VersionRanks(rows)[i] : i \in 1 .. n} = 0 .. VersionRanks(rows)[n]
<1> DEFINE ranks == VersionRanks(rows)
           Reaching(x) == {i \in 1 .. n : ranks[i] >= x}
<1>1. /\ ranks \in [1 .. n -> Nat] /\ ranks[1] = 0
      /\ \A i \in 2 .. n : ranks[i] \in {ranks[i - 1], ranks[i - 1] + 1}
  <2>1. rows \in [1 .. n -> Artifacts]
    BY DEF Arranged
  <2> QED
    BY <2>1, RanksStep
<1>2. \A i \in 1 .. n : i < n => ranks[i] <= ranks[n]
  <2>1. \A i \in 1 .. n : i < n => ranks[i] = ranks[n] \/ ranks[i] < ranks[n]
    BY RanksOrder
  <2> QED
    BY <1>1, <2>1
<1> HIDE DEF ranks
<1>3. ASSUME NEW x \in 0 .. ranks[n]
      PROVE  \E i \in 1 .. n : ranks[i] = x
  <2>1. x \in Nat /\ ranks[n] \in Nat /\ n \in Reaching(x)
    BY <1>1
  <2>2. PICK m \in Reaching(x) : \A k \in Reaching(x) : m <= k
    <3>1. Reaching(x) # {} /\ Reaching(x) \in SUBSET Nat
      BY <2>1
    <3> HIDE DEF Reaching
    <3> QED
      BY <3>1, LeastNumber
  <2>3. CASE m = 1
    BY <1>1, <2>1, <2>3
  <2>4. CASE m # 1
    <3>1. m \in 2 .. n /\ m - 1 \in 1 .. n /\ ranks[m] >= x
      BY <2>4
    <3>2. ~(ranks[m - 1] >= x)
      BY <2>2, <3>1
    <3>3. ranks[m] \in Nat /\ ranks[m - 1] \in Nat
      BY <1>1, <3>1
    <3> QED
      BY <1>1, <2>1, <3>1, <3>2, <3>3
  <2> QED
    BY <2>3, <2>4
<1>4. ASSUME NEW i \in 1 .. n PROVE ranks[i] \in 0 .. ranks[n]
  BY <1>1, <1>2
<1>5. {ranks[i] : i \in 1 .. n} = 0 .. ranks[n]
  BY <1>3, <1>4
<1> QED
  BY <1>5 DEF ranks

\* versions.py 104: "the client sorts on this integer and gets the exact
\* ordering the server computed", for every set of rows and every order of
\* their versions.
THEOREM RanksAreOrder == PageSpec => []RanksMatchOrder
<1>1. PageInv => RanksMatchOrder
  <2>1. SUFFICES ASSUME PageInv, answered PROVE RanksMatchOrder
    BY DEF RanksMatchOrder
  <2> DEFINE n == Cardinality(stored)
             s == page.rows
             ranks == page.ranks
             v(k) == VersionOf[s[k]]
  <2>2. stored \in SUBSET Artifacts
    BY <2>1 DEF PageInv
  <2>3. n \in Nat /\ Arranged(s, n, stored) /\ ranks = VersionRanks(s)
    BY <2>1, <2>2, PageArranged DEF PageInv
  <2> HIDE DEF n, s, ranks
  <2>4. /\ s \in [1 .. n -> stored] /\ s \in [1 .. n -> Artifacts]
        /\ DOMAIN s = 1 .. n
    BY <2>2, <2>3 DEF Arranged
  <2>5. ranks \in [1 .. n -> Nat] /\ DOMAIN ranks = 1 .. n
    BY <2>3, <2>4, RanksStep
  <2>6. {ranks[i] : i \in DOMAIN ranks}
            = 0 .. Cardinality({ranks[i] : i \in DOMAIN ranks}) - 1
    <3>1. CASE n = 0
      <4>1. {ranks[i] : i \in DOMAIN ranks} = {}
        BY <2>5, <3>1
      <4>2. Cardinality({}) = 0
        BY FS_EmptySet
      <4> QED
        BY <4>1, <4>2
    <3>2. CASE n # 0
      <4>1. ranks[n] \in Nat
        BY <2>3, <2>5, <3>2
      <4>2. {ranks[i] : i \in DOMAIN ranks} = 0 .. ranks[n]
        BY <2>2, <2>3, <2>5, <3>2, RanksAreAll
      <4>3. Cardinality(0 .. ranks[n]) = ranks[n] + 1
        BY <4>1, FS_Interval
      <4>4. Cardinality({ranks[i] : i \in DOMAIN ranks}) = ranks[n] + 1
        BY <4>2, <4>3
      <4>5. ranks[n] = Cardinality({ranks[i] : i \in DOMAIN ranks}) - 1
        BY <4>1, <4>4
      <4> QED
        BY <4>2, <4>5, Zenon
    <3> QED
      BY <3>1, <3>2
  <2>7. \A k \in 1 .. n : v(k) \in Spellings
    BY <2>4, ArtifactAssumption
  <2>8. ASSUME NEW i \in 1 .. n, NEW j \in 1 .. n, i < j
        PROVE  /\ Sign(ranks[j], ranks[i]) = Compare(v(i), v(j))
               /\ Sign(ranks[i], ranks[j]) = Compare(v(j), v(i))
               /\ ranks[i] = ranks[j] => NumberOf[s[i]] >= NumberOf[s[j]]
    <3>1. \/ Compare(v(i), v(j)) = 0 /\ ranks[i] = ranks[j]
          \/ Compare(v(i), v(j)) = 1 /\ ranks[i] < ranks[j]
      BY <2>2, <2>3, <2>8, RanksOrder
    <3>2. /\ ranks[i] \in Nat /\ ranks[j] \in Nat
          /\ NumberOf[s[i]] \in Nat /\ NumberOf[s[j]] \in Nat
      BY <2>4, <2>5, ArtifactAssumption
    <3>3. Compare(v(j), v(i)) = -Compare(v(i), v(j))
      BY <2>7, CompareIsOrder
    <3>4. NotAfter(s[i], s[j])
      BY <2>3, <2>8 DEF Arranged
    <3>5. ranks[i] = ranks[j] => NumberOf[s[i]] >= NumberOf[s[j]]
      BY <3>1, <3>2, <3>4 DEF NotAfter
    <3> HIDE DEF v
    <3> QED
      BY <3>1, <3>2, <3>3, <3>5 DEF Sign
  <2>9. \A i \in 1 .. n : Sign(ranks[i], ranks[i]) = 0 /\ Compare(v(i), v(i)) = 0
    BY <2>5, <2>7, CompareIsOrder DEF Sign
  <2>10. \A i, j \in 1 .. n :
            /\ Sign(ranks[j], ranks[i]) = Compare(v(i), v(j))
            /\ i < j /\ ranks[i] = ranks[j]
                   => NumberOf[s[i]] >= NumberOf[s[j]]
    <3>1. TAKE i, j \in 1 .. n
    <3>2. i < j \/ i = j \/ j < i
      BY <2>3
    <3> QED
      BY <2>8, <2>9, <3>2
  <2> QED
    BY <2>4, <2>6, <2>10 DEF RanksMatchOrder, s, ranks
<1> QED
  BY <1>1, PageInvHolds, PTL
==============================================================================
