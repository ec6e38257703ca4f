------------------------------ MODULE Versions ------------------------------
(***************************************************************************)
(* A package page: the rows the database returned, in whatever order,      *)
(* sorted newest first, with the rank of each version and the row whose    *)
(* about metadata stands for the package.                                  *)
(*                                                                         *)
(* rattler's order of the versions it can parse is external: a number for  *)
(* each spelling, the same for spellings of one version.                   *)
(***************************************************************************)
EXTENDS Integers, FiniteSets, Sequences

CONSTANTS
    Artifacts,   \* version rows
    Spellings,   \* version strings
    Parsed,      \* rattler's order, Unparsed for what it rejects
    Text,        \* their order as strings
    VersionOf, NumberOf,   \* version and build number of each row
    PlaceOf,     \* the order of subdir and build
    HasAbout,    \* rows with about metadata
    Unparsed

ASSUME SpellingAssumption ==
    /\ Parsed \in [Spellings -> Nat \cup {Unparsed}] /\ Unparsed \notin Nat
    /\ Text \in [Spellings -> Nat]
    /\ \A v, w \in Spellings : Text[v] = Text[w] => v = w
ASSUME ArtifactAssumption ==
    /\ IsFiniteSet(Artifacts) /\ HasAbout \subseteq Artifacts
    /\ VersionOf \in [Artifacts -> Spellings]
    /\ NumberOf \in [Artifacts -> Nat] /\ PlaceOf \in [Artifacts -> Nat]

VARIABLES
    stored,    \* the rows of the package
    page,      \* what the last request was answered
    answered   \* whether there was one

pageVars == <<stored, page, answered>>

-----------------------------------------------------------------------------
Sign(m, n) == IF m < n THEN -1 ELSE IF m > n THEN 1 ELSE 0

\* compare_versions: what does not parse is below everything that does.
Compare(v, w) ==
    IF Parsed[v] = Unparsed /\ Parsed[w] = Unparsed THEN Sign(Text[v], Text[w])
    ELSE IF Parsed[v] = Unparsed THEN -1
    ELSE IF Parsed[w] = Unparsed THEN 1
    ELSE Sign(Parsed[v], Parsed[w])

\* list.sort: elements neither of which is before the other keep their order.
\* before is the set of the pairs of an element and a later one.
StableSort(s, before) ==
    LET place == [i \in DOMAIN s |->
            Cardinality({j \in DOMAIN s :
                \/ <<s[j], s[i]>> \in before
                \/ <<s[i], s[j]>> \notin before /\ j <= i})]
    IN  [k \in DOMAIN s |-> s[CHOOSE i \in DOMAIN s : place[i] = k]]

Pairs == Artifacts \X Artifacts
Placed == {p \in Pairs : PlaceOf[p[1]] < PlaceOf[p[2]]}
Rebuilt == {p \in Pairs : NumberOf[p[1]] > NumberOf[p[2]]}
Newer == {p \in Pairs : Compare(VersionOf[p[1]], VersionOf[p[2]]) > 0}

\* A mutation of SortVersions: the rows of one build come as they came from the
\* database.
SortUnplaced(rows) == StableSort(StableSort(rows, Rebuilt), Newer)

\* sort_versions: from the least significant key to the most.
SortVersions(rows) ==
    StableSort(StableSort(StableSort(rows, Placed), Rebuilt), Newer)

\* A mutation of SameVersion: one spelling, one version.
SameText(v, w) == v = w

SameVersion(v, w) == Compare(v, w) = 0

\* version_ranks: the rank goes up where the version differs from the first
\* one of the rank before.
VersionRanks(ordered) ==
    LET run[i \in 0 .. Len(ordered)] ==
            IF i = 0 THEN [rank |-> -1, previous |-> {}]
            ELSE LET v == VersionOf[ordered[i]] IN
                 IF run[i - 1].previous # {}
                    /\ \A w \in run[i - 1].previous : SameVersion(w, v)
                 THEN run[i - 1]
                 ELSE [rank |-> run[i - 1].rank + 1, previous |-> {v}]
    IN  [i \in DOMAIN ordered |-> run[i].rank]

\* A mutation of AboutSource: the newest row, whether or not it has any.
AboutOfFirst(ordered) ==
    IF ordered = <<>> THEN {} ELSE {ordered[1]} \cap HasAbout

\* _about_source: the first row with metadata, if there is one.
AboutSource(ordered) ==
    {ordered[i] : i \in {k \in DOMAIN ordered :
        /\ ordered[k] \in HasAbout
        /\ \A j \in 1 .. k - 1 : ordered[j] \notin HasAbout}}

\* Every order the rows may come in.
Listings(R) ==
    {s \in [1 .. Cardinality(R) -> R] :
        \A i, j \in DOMAIN s : s[i] = s[j] => i = j}

\* _package_out_from.
PageOf(rows) ==
    LET ordered == SortVersions(rows)
    IN  [rows |-> ordered, ranks |-> VersionRanks(ordered),
         about |-> AboutSource(ordered)]

PageInit ==
    /\ stored \in SUBSET Artifacts
    /\ page = [rows |-> <<>>, ranks |-> <<>>, about |-> {}]
    /\ answered = FALSE

\* A request for the page.
Show ==
    /\ \E rows \in Listings(stored) : page' = PageOf(rows)
    /\ answered' = TRUE
    /\ UNCHANGED stored

PageSpec == PageInit /\ [][Show]_pageVars
-----------------------------------------------------------------------------
SameKey(a, b) ==
    /\ Compare(VersionOf[a], VersionOf[b]) = 0
    /\ NumberOf[a] = NumberOf[b] /\ PlaceOf[a] = PlaceOf[b]

\* versions.py 83: "so the row order is stable across requests".  Two answers
\* about the same rows show them in one order, but for rows that differ in the
\* spelling of their version only.
PagesAgree ==
    [][answered => /\ Len(page.rows) = Len(page'.rows)
                   /\ \A i \in DOMAIN page.rows :
                          SameKey(page.rows[i], page'.rows[i])]_pageVars

\* versions.py 104: "the client sorts on this integer and gets the exact
\* ordering the server computed".  Ranks begin at 0, leave none out, and order
\* rows as their versions do; within one, the latest build comes first.
RanksMatchOrder ==
    answered =>
        /\ {page.ranks[i] : i \in DOMAIN page.ranks}
               = 0 .. Cardinality(
                          {page.ranks[i] : i \in DOMAIN page.ranks}) - 1
        /\ \A i, j \in DOMAIN page.rows :
               LET a == page.rows[i]
                   b == page.rows[j]
               IN  /\ Sign(page.ranks[j], page.ranks[i])
                          = Compare(VersionOf[a], VersionOf[b])
                   /\ i < j /\ page.ranks[i] = page.ranks[j]
                          => NumberOf[a] >= NumberOf[b]

\* api/packages.py 133: "the newest version by conda ordering" speaks for the
\* package.  If any row has metadata, the page has that of a row than which
\* none with metadata is newer, nor a later build of the same version.
AboutFromNewest ==
    answered =>
        /\ Cardinality(page.about) = IF stored \cap HasAbout = {} THEN 0 ELSE 1
        /\ \A a \in page.about : a \in HasAbout
        /\ \A a \in page.about, b \in stored \cap HasAbout :
               LET order == Compare(VersionOf[b], VersionOf[a])
               IN  order < 0 \/ (order = 0 /\ NumberOf[b] <= NumberOf[a])
=============================================================================
