----------------------------- MODULE RangedRead -----------------------------
(***************************************************************************)
(* read_conda_about_ranged: the about metadata of a .conda archive out of  *)
(* byte ranges of it.  A first read takes a window of the archive's end    *)
(* and is widened until it holds the zip directory; a second one takes the *)
(* member the directory names.                                             *)
(*                                                                         *)
(* An archive is its layout: the info member somewhere, then the           *)
(* directory, the end record and a comment.                                *)
(***************************************************************************)
EXTENDS Integers

CONSTANTS
    Archives,   \* the archives to read
    Window,     \* _ZIP_TAIL_WINDOW
    WindowMax,  \* _ZIP_TAIL_WINDOW_MAX
    Slack,      \* _LOCAL_HEADER_SLACK
    EndRec,     \* length of an end record without its comment
    Locator,    \* length of the Zip64 locator in front of it
    MaxComment  \* longest comment

Layouts == [size : Nat,       \* of the object
            zip : BOOLEAN,    \* whether it is a zip at all
            directory : Nat,  \* length of the directory
            comment : Nat,
            info : BOOLEAN,   \* whether there is an info member
            offset : Nat,     \* where the directory says that it begins
            header : Nat,     \* its local header, but for the name
            data : Nat,       \* the name and the compressed bytes
            about : BOOLEAN]  \* whether they hold about metadata

ASSUME ArchiveAssumption ==
    /\ Archives \subseteq Layouts
    /\ \A a \in Archives : a.zip =>
           /\ a.comment <= MaxComment
           /\ a.directory + EndRec + a.comment <= a.size
ASSUME SizeAssumption ==
    /\ Window \in Nat \ {0} /\ WindowMax \in Nat /\ Slack \in Nat
    /\ EndRec \in Nat \ {0} /\ Locator \in Nat /\ MaxComment \in Nat

VARIABLES
    archive,   \* the one that is read
    window,    \* how much of its end is asked for
    at,        \* "tail", "locate", "member", "extract", "end"
    requests,  \* the ranges asked of the storage
    broke,     \* whether one of those failed
    outcome    \* "about", "empty", or ArchiveFetchError as "failed"

readVars == <<archive, window, at, requests, broke, outcome>>

Lesser(m, n) == IF m <= n THEN m ELSE n
Greater(m, n) == IF m >= n THEN m ELSE n

\* The first byte ZipFile reads when it opens an archive: of the end record,
\* of what may be comment, if a record without one is not at the very end, of
\* the locator, if there is room for one, or of the directory.
EndStart(a) == a.size - EndRec - a.comment
FirstByteRead(a) ==
    LET search == IF a.zip /\ a.comment = 0 THEN a.size - EndRec
                  ELSE Greater(a.size - MaxComment - EndRec, 0)
        locator == IF EndStart(a) >= Locator THEN EndStart(a) - Locator
                   ELSE EndStart(a)
    IN  IF a.zip
        THEN Lesser(search, Lesser(locator, EndStart(a) - a.directory))
        ELSE search

\* A file that cannot hold an end record is refused without any reading.
TooShort(a) == a.size < EndRec

ReadInit ==
    /\ archive \in Archives
    /\ window = Lesser(archive.size, Window)
    /\ at = IF archive.size = 0 THEN "end" ELSE "tail"
    /\ requests = {}
    /\ broke = FALSE
    /\ outcome = "empty"

-----------------------------------------------------------------------------
\* get_range, which asks for nothing if there is nothing to ask for.
AskRange(start, length) ==
    requests' = IF length > 0
                THEN requests \cup {[start |-> start, length |-> length]}
                ELSE requests

\* The end of the archive.
FetchTail ==
    /\ at = "tail"
    /\ AskRange(archive.size - window, window)
    /\ at' = "locate"
    /\ UNCHANGED <<archive, window, broke, outcome>>

\* A mutation of Widened: it grows once.
WidenedOnce(w) == Lesser(archive.size, 4 * Window)

\* The next window after a miss.
Widened(w) == Lesser(archive.size, 4 * w)

\* _locate_info_member: a miss widens the window, or is an archive nobody
\* reads; a directory without the member ends the reading, too.
Locate ==
    /\ at = "locate"
    /\ LET missed == ~TooShort(archive)
                     /\ FirstByteRead(archive) < archive.size - window
       IN  IF missed /\ window < Lesser(archive.size, WindowMax)
           THEN window' = Widened(window) /\ at' = "tail"
           ELSE /\ at' = IF missed \/ TooShort(archive) \/ ~archive.zip
                            \/ ~archive.info
                         THEN "end" ELSE "member"
                /\ UNCHANGED window
    /\ UNCHANGED <<archive, requests, broke, outcome>>

\* Mutations of MemberLength: it is not clamped to the object; it has no slack.
MemberLengthUnclamped == archive.data + Slack
MemberLengthExact == Lesser(archive.size - archive.offset, archive.data)

\* How much is asked for of the member, whose header's length is not known.
MemberLength ==
    Lesser(archive.size - archive.offset, archive.data + Slack)

FetchMember ==
    /\ at = "member"
    /\ AskRange(archive.offset, MemberLength)
    /\ at' = "extract"
    /\ UNCHANGED <<archive, window, broke, outcome>>

\* _WindowedReader holds the bytes: the member's header and data lie
\* in the two windows.
Holds ==
    LET end == archive.offset + archive.header + archive.data
        tail == archive.size - window
    IN  \/ end <= archive.offset + MemberLength
        \/ end <= archive.size
           /\ (tail <= archive.offset \/ tail <= archive.offset + MemberLength)

\* _about_from_zip_member; bytes that are not there are no metadata.
Extract ==
    /\ at = "extract"
    /\ outcome' = IF archive.about /\ Holds THEN "about" ELSE "empty"
    /\ at' = "end"
    /\ UNCHANGED <<archive, window, requests, broke>>

\* The storage does not deliver a range.
RangeFails ==
    /\ \/ at = "tail" /\ AskRange(archive.size - window, window)
       \/ /\ at = "member" /\ MemberLength > 0
          /\ AskRange(archive.offset, MemberLength)
    /\ broke' = TRUE
    /\ outcome' = "failed"
    /\ at' = "end"
    /\ UNCHANGED <<archive, window>>

Ended == at = "end" /\ UNCHANGED readVars

Step == FetchTail \/ Locate \/ FetchMember \/ Extract \/ RangeFails
ReadNext == Step \/ Ended

ReadSpec == ReadInit /\ [][ReadNext]_readVars
ReadFairness == WF_readVars(Step)
-----------------------------------------------------------------------------
\* What read_package_about makes of the archive as a file.
PathOutcome(a) ==
    IF a.zip /\ a.info /\ a.about /\ a.offset + a.header + a.data <= a.size
    THEN "about" ELSE "empty"

\* package_about.py 340: the first read "has to be a guess".  Whatever is
\* guessed and missed, the ranges say what the whole file says, if the
\* directory is within WindowMax of the end and the header no longer than
\* Slack; and only a range that was not delivered is a failure.
RangedAgrees ==
    at = "end" =>
        /\ outcome = "failed" <=> broke
        /\ ~broke /\ (TooShort(archive) \/ FirstByteRead(archive)
                          >= archive.size - WindowMax)
                  /\ archive.header <= Slack
               => outcome = PathOutcome(archive)
        /\ outcome = "about" => PathOutcome(archive) = "about"

\* storage.py 77: "a backend may reject a start at or past the end".  Nothing
\* is asked for that is not inside the object.
RequestsInside ==
    \A r \in requests :
        r.start >= 0 /\ r.length > 0 /\ r.start + r.length <= archive.size

\* The window grows until it holds the directory or has its limit.
EveryReadEnds == <>(at = "end")
=============================================================================
