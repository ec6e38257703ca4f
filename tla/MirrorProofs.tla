---------------------------- MODULE MirrorProofs ----------------------------
(***************************************************************************)
(* How old and how current a mirrored index is when it is served, for any  *)
(* number of requests, any cache time and any bound on downloads; and that *)
(* archives are kept.                                                      *)
(*                                                                         *)
(* The argument follows a copy through the storage: what a download writes *)
(* was current at most Slow seconds ago (Streams), so a stored copy is no  *)
(* older than its last_modified less Slow (StoredAge), so what is fresh    *)
(* enough to serve stays recent enough until it is served (Serving).       *)
(***************************************************************************)
EXTENDS Mirror, TLAPS

\* What the steps of a request leave behind for the next ones.
Shape ==
    \A r \in Requests :
        /\ pc[r] # "idle" => key[r] \in Keys
        /\ pc[r] \in {"open", "stream", "serve", "end"} => current[r] # None
        /\ pc[r] = "stream" => opened[r] # None
        /\ served[r] # None => pc[r] = "end"

TypeInv == MirrorTypeOK /\ Shape

\* Upstream's editions only grow.
Grows ==
    /\ \A t \in Times : t <= now => past[t] <= upstream
    /\ \A t, u \in Times : t <= u /\ u <= now => past[t] <= past[u]

StoredAge ==
    stored[Index] # None =>
        /\ stored[Index].at <= now
        /\ stored[Index].edition >= AsOf(stored[Index].at - Slow)

Streams ==
    \A r \in Requests : pc[r] = "stream" =>
        /\ opened[r].at <= now /\ now <= opened[r].at + Slow
        /\ key[r] = Index => opened[r].edition >= past[opened[r].at]

Floors ==
    \A r \in Requests :
        current[r] # None => current[r].oldest <= AsOf(now - MaxAge)

Serving ==
    \A r \in Requests \ failed :
        key[r] = Index /\ pc[r] = "serve" =>
            /\ stored[Index] # None
            /\ stored[Index].edition >= current[r].oldest

IndInv ==
    /\ TypeInv /\ Grows /\ StoredAge /\ Streams /\ Floors /\ Serving
    /\ StaleWithinBound

\* ------------------------------------------------------------------- types

LEMMA RecordTypes ==
    /\ \A c \in Copy : c.edition \in Nat /\ c.at \in Nat
    /\ \A c \in Sending : c.edition \in Nat /\ c.at \in Nat
    /\ \A c \in Mark : c.edition \in Nat /\ c.oldest \in Nat
BY DEF Copy, Sending, Mark

LEMMA MaxAgeType == MaxAge \in Nat /\ Slow \in Nat /\ Slow <= MaxAge
BY TimeAssumption DEF MaxAge

LEMMA TypeInit == Init => TypeInv
<1> SUFFICES ASSUME Init PROVE TypeInv
    OBVIOUS
<1> DEFINE first == [edition |-> 0, whole |-> TRUE, at |-> 0]
<1>0. first \in Copy
    BY DEF Copy
<1>1. stored \in [Keys -> Copy \cup {None}]
  <2>1. stored \in [Keys -> {None, first}]
      BY DEF Init
  <2> HIDE DEF first
  <2> QED
      BY <1>0, <2>1
<1>2. 0 \in Times /\ 0 \in 0 .. MaxEdition
    BY TimeAssumption DEF Times
<1> QED
    BY <1>1, <1>2 DEF Init, TypeInv, MirrorTypeOK, Shape

LEMMA AsOfType ==
    ASSUME TypeInv, NEW t \in Int, t <= now
    PROVE  AsOf(t) \in 0 .. MaxEdition
BY TimeAssumption DEF TypeInv, MirrorTypeOK, AsOf, Times

LEMMA TypeStep ==
    ASSUME TypeInv, [Next]_vars
    PROVE  TypeInv'
<1> USE DEF TypeInv, clock, history
<1>1. CASE UNCHANGED vars
    BY <1>1 DEF MirrorTypeOK, Shape, vars
<1>2. CASE Publish
    BY <1>2, TimeAssumption DEF Publish, MirrorTypeOK, Shape
<1>3. CASE Tick
    BY <1>3, TimeAssumption DEF Tick, MirrorTypeOK, Shape, Times
<1> SUFFICES ASSUME NEW r \in Requests,
                    \/ Get(r) \/ Head(r) \/ Open(r) \/ Download(r)
                    \/ Refused(r) \/ BreakOff(r) \/ Serve(r) \/ End(r)
             PROVE  TypeInv'
    BY <1>1, <1>2, <1>3 DEF Next
<1>4. CASE Get(r)
    BY <1>4 DEF Get, MirrorTypeOK, Shape
<1>5. CASE Head(r)
  <2>1. [edition |-> upstream, oldest |-> AsOf(now - MaxAge)] \in Mark
      BY MaxAgeType, AsOfType, TimeAssumption DEF MirrorTypeOK, Times, Mark
  <2>2. [edition |-> upstream, oldest |-> AsOf(now - MaxAge)] # None
      BY <2>1, NoneAssumption
  <2> QED
      BY <1>5, <2>1, <2>2 DEF Head, MirrorTypeOK, Shape
<1>6. CASE Open(r)
  <2>1. [edition |-> EditionOf(key[r]), at |-> now] \in Sending
      BY TimeAssumption DEF EditionOf, MirrorTypeOK, Times, Sending
  <2>2. [edition |-> EditionOf(key[r]), at |-> now] # None
      BY <2>1, NoneAssumption
  <2> QED
      BY <1>6, <2>1, <2>2 DEF Open, MirrorTypeOK, Shape
<1>7. CASE Download(r) \/ BreakOff(r)
  <2>1. opened[r] \in Sending
      BY <1>7 DEF Download, BreakOff, MirrorTypeOK, Shape
  <2>2. \A whole \in BOOLEAN :
            [edition |-> opened[r].edition, whole |-> whole, at |-> now]
                \in Copy
      BY <2>1, RecordTypes, TimeAssumption DEF MirrorTypeOK, Copy, Times
  <2>3. stored' \in [Keys -> Copy \cup {None}]
    <3>1. PICK c \in Copy : stored' = [stored EXCEPT ![key[r]] = c]
        BY <1>7, <2>2 DEF Download, BreakOff, Write
    <3> QED
        BY <3>1 DEF MirrorTypeOK
  <2> QED
      BY <1>7, <2>3 DEF Download, BreakOff, Cross, AfterFailure, MirrorTypeOK,
                        Shape
<1>8. CASE Refused(r)
    BY <1>8 DEF Refused, AfterFailure, MirrorTypeOK, Shape
<1>9. CASE Serve(r)
    BY <1>9 DEF Serve, MirrorTypeOK, Shape
<1>10. CASE End(r)
    BY <1>10, NoneAssumption DEF End, MirrorTypeOK, Shape
<1> QED
    BY <1>4, <1>5, <1>6, <1>7, <1>8, <1>9, <1>10

\* --------------------------------------------------------------- staleness

\* What was current later is no older.
LEMMA AsOfGrows ==
    ASSUME TypeInv, Grows, NEW t \in Int, NEW u \in Int, t <= u, u <= now
    PROVE  AsOf(t) <= AsOf(u) /\ AsOf(u) <= upstream
<1>1. now \in Nat /\ now <= MaxTime /\ MaxTime \in Nat
    BY TimeAssumption DEF TypeInv, MirrorTypeOK, Times
<1> DEFINE lo == IF t < 0 THEN 0 ELSE t
           hi == IF u < 0 THEN 0 ELSE u
<1>2. lo \in Times /\ hi \in Times /\ lo <= hi /\ hi <= now
    BY <1>1 DEF Times
<1> QED
    BY <1>2 DEF Grows, AsOf

\* At first nothing is older than the clock, and nothing has been served.
LEMMA SafeInit == Init => Grows /\ StoredAge /\ Streams /\ Floors /\ Serving
                          /\ StaleWithinBound
<1> SUFFICES ASSUME Init PROVE Grows /\ StoredAge /\ Streams /\ Floors
                               /\ Serving /\ StaleWithinBound
    OBVIOUS
<1>1. stored[Index] \in {None, [edition |-> 0, whole |-> TRUE, at |-> 0]}
    BY DEF Init, Keys
<1>2. AsOf(0 - Slow) = 0
    BY TimeAssumption DEF Init, AsOf, Times
<1>3. StoredAge
    BY <1>1, <1>2, NoneAssumption DEF StoredAge, Init
<1> QED
    BY <1>3, TimeAssumption
    DEF Init, Grows, Streams, Floors, Serving, StaleWithinBound, Times

\* Time and upstream move on: every bound is as good as it was.
LEMMA ClockStep ==
    ASSUME IndInv, TypeInv', Tick \/ Publish
    PROVE  IndInv'
<1> USE DEF IndInv
<1>1. /\ stored' = stored /\ pc' = pc /\ key' = key /\ opened' = opened
      /\ served' = served /\ current' = current /\ failed' = failed
    BY DEF Tick, Publish, history
<1>2. CASE Publish
  <2>1. now' = now /\ past' = past /\ upstream' = upstream + 1
      BY <1>2 DEF Publish
  <2> QED
      BY <1>1, <2>1
      DEF Grows, StoredAge, Streams, Floors, Serving, StaleWithinBound, AsOf,
          TypeInv, MirrorTypeOK
<1>3. CASE Tick
  <2>1. /\ now \in Nat /\ now + 1 \in Times /\ now' = now + 1
        /\ upstream' = upstream
        /\ past' = [past EXCEPT ![now + 1] = upstream]
        /\ past \in [Times -> 0 .. MaxEdition] /\ upstream \in Nat
      BY <1>3, TimeAssumption DEF Tick, TypeInv, MirrorTypeOK, Times
  <2>2. /\ past'[now + 1] = upstream
        /\ \A t \in Times : t <= now => past'[t] = past[t]
      BY <2>1 DEF Times
  <2>3. \A t \in Int : t <= now =>
            past'[IF t < 0 THEN 0 ELSE t] = AsOf(t)
      BY <2>1, <2>2 DEF AsOf, Times
  <2>4. Grows'
      BY <2>1, <2>2 DEF Grows, Times
  <2>5. StoredAge'
      BY <1>1, <2>1, <2>3, RecordTypes, TimeAssumption
      DEF StoredAge, TypeInv, MirrorTypeOK, Keys, AsOf
  <2>6. Streams'
    <3> SUFFICES ASSUME NEW r \in Requests, pc[r] = "stream"
                 PROVE  /\ opened[r].at <= now + 1
                        /\ now + 1 <= opened[r].at + Slow
                        /\ key[r] = Index => opened[r].edition
                                                >= past'[opened[r].at]
        BY <1>1, <2>1 DEF Streams
    <3>1. opened[r] \in Sending
        BY DEF TypeInv, MirrorTypeOK, Shape
    <3>2. now - opened[r].at < Slow
        BY <1>3 DEF Tick
    <3>3. opened[r].at \in Times /\ opened[r].at <= now
        BY <2>1, <3>1, RecordTypes, TimeAssumption
        DEF Streams, Times, TypeInv, MirrorTypeOK
    <3> QED
        BY <2>1, <2>2, <3>1, <3>2, <3>3, RecordTypes, TimeAssumption
        DEF Streams
  <2>7. Floors'
    <3> SUFFICES ASSUME NEW r \in Requests, current[r] # None
                 PROVE  current[r].oldest <= AsOf(now - MaxAge)'
        BY <1>1 DEF Floors
    <3>1. current[r].oldest \in Nat /\ current[r].oldest <= AsOf(now - MaxAge)
        BY RecordTypes DEF Floors, TypeInv, MirrorTypeOK
    <3>2. AsOf(now - MaxAge) \in Nat /\ AsOf(now - MaxAge) <= upstream
        BY <2>1, AsOfGrows, AsOfType, MaxAgeType, TimeAssumption
    <3>3. CASE MaxAge = 0
      <4>1. AsOf(now - MaxAge)' = upstream
          BY <2>1, <2>2, <3>3 DEF AsOf
      <4> QED
          BY <2>1, <3>1, <3>2, <4>1
    <3>4. CASE MaxAge # 0
      <4> DEFINE t == now + 1 - MaxAge
      <4>1. t \in Int /\ t <= now /\ now - MaxAge \in Int /\ now - MaxAge <= t
          BY <2>1, <3>4, MaxAgeType
      <4>2. AsOf(now - MaxAge)' = past'[IF t < 0 THEN 0 ELSE t]
          BY <2>1, MaxAgeType DEF AsOf
      <4>3. AsOf(now - MaxAge) <= AsOf(t) /\ AsOf(t) \in Nat
          BY <4>1, AsOfGrows, AsOfType, TimeAssumption
      <4> QED
          BY <2>3, <3>1, <3>2, <4>1, <4>2, <4>3
    <3> QED
        BY <3>3, <3>4
  <2>8. Serving' /\ StaleWithinBound'
      BY <1>1 DEF Serving, StaleWithinBound
  <2> QED
      BY <2>4, <2>5, <2>6, <2>7, <2>8
<1> QED
    BY <1>2, <1>3

\* A download writes something recent enough for everybody: the object it
\* leaves is no older than any request may be served.
LEMMA WriteIsRecent ==
    ASSUME IndInv, NEW r \in Requests, pc[r] = "stream", key[r] = Index,
           NEW whole \in BOOLEAN, Write(r, whole)
    PROVE  /\ stored'[Index] # None
           /\ stored'[Index].at = now
           /\ stored'[Index].edition \in Nat
           /\ stored'[Index].edition >= AsOf(now - Slow)
           /\ stored'[Index].edition >= AsOf(now - MaxAge)
<1> DEFINE copy == [edition |-> opened[r].edition, whole |-> whole,
                    at |-> now]
<1>1. now \in Nat /\ now \in Times
    BY TimeAssumption DEF IndInv, TypeInv, MirrorTypeOK, Times
<1>2. opened[r] \in Sending /\ opened[r].edition \in Nat /\ opened[r].at \in Nat
    BY RecordTypes DEF IndInv, TypeInv, MirrorTypeOK, Shape
<1>3. copy \in Copy /\ copy # None
    BY <1>1, <1>2, NoneAssumption DEF Copy
<1>4. stored'[Index] = copy
    BY DEF Write, IndInv, TypeInv, MirrorTypeOK, Keys
<1>5. /\ opened[r].at <= now /\ now - Slow <= opened[r].at
      /\ opened[r].edition >= AsOf(opened[r].at)
    BY <1>1, <1>2, MaxAgeType DEF IndInv, Streams, AsOf
<1>6. /\ AsOf(now - Slow) <= AsOf(opened[r].at)
      /\ AsOf(now - MaxAge) <= AsOf(now - Slow)
    BY <1>1, <1>2, <1>5, AsOfGrows, MaxAgeType DEF IndInv
<1>7. /\ AsOf(now - Slow) \in Nat /\ AsOf(now - MaxAge) \in Nat
      /\ AsOf(opened[r].at) \in Nat
    BY <1>1, <1>2, <1>5, AsOfType, MaxAgeType, TimeAssumption DEF IndInv
<1> QED
    BY <1>2, <1>3, <1>4, <1>5, <1>6, <1>7

\* What is fresh enough to be taken is recent enough to be served.
LEMMA FreshIsRecent ==
    ASSUME IndInv, stored[Index] # None, Fresh(stored[Index])
    PROVE  stored[Index].edition >= AsOf(now - MaxAge)
<1>1. now \in Nat /\ TTL \in Nat
    BY TimeAssumption DEF IndInv, TypeInv, MirrorTypeOK, Times
<1>2. stored[Index].at \in Nat /\ stored[Index].edition \in Nat
    BY RecordTypes DEF IndInv, TypeInv, MirrorTypeOK, Keys
<1>3. /\ stored[Index].at <= now
      /\ stored[Index].edition >= AsOf(stored[Index].at - Slow)
    BY DEF IndInv, StoredAge
<1>4. TTL > 0 /\ now - MaxAge <= stored[Index].at - Slow
    BY <1>1, <1>2, <1>3, MaxAgeType DEF Fresh, MaxAge
<1>5. AsOf(now - MaxAge) <= AsOf(stored[Index].at - Slow)
    BY <1>1, <1>2, <1>3, <1>4, AsOfGrows, MaxAgeType DEF IndInv
<1>6. /\ AsOf(now - MaxAge) \in Nat
      /\ AsOf(stored[Index].at - Slow) \in Nat
    BY <1>1, <1>2, <1>3, AsOfType, MaxAgeType, TimeAssumption DEF IndInv
<1> QED
    BY <1>2, <1>3, <1>5, <1>6

\* Whatever a request does, the bounds stay.
LEMMA RequestStep ==
    ASSUME IndInv, TypeInv', NEW r \in Requests,
           \/ Get(r) \/ Head(r) \/ Open(r) \/ Download(r)
           \/ Refused(r) \/ BreakOff(r) \/ Serve(r) \/ End(r)
    PROVE  IndInv'
<1> USE DEF IndInv
<1>1. /\ now' = now /\ upstream' = upstream /\ past' = past
      /\ \A t \in Int : AsOf(t)' = AsOf(t)
    BY DEF Get, Head, Open, Download, Refused, BreakOff, Serve, End, clock,
           AsOf
<1>2. Grows'
    BY <1>1 DEF Grows
<1>3. now \in Nat /\ now \in Times
    BY TimeAssumption DEF TypeInv, MirrorTypeOK, Times
<1>4. CASE Get(r)
  <2>1. Streams'
      BY <1>1, <1>4 DEF Get, clock, Streams, TypeInv, MirrorTypeOK
  <2>2. Serving'
      BY <1>4 DEF Get, history, Serving, TypeInv, MirrorTypeOK
  <2>3. StaleWithinBound'
      BY <1>4 DEF Get, history, StaleWithinBound, TypeInv, MirrorTypeOK, Shape
  <2>4. StoredAge' /\ Floors'
      BY <1>4 DEF Get, clock, StoredAge, Floors, AsOf
  <2> QED
      BY <1>2, <2>1, <2>2, <2>3, <2>4
<1>5. CASE Head(r)
  <2> DEFINE mark == [edition |-> upstream, oldest |-> AsOf(now - MaxAge)]
  <2>1. /\ current' = [current EXCEPT ![r] = mark]
        /\ pc'[r] \in {"serve", "open"}
        /\ \A q \in Requests \ {r} : pc'[q] = pc[q]
        /\ pc'[r] = "serve" => Takes(stored[key[r]], key[r])
        /\ key' = key /\ stored' = stored /\ opened' = opened
        /\ served' = served /\ failed' = failed
      BY <1>5 DEF Head, history, TypeInv, MirrorTypeOK
  <2>2. current'[r].oldest = AsOf(now - MaxAge)
        /\ \A q \in Requests \ {r} : current'[q] = current[q]
      BY <2>1 DEF TypeInv, MirrorTypeOK
  <2>3. AsOf(now - MaxAge) \in Nat
      BY <1>3, AsOfType, MaxAgeType, TimeAssumption
  <2>4. Floors'
      BY <1>1, <1>3, <2>2, <2>3, MaxAgeType DEF Floors, AsOf
  <2>5. Serving'
    <3> SUFFICES ASSUME NEW q \in Requests \ failed, key[q] = Index,
                        pc'[q] = "serve"
                 PROVE  /\ stored[Index] # None
                        /\ stored[Index].edition >= current'[q].oldest
        BY <2>1 DEF Serving
    <3>1. CASE q = r
        BY <2>1, <2>2, <3>1, FreshIsRecent DEF Takes
    <3>2. CASE q # r
        BY <2>1, <2>2, <3>2 DEF Serving
    <3> QED
        BY <3>1, <3>2
  <2>6. served[r] = None
      BY <1>5 DEF Head, TypeInv, Shape
  <2>7. StaleWithinBound'
      BY <2>1, <2>2, <2>6 DEF StaleWithinBound
  <2>8. StoredAge' /\ Streams'
      BY <1>1, <2>1 DEF StoredAge, Streams, AsOf
  <2> QED
      BY <1>2, <2>4, <2>5, <2>7, <2>8
<1>6. CASE Open(r)
  <2>1. Streams'
    <3>1. past[now] <= upstream /\ past[now] \in Nat /\ upstream \in Nat
        BY <1>3, TimeAssumption DEF Grows, TypeInv, MirrorTypeOK
    <3>2. /\ opened' = [opened EXCEPT ![r] =
                            [edition |-> EditionOf(key[r]), at |-> now]]
          /\ opened \in [Requests -> Sending \cup {None}]
          /\ \A q \in Requests \ {r} : pc'[q] = pc[q]
          /\ key' = key
        BY <1>6 DEF Open, TypeInv, MirrorTypeOK
    <3>3. /\ opened'[r].at = now
          /\ key[r] = Index => opened'[r].edition >= past[now]
          /\ \A q \in Requests \ {r} : opened'[q] = opened[q]
        BY <3>1, <3>2 DEF EditionOf
    <3> QED
        BY <1>1, <1>3, <3>2, <3>3, MaxAgeType DEF Streams
  <2>2. Serving' /\ StaleWithinBound'
      BY <1>6 DEF Open, history, Serving, StaleWithinBound, TypeInv,
                  MirrorTypeOK
  <2>3. StoredAge' /\ Floors'
      BY <1>6 DEF Open, clock, StoredAge, Floors, AsOf
  <2> QED
      BY <1>2, <2>1, <2>2, <2>3
<1>7. CASE Download(r) \/ BreakOff(r)
  <2>1. PICK whole \in BOOLEAN : Write(r, whole)
      BY <1>7 DEF Download, BreakOff
  <2>2. /\ pc[r] = "stream" /\ key' = key /\ opened' = opened
        /\ served' = served /\ current' = current
        /\ \A q \in Requests \ {r} : pc'[q] = pc[q]
        /\ pc'[r] # "stream"
        /\ failed \subseteq failed'
        /\ pc'[r] = "serve" /\ r \notin failed' => Download(r)
      BY <1>7 DEF Download, BreakOff, AfterFailure, TypeInv, MirrorTypeOK
  <2>3. ASSUME key[r] = Index
        PROVE  StoredAge' /\ Serving'
    <3>1. /\ stored'[Index] # None
          /\ stored'[Index].at = now
          /\ stored'[Index].edition \in Nat
          /\ stored'[Index].edition >= AsOf(now - Slow)
          /\ stored'[Index].edition >= AsOf(now - MaxAge)
        BY <2>1, <2>2, <2>3, WriteIsRecent
    <3>2. StoredAge'
        BY <1>1, <1>3, <3>1 DEF StoredAge, AsOf
    <3>3. Serving'
      <4> SUFFICES ASSUME NEW q \in Requests, pc'[q] = "serve"
                   PROVE  stored'[Index].edition >= current[q].oldest
          BY <2>2, <3>1 DEF Serving
      <4>1. current[q] # None
          BY <2>2 DEF TypeInv, Shape
      <4>2. /\ current[q].oldest \in Nat
            /\ current[q].oldest <= AsOf(now - MaxAge)
          BY <4>1, RecordTypes DEF Floors, TypeInv, MirrorTypeOK
      <4>3. AsOf(now - MaxAge) \in Nat
          BY <1>3, AsOfType, MaxAgeType, TimeAssumption
      <4> QED
          BY <3>1, <4>2, <4>3
    <3> QED
        BY <3>2, <3>3
  <2>4. ASSUME key[r] # Index
        PROVE  StoredAge' /\ Serving'
    <3>1. stored'[Index] = stored[Index]
        BY <2>1, <2>4 DEF Write, TypeInv, MirrorTypeOK, Keys
    <3> QED
        BY <1>1, <2>2, <2>4, <3>1 DEF StoredAge, Serving, AsOf
  <2>5. StoredAge' /\ Serving'
      BY <2>3, <2>4
  <2>6. Streams'
      BY <1>1, <2>2 DEF Streams
  <2>7. StaleWithinBound'
      BY <2>2 DEF StaleWithinBound
  <2>8. Floors'
      BY <1>1, <2>2 DEF Floors, AsOf
  <2> QED
      BY <1>2, <2>5, <2>6, <2>7, <2>8
<1>8. CASE Refused(r)
  <2>1. Streams' /\ Serving'
      BY <1>1, <1>8 DEF Refused, AfterFailure, Streams, Serving, TypeInv,
                        MirrorTypeOK
  <2>2. StaleWithinBound' /\ StoredAge' /\ Floors'
      BY <1>8 DEF Refused, clock, StaleWithinBound, StoredAge, Floors, AsOf
  <2> QED
      BY <1>2, <2>1, <2>2
<1>9. CASE Serve(r)
  <2>1. Streams' /\ Serving'
      BY <1>1, <1>9 DEF Serve, history, Streams, Serving, TypeInv,
                        MirrorTypeOK
  <2>2. StaleWithinBound'
      BY <1>9 DEF Serve, history, Serving, StaleWithinBound, TypeInv,
                  MirrorTypeOK
  <2>3. StoredAge' /\ Floors'
      BY <1>9 DEF Serve, clock, StoredAge, Floors, AsOf
  <2> QED
      BY <1>2, <2>1, <2>2, <2>3
<1>10. CASE End(r)
  <2>1. /\ key'[r] = None /\ current'[r] = None /\ pc'[r] = "idle"
        /\ served'[r] = None /\ failed' = failed \ {r} /\ stored' = stored
        /\ \A q \in Requests \ {r} :
               /\ key'[q] = key[q] /\ current'[q] = current[q]
               /\ pc'[q] = pc[q] /\ served'[q] = served[q]
               /\ opened'[q] = opened[q]
      BY <1>10 DEF End, TypeInv, MirrorTypeOK
  <2>2. Serving' /\ StaleWithinBound'
      BY <2>1 DEF Serving, StaleWithinBound
  <2>3. Streams' /\ StoredAge' /\ Floors'
      BY <1>1, <2>1 DEF Streams, StoredAge, Floors, AsOf
  <2> QED
      BY <1>2, <2>2, <2>3
<1> QED
    BY <1>4, <1>5, <1>6, <1>7, <1>8, <1>9, <1>10

LEMMA Inductive == Spec => []IndInv
<1>1. Init => IndInv
    BY TypeInit, SafeInit DEF IndInv
<1>2. IndInv /\ [Next]_vars => IndInv'
  <2> SUFFICES ASSUME IndInv, [Next]_vars PROVE IndInv'
      OBVIOUS
  <2>1. TypeInv'
      BY TypeStep DEF IndInv
  <2>2. CASE UNCHANGED vars
      BY <2>2 DEF vars, IndInv, TypeInv, MirrorTypeOK, Shape, Grows, StoredAge,
                  Streams, Floors, Serving, StaleWithinBound, AsOf
  <2>3. CASE Tick \/ Publish
      BY <2>1, <2>3, ClockStep
  <2>4. ASSUME NEW r \in Requests,
               \/ Get(r) \/ Head(r) \/ Open(r) \/ Download(r)
               \/ Refused(r) \/ BreakOff(r) \/ Serve(r) \/ End(r)
        PROVE  IndInv'
      BY <2>1, <2>4, RequestStep
  <2> QED
      BY <2>2, <2>3, <2>4 DEF Next
<1> QED
    BY <1>1, <1>2, PTL DEF Spec

\* Every variable of the mirror keeps its type.
THEOREM MirrorTyped == Spec => []MirrorTypeOK
<1>1. IndInv => MirrorTypeOK
    BY DEF IndInv, TypeInv
<1> QED
    BY <1>1, Inductive, PTL

\* mirror.py fetch_repodata: however many requests refresh an index at once,
\* and however their downloads end, none that could refresh it is answered
\* with one older than the cache time and the longest download allow.
THEOREM ServedWithinBound == Spec => []StaleWithinBound
<1>1. IndInv => StaleWithinBound
    BY DEF IndInv
<1> QED
    BY <1>1, Inductive, PTL

\* -------------------------------------------------------------- refreshing

\* What a request that refreshes the index relies on: upstream only moves on,
\* so what it was sent is current enough; and while it is not crossed, so is
\* what is stored.
Sent ==
    \A r \in Requests :
        /\ current[r] # None => current[r].edition <= upstream
        /\ pc[r] \in {"idle", "head", "open"} => opened[r] = None
        /\ key[r] = Index /\ pc[r] = "stream" =>
               opened[r].edition >= current[r].edition

Kept ==
    \A r \in Requests \ (failed \cup crossed) :
        key[r] = Index /\ pc[r] = "serve" /\ opened[r] # None =>
            /\ stored[Index] # None
            /\ stored[Index].edition >= current[r].edition

RefreshInv == Sent /\ Kept /\ RefreshedIsCurrent

LEMMA SentStep ==
    ASSUME TypeInv, TypeInv', Sent, [Next]_vars
    PROVE  Sent'
<1> USE DEF TypeInv
<1>1. CASE UNCHANGED vars
    BY <1>1 DEF vars, Sent
<1>2. CASE Tick \/ Publish
  <2>1. upstream \in Nat /\ (upstream' = upstream \/ upstream' = upstream + 1)
      BY <1>2, TimeAssumption DEF Tick, Publish, MirrorTypeOK
  <2>2. \A r \in Requests : current[r] # None => current[r].edition \in Nat
      BY RecordTypes DEF MirrorTypeOK
  <2> QED
      BY <1>2, <2>1, <2>2 DEF Tick, Publish, Sent
<1>3. SUFFICES ASSUME NEW r \in Requests,
                      \/ Get(r) \/ Head(r) \/ Open(r) \/ Download(r)
                      \/ Refused(r) \/ BreakOff(r) \/ Serve(r) \/ End(r)
               PROVE  Sent'
    BY <1>1, <1>2 DEF Next
<1>4. upstream' = upstream /\ upstream \in Nat
  <2>1. upstream' = upstream
      BY <1>3 DEF Get, Head, Open, Download, Refused, BreakOff, Serve, End,
                  clock
  <2> QED
      BY <2>1, TimeAssumption DEF MirrorTypeOK
<1>5. CASE Get(r)
    BY <1>4, <1>5 DEF Get, Sent, MirrorTypeOK
<1>6. CASE Head(r)
  <2>1. current' = [current EXCEPT ![r] = [edition |-> upstream,
                                           oldest |-> AsOf(now - MaxAge)]]
      BY <1>6 DEF Head
  <2>2. current'[r].edition = upstream
        /\ \A q \in Requests \ {r} : current'[q] = current[q]
      BY <2>1 DEF MirrorTypeOK
  <2>3. /\ pc'[r] \in {"serve", "open"} /\ opened[r] = None
        /\ opened' = opened /\ key' = key
        /\ \A q \in Requests \ {r} : pc'[q] = pc[q]
      BY <1>6 DEF Head, Sent, MirrorTypeOK
  <2> QED
      BY <1>4, <2>2, <2>3 DEF Sent
<1>7. CASE Open(r)
  <2>1. opened' = [opened EXCEPT ![r] = [edition |-> EditionOf(key[r]),
                                         at |-> now]]
      BY <1>7 DEF Open
  <2>2. /\ key[r] = Index => opened'[r].edition = upstream
        /\ \A q \in Requests \ {r} : opened'[q] = opened[q]
      BY <2>1 DEF MirrorTypeOK, EditionOf
  <2>3. current[r] # None /\ current[r].edition \in Nat
      BY <1>7, RecordTypes DEF Open, MirrorTypeOK, Shape
  <2>4. /\ pc'[r] = "stream" /\ current' = current /\ key' = key
        /\ \A q \in Requests \ {r} : pc'[q] = pc[q]
      BY <1>7 DEF Open, MirrorTypeOK
  <2>5. current[r].edition <= upstream
      BY <2>3 DEF Sent
  <2>6. key[r] = Index => opened'[r].edition >= current[r].edition
      BY <1>4, <2>2, <2>3, <2>5
  <2> QED
      BY <1>4, <2>2, <2>4, <2>6 DEF Sent
<1>8. CASE Download(r) \/ BreakOff(r) \/ Refused(r)
  <2>1. /\ key' = key /\ current' = current /\ opened' = opened
        /\ pc'[r] \in {"serve", "end"}
        /\ \A q \in Requests \ {r} : pc'[q] = pc[q]
      BY <1>8 DEF Download, BreakOff, Refused, AfterFailure, MirrorTypeOK
  <2> QED
      BY <1>4, <2>1 DEF Sent
<1>9. CASE Serve(r)
    BY <1>4, <1>9 DEF Serve, Sent, MirrorTypeOK
<1>10. CASE End(r)
    BY <1>4, <1>10 DEF End, Sent, MirrorTypeOK
<1> QED
    BY <1>3, <1>5, <1>6, <1>7, <1>8, <1>9, <1>10

\* A download disturbs no request but those it crosses: what it leaves is
\* current enough for the others.
LEMMA KeptStep ==
    ASSUME TypeInv, TypeInv', Sent, Kept, RefreshedIsCurrent, [Next]_vars
    PROVE  Kept' /\ RefreshedIsCurrent'
<1> USE DEF TypeInv
<1>1. CASE UNCHANGED vars
    BY <1>1 DEF vars, Kept, RefreshedIsCurrent
<1>2. CASE Tick \/ Publish
    BY <1>2 DEF Tick, Publish, history, Kept, RefreshedIsCurrent
<1>3. SUFFICES ASSUME NEW r \in Requests,
                      \/ Get(r) \/ Head(r) \/ Open(r) \/ Download(r)
                      \/ Refused(r) \/ BreakOff(r) \/ Serve(r) \/ End(r)
               PROVE  Kept' /\ RefreshedIsCurrent'
    BY <1>1, <1>2 DEF Next
<1>4. CASE Get(r)
    BY <1>4 DEF Get, history, Kept, RefreshedIsCurrent, Sent, MirrorTypeOK,
                Shape
<1>5. CASE Head(r)
  <2>1. opened[r] = None /\ served[r] = None
      BY <1>5 DEF Head, Sent, MirrorTypeOK, Shape
  <2>2. \A q \in Requests \ {r} : current'[q] = current[q] /\ pc'[q] = pc[q]
      BY <1>5 DEF Head, MirrorTypeOK
  <2> QED
      BY <1>5, <2>1, <2>2 DEF Head, history, Kept, RefreshedIsCurrent
<1>6. CASE Open(r)
  <2>1. pc'[r] = "stream" /\ served[r] = None
        /\ \A q \in Requests \ {r} : opened'[q] = opened[q] /\ pc'[q] = pc[q]
      BY <1>6 DEF Open, MirrorTypeOK, Shape
  <2> QED
      BY <1>6, <2>1 DEF Open, history, Kept, RefreshedIsCurrent
<1>7. CASE Download(r) \/ BreakOff(r)
  <2>1. /\ pc[r] = "stream" /\ key' = key /\ opened' = opened
        /\ served' = served /\ current' = current
        /\ \A q \in Requests \ {r} : pc'[q] = pc[q]
        /\ failed \subseteq failed'
        /\ crossed \subseteq crossed'
        /\ \A q \in Requests \ {r} :
               key[q] = key[r] /\ current[q] # None /\ q \notin crossed' =>
                   ~(opened[r].edition < current[q].edition)
      BY <1>7 DEF Download, BreakOff, Cross, AfterFailure, MirrorTypeOK
  <2>2. RefreshedIsCurrent'
      BY <2>1 DEF RefreshedIsCurrent
  <2>3. SUFFICES ASSUME NEW q \in Requests, q \notin failed' \cup crossed',
                        key[q] = Index, pc'[q] = "serve", opened[q] # None
                 PROVE  /\ stored'[Index] # None
                        /\ stored'[Index].edition >= current[q].edition
      BY <2>1, <2>2 DEF Kept
  <2>4. CASE q = r
    <3>1. Download(r) /\ Write(r, TRUE)
        BY <1>7, <2>3, <2>4 DEF Download, BreakOff
    <3>2. opened[r] \in Sending /\ opened[r].edition \in Nat
        BY <2>1, RecordTypes DEF MirrorTypeOK, Shape
    <3>3. stored'[Index] = [edition |-> opened[r].edition, whole |-> TRUE,
                            at |-> now]
        BY <2>3, <2>4, <3>1 DEF Write, MirrorTypeOK, Keys
    <3>4. [edition |-> opened[r].edition, whole |-> TRUE, at |-> now] \in Copy
        BY <3>2, TimeAssumption DEF MirrorTypeOK, Times, Copy
    <3>5. opened[r].edition >= current[r].edition
        BY <2>1, <2>3, <2>4 DEF Sent
    <3>6. stored'[Index] # None
        BY <3>3, <3>4, NoneAssumption
    <3>7. stored'[Index].edition = opened[r].edition
        BY <3>3
    <3> QED
        BY <2>4, <3>5, <3>6, <3>7
  <2>5. CASE q # r
    <3>1. CASE key[r] # Index
      <4>1. stored'[Index] = stored[Index]
          BY <1>7, <2>1, <3>1
          DEF Download, BreakOff, Write, MirrorTypeOK, Shape, Keys
      <4> QED
          BY <2>1, <2>3, <2>5, <4>1 DEF Kept
    <3>2. CASE key[r] = Index
      <4>1. PICK whole \in BOOLEAN : Write(r, whole)
          BY <1>7 DEF Download, BreakOff
      <4>2. opened[r] \in Sending /\ opened[r].edition \in Nat
          BY <2>1, RecordTypes DEF MirrorTypeOK, Shape
      <4>3. [edition |-> opened[r].edition, whole |-> whole, at |-> now]
                \in Copy
          BY <4>2, TimeAssumption DEF MirrorTypeOK, Times, Copy
      <4>4. stored'[Index] = [edition |-> opened[r].edition,
                              whole |-> whole, at |-> now]
          BY <3>2, <4>1 DEF MirrorTypeOK, Keys, Write
      <4>5. current[q] # None /\ current[q].edition \in Nat
          BY <2>1, <2>3, <2>5, RecordTypes DEF MirrorTypeOK, Shape
      <4>6. opened[r].edition >= current[q].edition
          BY <2>1, <2>3, <2>5, <3>2, <4>2, <4>5
      <4>7. stored'[Index] # None
          BY <4>3, <4>4, NoneAssumption
      <4> QED
          BY <4>4, <4>6, <4>7
    <3> QED
        BY <3>1, <3>2
  <2> QED
      BY <2>4, <2>5
<1>8. CASE Refused(r)
    BY <1>8 DEF Refused, AfterFailure, Kept, RefreshedIsCurrent, MirrorTypeOK
<1>9. CASE Serve(r)
    BY <1>9 DEF Serve, history, Kept, RefreshedIsCurrent, MirrorTypeOK
<1>10. CASE End(r)
  <2>1. /\ key'[r] = None /\ pc'[r] = "idle" /\ served'[r] = None
        /\ failed' = failed \ {r} /\ crossed' = crossed \ {r}
        /\ stored' = stored
        /\ \A q \in Requests \ {r} :
               /\ key'[q] = key[q] /\ current'[q] = current[q]
               /\ pc'[q] = pc[q] /\ served'[q] = served[q]
               /\ opened'[q] = opened[q]
      BY <1>10 DEF End, MirrorTypeOK
  <2> QED
      BY <2>1 DEF Kept, RefreshedIsCurrent
<1> QED
    BY <1>3, <1>4, <1>5, <1>6, <1>7, <1>8, <1>9, <1>10

\* mirror.py fetch_repodata: a refresh that succeeds, and during which no
\* download of an older edition ends, answers with what upstream had when the
\* request began, or with something later.
THEOREM ServedCurrent == Spec => []RefreshedIsCurrent
<1>1. Init => RefreshInv
    BY DEF Init, RefreshInv, Sent, Kept, RefreshedIsCurrent
<1>2. TypeInv /\ TypeInv' /\ RefreshInv /\ [Next]_vars => RefreshInv'
    BY SentStep, KeptStep DEF RefreshInv
<1>3. IndInv => TypeInv
    BY DEF IndInv
<1>4. RefreshInv => RefreshedIsCurrent
    BY DEF RefreshInv
<1> QED
    BY <1>1, <1>2, <1>3, <1>4, Inductive, PTL DEF Spec

\* ---------------------------------------------------------------- archives

\* Only a request that found no copy of an archive downloads it.
Fills ==
    \A r \in Requests :
        key[r] \in Archives /\ pc[r] \in {"open", "stream"} => ~had[r]

LEMMA FillsStep ==
    ASSUME TypeInv, Fills, [Next]_vars
    PROVE  Fills'
<1> USE DEF TypeInv, MirrorTypeOK
<1>1. CASE UNCHANGED vars \/ Tick \/ Publish
    BY <1>1 DEF vars, Tick, Publish, Fills
<1>2. ASSUME NEW r \in Requests, Head(r)
      PROVE  Fills'
  <2>1. /\ \A q \in Requests \ {r} : pc'[q] = pc[q] /\ had'[q] = had[q]
        /\ key' = key /\ had'[r] = (stored[key[r]] # None)
        /\ pc'[r] = "open" => ~Takes(stored[key[r]], key[r])
        /\ pc'[r] # "stream"
      BY <1>2 DEF Head
  <2>2. key[r] \in Archives /\ pc'[r] = "open" => stored[key[r]] = None
      BY <2>1, KeyAssumption DEF Takes
  <2> QED
      BY <2>1, <2>2 DEF Fills
<1>3. ASSUME NEW r \in Requests, Get(r) \/ Open(r) \/ End(r)
      PROVE  Fills'
    BY <1>3 DEF Get, Open, End, Fills
<1>4. ASSUME NEW r \in Requests,
             Download(r) \/ Refused(r) \/ BreakOff(r) \/ Serve(r)
      PROVE  Fills'
    BY <1>4 DEF Download, Refused, BreakOff, Serve, AfterFailure, Fills
<1> QED
    BY <1>1, <1>2, <1>3, <1>4 DEF Next

\* mirror.py: an archive that is stored is never replaced but by a download
\* that began before it was there, whatever fails and however late it ends.
THEOREM ArchivesKept == Spec => CachedForGood
<1> DEFINE Keeps ==
        \A a \in Archives : stored[a] # None /\ stored'[a] # stored[a] =>
            \E r \in Requests : key[r] = a /\ pc[r] = "stream" /\ ~had[r]
<1>1. Init => Fills
    BY DEF Init, Fills
<1>2. TypeInv /\ Fills /\ [Next]_vars => Fills'
    BY FillsStep
<1>3. TypeInv /\ Fills /\ [Next]_vars => [Keeps]_vars
  <2> SUFFICES ASSUME TypeInv, Fills, Next, NEW a \in Archives,
                      stored'[a] # stored[a]
               PROVE  \E r \in Requests :
                          key[r] = a /\ pc[r] = "stream" /\ ~had[r]
      OBVIOUS
  <2>1. PICK r \in Requests : Download(r) \/ BreakOff(r)
      BY DEF Next, Get, Head, Open, Refused, Serve, End, Publish, Tick
  <2>2. pc[r] = "stream" /\ \E whole \in BOOLEAN : Write(r, whole)
      BY <2>1 DEF Download, BreakOff
  <2>3. key[r] = a
      BY <2>2 DEF Write, TypeInv, MirrorTypeOK, Keys
  <2> QED
      BY <2>2, <2>3 DEF Fills
<1>4. IndInv => TypeInv
    BY DEF IndInv
<1> QED
    BY <1>1, <1>2, <1>3, <1>4, Inductive, PTL DEF Spec, CachedForGood
=============================================================================
