--------------------------- MODULE MembersProofs ---------------------------
(***************************************************************************)
(* What holds of the memberships of a channel for any number of users and  *)
(* of requests.                                                            *)
(*                                                                         *)
(* The inductive invariant says what the decision a request has taken is   *)
(* still worth when it writes: as long as nobody overtook it, there is     *)
(* another owner than the one it takes away, or none to lose.              *)
(***************************************************************************)
EXTENDS Members, FiniteSetTheorems, TLAPS

\* A request of the API about to take away the membership it loaded.
Taking(r) ==
    /\ pc[r] = "write"
    /\ r \in held
    /\ task[r].kind \in {"update", "remove"}
    /\ task[r].role # "owner"

StillSafe ==
    \A r \in Requests \ overtaken :
        Taking(r) => Owners = {} \/ Owners \ {task[r].target} # {}

IndInv == MembersTypeOK /\ StillSafe

\* Of more than one owner, one remains whoever goes (_assert_not_last_owner).
LEMMA AnotherOwner ==
    ASSUME Cardinality(Owners) > 1, NEW t
    PROVE  Owners \ {t} # {}
<1>1. IsFiniteSet({t}) /\ Cardinality({t}) = 1
    BY FS_Singleton
<1>2. SUFFICES ASSUME Owners \subseteq {t} PROVE FALSE
    OBVIOUS
<1>3. Owners \in SUBSET {t}
    BY <1>2
<1>4. Cardinality(Owners) <= 1 /\ IsFiniteSet(Owners)
    BY <1>1, <1>3, FS_Subset
<1>5. Cardinality(Owners) \in Nat
    BY <1>4, FS_CardinalityType
<1> QED
    BY <1>4, <1>5

\* A user who is given a role is, or is no longer, one of the owners.
LEMMA OwnersAfter ==
    ASSUME MembersTypeOK, NEW r \in Requests, task[r] \in Task, SetRole(r)
    PROVE  /\ Owners' = IF task[r].role = "owner"
                        THEN Owners \cup {task[r].target}
                        ELSE Owners \ {task[r].target}
           /\ overtaken' = (overtaken \cup Overtaken(r, Owners')) \ {r}
           /\ members' \in [Users -> ChannelRole \cup {NoRole}]
           /\ exists' = exists /\ private' = private
<1>1. /\ task[r].target \in Users
      /\ task[r].role \in ChannelRole \cup {NoRole}
    BY DEF Task
<1>2. /\ members \in [Users -> ChannelRole \cup {NoRole}]
      /\ members' = [members EXCEPT ![task[r].target] = task[r].role]
    BY DEF SetRole, MembersTypeOK
<1>3. Owners' = IF task[r].role = "owner"
                THEN Owners \cup {task[r].target}
                ELSE Owners \ {task[r].target}
    BY <1>1, <1>2 DEF Owners
<1> QED
    BY <1>1, <1>2, <1>3 DEF SetRole

\* The two facts about a request in flight that the steps below start from.
LEMMA InFlight ==
    ASSUME MembersTypeOK, NEW r \in Requests, pc[r] # "idle"
    PROVE  task[r] \in Task
BY DEF MembersTypeOK

LEMMA TypeInit == Init => MembersTypeOK
BY UserAssumption DEF Init, MembersTypeOK, NoTask, Owners

\* A request that ends leaves the others, and what they rely on, well-typed.
LEMMA TypeEnd ==
    ASSUME MembersTypeOK, NEW r \in Requests, End(r),
           exists' \in BOOLEAN, private' \in BOOLEAN,
           members' \in [Users -> ChannelRole \cup {NoRole}],
           exists' \/ \A u \in Users : members'[u] = NoRole,
           alive' \subseteq alive \ {r}, held' \subseteq alive',
           \A q \in alive' : exists',
           \A q \in held' : members'[task[q].target] # NoRole,
           overtaken' \subseteq Requests
    PROVE  MembersTypeOK'
<1>1. /\ pc' \in [Requests -> {"idle", "load", "count", "write"}]
      /\ task' \in [Requests -> Task \cup {NoTask}]
      /\ \A q \in Requests : task'[q] = NoTask <=> pc'[q] = "idle"
    BY DEF MembersTypeOK, End
<1>3. \A q \in alive' : pc'[q] # "idle"
    BY DEF MembersTypeOK, End
<1>4. \A q \in held' : members'[task'[q].target] # NoRole
    BY DEF MembersTypeOK, End
<1> QED
    BY <1>1, <1>3, <1>4 DEF MembersTypeOK

LEMMA TypeStep ==
    ASSUME MembersTypeOK, [Next]_vars
    PROVE  MembersTypeOK'
<1>1. CASE UNCHANGED vars
    BY <1>1 DEF MembersTypeOK, vars, channel
<1> SUFFICES ASSUME NEW r \in Requests, Step(r) PROVE MembersTypeOK'
    BY <1>1 DEF Next
<1> USE DEF channel, Left
<1>2. CASE Begin(r)
  <2>1. PICK t \in Task : /\ t.seen = NoRole
                          /\ task' = [task EXCEPT ![r] = t]
                          /\ pc' = [pc EXCEPT ![r] = IF t.kind = "delete"
                                                     THEN "write" ELSE "load"]
      BY <1>2 DEF Begin
  <2>2. t # NoTask
      BY <2>1 DEF Task, NoTask, ApiKinds, ConsoleKinds
  <2>3. r \notin alive
      BY <1>2 DEF Begin, MembersTypeOK
  <2> QED
      BY <1>2, <2>1, <2>2, <2>3 DEF Begin, MembersTypeOK
<1>3. CASE Load(r)
  <2>1. task[r] \in Task
      BY <1>3, InFlight DEF Load
  <2>2. Found(r) \in ChannelRole \cup {NoRole}
      BY <2>1 DEF Found, MembersTypeOK, Task
  <2>3. [task[r] EXCEPT !.seen = Found(r)] \in Task
      BY <2>1, <2>2 DEF Task
  <2>4. [task[r] EXCEPT !.seen = Found(r)] # NoTask
      BY <2>1, <2>2, <2>3 DEF Task, NoTask, ApiKinds, ConsoleKinds
  <2>5. /\ task' \in [Requests -> Task \cup {NoTask}]
        /\ task'[r] = [task[r] EXCEPT !.seen = Found(r)]
        /\ \A q \in Requests \ {r} : task'[q] = task[q]
        /\ \A q \in Requests : task'[q].target = task[q].target
      BY <1>3, <2>1, <2>3 DEF Load, MembersTypeOK, Task
  <2>6. held' \subseteq alive
      BY <1>3 DEF Load, MembersTypeOK, Found
  <2>7. \A q \in held' : members[task[q].target] # NoRole
      BY <1>3 DEF Load, MembersTypeOK, Found
  <2> QED
      BY <1>3, <2>4, <2>5, <2>6, <2>7 DEF Load, MembersTypeOK
<1>4. CASE CountOwners(r)
    BY <1>4 DEF CountOwners, MembersTypeOK
<1>5. CASE Abort(r)
  <2>1. End(r)
      BY <1>5 DEF Abort
  <2> QED
      BY <1>5, <2>1, TypeEnd DEF Abort, MembersTypeOK
<1>6. CASE Insert(r)
  <2>1. task[r] \in Task /\ task[r].role # NoRole
      BY <1>6, InFlight DEF Insert, Task, Giving
  <2>2. End(r) /\ SetRole(r) /\ r \in alive
      BY <1>6 DEF Insert
  <2>3. /\ members' \in [Users -> ChannelRole \cup {NoRole}]
        /\ exists' = exists /\ private' = private
        /\ overtaken' \subseteq Requests
      BY <2>1, <2>2, OwnersAfter DEF Overtaken, MembersTypeOK
  <2>4. \A q \in held' : members'[task[q].target] # NoRole
      BY <1>6, <2>1 DEF Insert, SetRole, MembersTypeOK, Task
  <2> QED
      BY <1>6, <2>2, <2>3, <2>4, TypeEnd DEF Insert, MembersTypeOK
<1>7. CASE Update(r)
  <2>1. task[r] \in Task /\ task[r].role # NoRole
      BY <1>7, InFlight DEF Update, Task, Giving
  <2>2. End(r)
      BY <1>7 DEF Update
  <2>3. CASE UNCHANGED channel
      BY <1>7, <2>2, <2>3, TypeEnd DEF Update, MembersTypeOK, SetRole,
         Overtaken
  <2>4. CASE r \in held /\ SetRole(r)
    <3>1. /\ members' \in [Users -> ChannelRole \cup {NoRole}]
          /\ exists' = exists /\ private' = private
          /\ overtaken' \subseteq Requests
        BY <2>1, <2>4, OwnersAfter DEF Overtaken, MembersTypeOK
    <3>2. \A q \in held' : members'[task[q].target] # NoRole
        BY <1>7, <2>1, <2>4 DEF Update, SetRole, MembersTypeOK, Task
    <3> QED
        BY <1>7, <2>2, <2>4, <3>1, <3>2, TypeEnd DEF Update, MembersTypeOK
  <2> QED
      BY <1>7, <2>3, <2>4 DEF Update
<1>8. CASE Remove(r)
  <2>1. task[r] \in Task /\ task[r].role = NoRole
      BY <1>8, InFlight DEF Remove, Task, Giving
  <2>2. End(r)
      BY <1>8 DEF Remove
  <2>3. CASE r \notin held /\ Left(overtaken, r) /\ UNCHANGED <<channel, held>>
      BY <1>8, <2>2, <2>3, TypeEnd DEF Remove, MembersTypeOK
  <2>4. CASE /\ r \in held /\ SetRole(r)
             /\ held' = {q \in held : task[q].target # task[r].target}
    <3>1. /\ members' \in [Users -> ChannelRole \cup {NoRole}]
          /\ exists' = exists /\ private' = private
          /\ overtaken' \subseteq Requests
        BY <2>1, <2>4, OwnersAfter DEF Overtaken, MembersTypeOK
    <3>2. \A q \in held' : members'[task[q].target] # NoRole
        BY <2>1, <2>4 DEF SetRole, MembersTypeOK, Task
    <3> QED
        BY <1>8, <2>2, <2>4, <3>1, <3>2, TypeEnd DEF Remove, MembersTypeOK
  <2> QED
      BY <1>8, <2>3, <2>4 DEF Remove
<1>9. CASE DeleteChannel(r)
  <2>1. End(r)
      BY <1>9 DEF DeleteChannel
  <2> QED
      BY <1>9, <2>1, TypeEnd DEF DeleteChannel, MembersTypeOK
<1>10. CASE CreateChannel(r)
  <2>1. End(r) /\ task[r] \in Task
      BY <1>10, InFlight DEF CreateChannel
  <2>2. members' \in [Users -> ChannelRole \cup {NoRole}]
      BY <1>10, <2>1 DEF CreateChannel, MembersTypeOK, FirstRole, ChannelRole
  <2>3. alive = {} /\ held = {}
      BY <1>10 DEF CreateChannel, MembersTypeOK
  <2> QED
      BY <1>10, <2>1, <2>2, <2>3, TypeEnd DEF CreateChannel, MembersTypeOK
<1> QED
    BY <1>2, <1>3, <1>4, <1>5, <1>6, <1>7, <1>8, <1>9, <1>10 DEF Step

\* The members, the requests and what they rely on are well-typed, and a
\* request in flight relies on a row only while it is there.
THEOREM MembersTyped == Spec => []MembersTypeOK
<1>1. MembersTypeOK /\ [Next]_vars => MembersTypeOK'
    BY TypeStep
<1> QED
    BY TypeInit, <1>1, PTL DEF Spec

\* What another request's write leaves of the safety of a request about to
\* take a membership away: it finds its owners still there, or is overtaken.
LEMMA SafeFromOthers ==
    ASSUME IndInv, NEW r \in Requests, task[r] \in Task, SetRole(r), End(r),
           held' \subseteq held
    PROVE  StillSafe'
<1> SUFFICES ASSUME NEW q \in Requests, q \notin overtaken', Taking(q)'
             PROVE  Owners' = {} \/ Owners' \ {task'[q].target} # {}
    BY DEF StillSafe
<1>1. /\ Owners' = IF task[r].role = "owner"
                   THEN Owners \cup {task[r].target}
                   ELSE Owners \ {task[r].target}
      /\ overtaken' = (overtaken \cup Overtaken(r, Owners')) \ {r}
    BY OwnersAfter DEF IndInv
<1>2. q # r
    BY DEF Taking, End, IndInv, MembersTypeOK
<1>3. pc'[q] = pc[q] /\ task'[q] = task[q]
    BY <1>2 DEF End, IndInv, MembersTypeOK
<1>4. Taking(q)
    BY <1>3 DEF Taking
<1>5. q \notin overtaken /\ q \notin Overtaken(r, Owners')
    BY <1>1, <1>2
<1>6. Owners # {} /\ Owners \subseteq Owners'
    BY <1>2, <1>4, <1>5 DEF Overtaken, Taking
<1>7. Owners \ {task[q].target} # {}
    BY <1>4, <1>5, <1>6 DEF IndInv, StillSafe
<1> QED
    BY <1>3, <1>6, <1>7

LEMMA SafeInit == Init => StillSafe
BY DEF Init, StillSafe, Taking

LEMMA SafeStep ==
    ASSUME IndInv, [Next]_vars
    PROVE  StillSafe'
<1>1. CASE UNCHANGED vars
    BY <1>1 DEF IndInv, StillSafe, Taking, Owners, vars, channel
<1> SUFFICES ASSUME NEW r \in Requests, Step(r) PROVE StillSafe'
    BY <1>1 DEF Next
<1>a. ASSUME Owners' = Owners, held' \subseteq held,
             overtaken \ {r} \subseteq overtaken', pc'[r] # "write",
             \A q \in Requests \ {r} : pc'[q] = pc[q] /\ task'[q] = task[q]
      PROVE  StillSafe'
    BY <1>a DEF IndInv, StillSafe, Taking
<1>2. CASE Begin(r)
  <2>1. pc'[r] = "write" => r \notin held'
      BY <1>2 DEF Begin, IndInv, MembersTypeOK
  <2> QED
      BY <1>2, <2>1 DEF Begin, IndInv, MembersTypeOK, StillSafe, Taking,
                        Owners, channel
<1>3. CASE Load(r)
  <2>1. /\ task[r] \in Task
        /\ task'[r].target = task[r].target
        /\ task'[r].kind = task[r].kind /\ task'[r].role = task[r].role
      BY <1>3, InFlight DEF Load, IndInv, MembersTypeOK, Task
  <2>2. Owners' = Owners /\ overtaken' = overtaken
      BY <1>3 DEF Load, Owners, channel
  <2>3. \A q \in Requests \ {r} :
            Taking(q)' => Taking(q) /\ task'[q] = task[q]
      BY <1>3 DEF Load, Taking, IndInv, MembersTypeOK
  <2>4. ASSUME Taking(r)' PROVE task[r].target \notin Owners
    <3>1. ~TakesOwner(r)
        BY <1>3, <2>4 DEF Load, Taking, IndInv, MembersTypeOK
    <3>2. Found(r) # "owner"
        BY <2>1, <2>4, <3>1 DEF TakesOwner, Taking
    <3>3. r \in alive
        BY <1>3, <2>4 DEF Load, Taking, IndInv, MembersTypeOK, Found
    <3> QED
        BY <3>2, <3>3 DEF Found, Owners
  <2> QED
      BY <2>1, <2>2, <2>3, <2>4 DEF IndInv, StillSafe
<1>4. CASE CountOwners(r)
  <2>1. Owners \ {task[r].target} # {}
      BY <1>4, AnotherOwner DEF CountOwners
  <2> QED
      BY <1>4, <2>1 DEF CountOwners, IndInv, MembersTypeOK, StillSafe, Taking,
                        Owners, channel
<1>5. CASE Abort(r)
    BY <1>5, <1>a DEF Abort, End, Left, Owners, channel, IndInv,
                      MembersTypeOK
<1>6. CASE Insert(r)
  <2>1. task[r] \in Task /\ SetRole(r) /\ End(r) /\ held' \subseteq held
      BY <1>6, InFlight DEF Insert, Left, IndInv
  <2> QED
      BY <2>1, SafeFromOthers
<1>7. CASE Update(r)
  <2>1. task[r] \in Task /\ End(r) /\ held' \subseteq held
      BY <1>7, InFlight DEF Update, Left, IndInv
  <2>2. CASE SetRole(r)
      BY <2>1, <2>2, SafeFromOthers
  <2>3. CASE Left(overtaken, r) /\ UNCHANGED channel
      BY <2>1, <2>3, <1>a DEF End, Left, Owners, channel, IndInv,
                              MembersTypeOK
  <2> QED
      BY <1>7, <2>2, <2>3 DEF Update
<1>8. CASE Remove(r)
  <2>1. task[r] \in Task /\ End(r) /\ held' \subseteq held
      BY <1>8, InFlight DEF Remove, IndInv
  <2>2. CASE SetRole(r)
      BY <2>1, <2>2, SafeFromOthers
  <2>3. CASE Left(overtaken, r) /\ UNCHANGED <<channel, held>>
      BY <2>1, <2>3, <1>a DEF End, Left, Owners, channel, IndInv,
                              MembersTypeOK
  <2> QED
      BY <1>8, <2>2, <2>3 DEF Remove
<1>9. CASE DeleteChannel(r)
    BY <1>9 DEF DeleteChannel, StillSafe, Taking
<1>10. CASE CreateChannel(r)
  <2>1. held' = {}
      BY <1>10 DEF CreateChannel, Left, IndInv, MembersTypeOK
  <2> QED
      BY <2>1 DEF StillSafe, Taking
<1> QED
    BY <1>2, <1>3, <1>4, <1>5, <1>6, <1>7, <1>8, <1>9, <1>10 DEF Step

LEMMA Inductive == Spec => []IndInv
<1>1. Init => IndInv
    BY TypeInit, SafeInit DEF IndInv
<1>2. IndInv /\ [Next]_vars => IndInv'
    BY TypeStep, SafeStep DEF IndInv
<1> QED
    BY <1>1, <1>2, PTL DEF Spec

\* _assert_not_last_owner is enough within one request: the channel loses its
\* last owner only to a request that was overtaken, or to the console.
THEOREM LastOwnerGuarded == Spec => NoLoneOrphaning
<1> DEFINE Orphaning ==
        exists /\ exists' /\ Owners # {} /\ Owners' = {}
    Excused ==
        \E r \in Requests :
            /\ pc[r] = "write" /\ pc'[r] = "idle"
            /\ r \in overtaken \/ task[r].kind \in ConsoleKinds
<1>1. ASSUME IndInv, [Next]_vars PROVE [Orphaning => Excused]_vars
  <2> SUFFICES ASSUME Next, Orphaning PROVE Excused
      BY <1>1
  <2>1. PICK r \in Requests : Step(r)
      BY DEF Next
  <2>2. /\ members' # members /\ exists /\ exists'
      BY DEF Owners
  <2>3. CASE Insert(r)
    <3>1. task[r] \in Task /\ SetRole(r) /\ Found(r) = NoRole /\ r \in alive
        BY <2>3, <1>1, InFlight DEF Insert, IndInv
    <3>2. task[r].target \notin Owners
        BY <3>1, RoleAssumption DEF Found, Owners, ChannelRole
    <3>3. Owners \subseteq Owners'
        BY <1>1, <3>1, <3>2, OwnersAfter DEF IndInv
    <3> QED
        BY <3>3
  <2>4. CASE Update(r) \/ Remove(r)
    <3>1. /\ task[r] \in Task /\ SetRole(r) /\ r \in held
          /\ pc[r] = "write" /\ pc'[r] = "idle"
          /\ task[r].kind \in {"update", "remove"} \cup ConsoleKinds
        BY <2>2, <2>4, <1>1, InFlight
        DEF Update, Remove, End, ConsoleKinds, IndInv, MembersTypeOK, channel
    <3>2. task[r].role # "owner" /\ Owners' = Owners \ {task[r].target}
        BY <1>1, <3>1, OwnersAfter DEF IndInv
    <3>3. CASE Taking(r)
        BY <1>1, <3>1, <3>2, <3>3 DEF IndInv, StillSafe
    <3> QED
        BY <3>1, <3>2, <3>3 DEF Taking
  <2> QED
      BY <2>1, <2>2, <2>3, <2>4
      DEF Step, Begin, Load, CountOwners, Abort, DeleteChannel, CreateChannel,
          channel
<1>2. IndInv /\ [Next]_vars => [Orphaning => Excused]_vars
    BY <1>1
<1> QED
    BY Inductive, <1>2, PTL DEF Spec, NoLoneOrphaning

\* The three statements of the rule of access agree, whatever the memberships.
THEOREM AccessAgreed == Spec => []AccessRulesAgree
<1>1. ASSUME MembersTypeOK, NEW user \in Users \cup {Anonymous}
      PROVE  /\ VisibleTo(user) <=> AccessLevel(user) # NoRole
             /\ VisibleTo(user) => LevelForRow(user) = AccessLevel(user)
  <2>1. RoleOf(user) \in ChannelRole \cup {NoRole}
      BY <1>1 DEF RoleOf, MembersTypeOK
  <2>2. /\ LevelRank["reader"] = 1 /\ LevelRank["writer"] = 2
        /\ LevelRank["owner"] = 3 /\ LevelRank[NoRole] = 0
      BY RoleAssumption DEF LevelRank, ChannelRole
  <2>3. LevelRank[RoleOf(user)] <= LevelRank["reader"]
            <=> RoleOf(user) \in {"reader", NoRole}
      BY <2>1, <2>2 DEF ChannelRole
  <2>4. user \in Users /\ members[user] # NoRole <=> RoleOf(user) # NoRole
      BY DEF RoleOf
  <2>5. NoRole # "reader" /\ NoRole # "admin"
      BY RoleAssumption DEF ChannelRole
  <2> QED
      BY <2>3, <2>4, <2>5 DEF VisibleTo, AccessLevel, LevelForRow, BatchMyRole
<1>2. MembersTypeOK => AccessRulesAgree
    BY <1>1 DEF AccessRulesAgree
<1> QED
    BY MembersTyped, <1>2, PTL
=============================================================================
