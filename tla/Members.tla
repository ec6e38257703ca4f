------------------------------ MODULE Members ------------------------------
(***************************************************************************)
(* The membership of one channel: creation and deletion of the channel,    *)
(* the member endpoints, the console's grant and revoke, and the rules by  *)
(* which membership gives access.                                          *)
(*                                                                         *)
(* A request runs in a transaction of its own at READ COMMITTED: each of   *)
(* its selects sees what others have committed, what it decides by them is *)
(* old by the time it writes, and nothing locks a row it has only read.    *)
(* The write and the commit are one step, for a write to the same row      *)
(* waits for the commit.                                                   *)
(***************************************************************************)
EXTENDS Naturals, FiniteSets

CONSTANTS
    Users,      \* the users that have logged in
    Admins,     \* those with the server role "admin"
    Anonymous,  \* a caller that is not authenticated
    Requests,   \* slots for requests of the API and runs of the console
    Console,    \* somebody works at the console too
    NoRole      \* no membership, no access

ASSUME UserAssumption ==
    IsFiniteSet(Users) /\ Admins \subseteq Users /\ Anonymous \notin Users
ASSUME ConsoleAssumption == Console \in BOOLEAN

ChannelRole == {"reader", "writer", "owner"}

ASSUME RoleAssumption == NoRole \notin ChannelRole \cup {"admin"}

VARIABLES
    exists,     \* the channel has a row
    private,    \* its private flag
    members,    \* the channel_members rows, by user
    pc,         \* where each request stands
    task,       \* what it does, and the role of the row it loaded
    alive,      \* requests in flight whose channel row is still there
    held,       \* requests in flight whose loaded row is still there
    overtaken   \* history: requests in flight during which another took an
                \* owner away, or wrote to a channel that had none

vars == <<exists, private, members, pc, task, alive, held, overtaken>>
channel == <<exists, private, members>>

Giving == {"add", "update", "grant"}
ApiKinds == {"add", "update", "remove", "delete", "create"}
ConsoleKinds == {"grant", "revoke"}

\* The role is the one to give, or NoRole to take the membership away.
Task == {t \in [kind : ApiKinds \cup ConsoleKinds, target : Users,
                role : ChannelRole \cup {NoRole},
                seen : ChannelRole \cup {NoRole}] :
            t.kind \in Giving <=> t.role # NoRole}
NoTask == [kind |-> "none", target |-> Anonymous, role |-> NoRole,
           seen |-> NoRole]

Owners == {u \in Users : members[u] = "owner"}

\* ------------------------------------------------------------ access rules

LevelRank == [level \in ChannelRole \cup {"admin", NoRole} |->
    CASE level = "reader" -> 1
      [] level = "writer" -> 2
      [] level = "owner"  -> 3
      [] level = "admin"  -> 4
      [] OTHER            -> 0]

RoleOf(user) == IF user \in Users THEN members[user] ELSE NoRole

\* channel_access_level
AccessLevel(user) ==
    IF user \in Admins THEN "admin"
    ELSE IF ~private /\ LevelRank[RoleOf(user)] <= LevelRank["reader"]
    THEN "reader"
    ELSE RoleOf(user)

IsAtLeast(level, required) == LevelRank[level] >= LevelRank[required]

\* visible_channels_stmt: the channel is one of those the caller may list.
VisibleTo(user) ==
    \/ ~private
    \/ user \in Admins
    \/ user \in Users /\ members[user] # NoRole

\* _batch_my_roles, and the level list_channels reports for a listed channel.
\* A mutation of BatchMyRole: the table is asked for admins too.
BatchRoleFromTable(user) == RoleOf(user)
BatchMyRole(user) ==
    IF user \in Admins THEN "admin" ELSE RoleOf(user)
LevelForRow(user) ==
    IF BatchMyRole(user) # NoRole THEN BatchMyRole(user)
    ELSE IF ~private THEN "reader" ELSE NoRole

\* ----------------------------------------------------------------- request

\* require_channel_owner, or require_admin for a creation; a run of the
\* console only resolves the channel.  Who is denied changes nothing.
MayAsk(actor, kind) ==
    IF kind = "create" THEN actor \in Admins
    ELSE exists /\ IsAtLeast(AccessLevel(actor), "owner")

Begin(r) ==
    /\ pc[r] = "idle"
    /\ \E t \in Task :
        /\ t.seen = NoRole
        /\ \/ Console /\ exists /\ t.kind \in ConsoleKinds
           \/ /\ t.kind \in ApiKinds
              /\ \E actor \in Users :
                    /\ MayAsk(actor, t.kind)
                    /\ t.kind \in {"create", "delete"} => t.target = actor
        /\ task' = [task EXCEPT ![r] = t]
        /\ pc' = [pc EXCEPT ![r] = IF t.kind = "delete" THEN "write"
                                   ELSE "load"]
    /\ alive' = IF exists THEN alive \cup {r} ELSE alive
    /\ UNCHANGED <<channel, held, overtaken>>

\* The transaction of a request is over, committed or not.
End(r) ==
    /\ pc' = [pc EXCEPT ![r] = "idle"]
    /\ task' = [task EXCEPT ![r] = NoTask]
Left(set, r) == set' = set \ {r}

\* The membership a select of the request's target finds now.
Found(r) == IF r \in alive THEN members[task[r].target] ELSE NoRole

\* What the checks after the first select refuse, or leave nothing to do for.
NothingToDo(r) ==
    CASE task[r].kind = "create" -> exists
      [] task[r].kind = "add"    -> Found(r) # NoRole
      [] task[r].kind = "grant"  -> FALSE
      [] OTHER                   -> Found(r) = NoRole

\* remove_member of an owner, update_member to a lower role
TakesOwner(r) ==
    /\ Found(r) = "owner"
    /\ task[r].role # "owner"
    /\ task[r].kind \in {"update", "remove"}

Load(r) ==
    /\ pc[r] = "load"
    /\ ~NothingToDo(r)
    /\ pc' = [pc EXCEPT ![r] = IF TakesOwner(r) THEN "count" ELSE "write"]
    /\ task' = [task EXCEPT ![r].seen = Found(r)]
    /\ held' = IF Found(r) = NoRole THEN held ELSE held \cup {r}
    /\ UNCHANGED <<channel, alive, overtaken>>

\* A mutation of CountOwners: an owner is enough.
CountUnderOne(r) ==
    /\ pc[r] = "count"
    /\ r \in alive /\ Cardinality(Owners) >= 1
    /\ pc' = [pc EXCEPT ![r] = "write"]
    /\ UNCHANGED <<channel, task, alive, held, overtaken>>

\* _assert_not_last_owner
CountOwners(r) ==
    /\ pc[r] = "count"
    /\ r \in alive /\ Cardinality(Owners) > 1
    /\ pc' = [pc EXCEPT ![r] = "write"]
    /\ UNCHANGED <<channel, task, alive, held, overtaken>>

\* A check says no, a call to the database raises, the process dies: nothing
\* of the request's transaction is left.
Abort(r) ==
    /\ pc[r] # "idle"
    /\ End(r)
    /\ Left(alive, r) /\ Left(held, r) /\ Left(overtaken, r)
    /\ UNCHANGED channel

\* ------------------------------------------------------------------- write

\* Those in flight while an owner is taken away, or while there is none.
Overtaken(r, owners) ==
    IF Owners = {} \/ ~(Owners \subseteq owners)
    THEN {q \in Requests \ {r} : pc[q] # "idle"} ELSE {}

SetRole(r) ==
    /\ members' = [members EXCEPT ![task[r].target] = task[r].role]
    /\ LET owners == IF task[r].role = "owner"
                     THEN Owners \cup {task[r].target}
                     ELSE Owners \ {task[r].target}
       IN overtaken' = (overtaken \cup Overtaken(r, owners)) \ {r}
    /\ UNCHANGED <<exists, private>>

\* uq_channel_member_user or the foreign key refuse it otherwise.
Insert(r) ==
    /\ pc[r] = "write"
    /\ task[r].kind \in {"add", "grant"} /\ task[r].seen = NoRole
    /\ Found(r) = NoRole /\ r \in alive
    /\ SetRole(r)
    /\ End(r) /\ Left(alive, r) /\ Left(held, r)

\* An UPDATE is emitted only for a role other than the one loaded; one that
\* matches no row is an error.
Update(r) ==
    /\ pc[r] = "write"
    /\ task[r].kind \in {"update", "grant"} /\ task[r].seen # NoRole
    /\ \/ /\ task[r].seen = task[r].role
          /\ Left(overtaken, r)
          /\ UNCHANGED channel
       \/ /\ task[r].seen # task[r].role /\ r \in held
          /\ SetRole(r)
    /\ End(r) /\ Left(alive, r) /\ Left(held, r)

\* The DELETE names the row that was loaded; if it matches none the session
\* warns and goes on.
Remove(r) ==
    /\ pc[r] = "write"
    /\ task[r].kind \in {"remove", "revoke"}
    /\ \/ /\ r \in held
          /\ SetRole(r)
          /\ held' = {q \in held : task[q].target # task[r].target}
       \/ /\ r \notin held
          /\ Left(overtaken, r)
          /\ UNCHANGED <<channel, held>>
    /\ End(r) /\ Left(alive, r)

\* The memberships go with the channel.
DeleteChannel(r) ==
    /\ pc[r] = "write"
    /\ task[r].kind = "delete" /\ r \in alive
    /\ exists' = FALSE
    /\ members' = [u \in Users |-> NoRole]
    /\ alive' = {} /\ held' = {}
    /\ End(r) /\ Left(overtaken, r)
    /\ UNCHANGED private

\* A mutation of FirstRole: the level of the admin instead of a role.
FirstAdmin == "admin"

\* The creating admin is enrolled as the first owner.
FirstRole == "owner"
CreateChannel(r) ==
    /\ pc[r] = "write"
    /\ task[r].kind = "create" /\ ~exists
    /\ exists' = TRUE
    /\ private' \in BOOLEAN
    /\ members' = [members EXCEPT ![task[r].target] = FirstRole]
    /\ End(r) /\ Left(alive, r) /\ Left(held, r) /\ Left(overtaken, r)

\* -------------------------------------------------------------------- spec

Init ==
    /\ exists = TRUE
    /\ private \in BOOLEAN
    /\ members \in [Users -> ChannelRole \cup {NoRole}]
    /\ Owners # {}
    /\ pc = [r \in Requests |-> "idle"]
    /\ task = [r \in Requests |-> NoTask]
    /\ alive = {} /\ held = {} /\ overtaken = {}

Step(r) ==
    \/ Begin(r) \/ Load(r) \/ CountOwners(r) \/ Abort(r)
    \/ Insert(r) \/ Update(r) \/ Remove(r)
    \/ DeleteChannel(r) \/ CreateChannel(r)

Next == \E r \in Requests : Step(r)

Spec == Init /\ [][Next]_vars

\* -------------------------------------------------------------- properties

\* Every variable has its type, and what a request in flight relies on is
\* there only while the channel, or the row it loaded, is.
MembersTypeOK ==
    /\ exists \in BOOLEAN /\ private \in BOOLEAN
    /\ members \in [Users -> ChannelRole \cup {NoRole}]
    /\ exists \/ \A u \in Users : members[u] = NoRole
    /\ pc \in [Requests -> {"idle", "load", "count", "write"}]
    /\ task \in [Requests -> Task \cup {NoTask}]
    /\ \A r \in Requests : task[r] = NoTask <=> pc[r] = "idle"
    /\ alive \subseteq Requests /\ held \subseteq alive
    /\ \A r \in alive : exists /\ pc[r] # "idle"
    /\ \A r \in held : members[task[r].target] # NoRole
    /\ overtaken \subseteq Requests

\* The last owner of a channel is lost only to a request another one overtook,
\* taking an owner away between its check and its write, or to the console,
\* which checks nothing: within one request _assert_not_last_owner is enough,
\* also for a row that was not an owner's when it was loaded.
NoLoneOrphaning ==
    [][exists /\ exists' /\ Owners # {} /\ Owners' = {}
        => \E r \in Requests :
               /\ pc[r] = "write" /\ pc'[r] = "idle"
               /\ r \in overtaken \/ task[r].kind \in ConsoleKinds]_vars

\* The rule of access is written three times: for one channel
\* (channel_access_level), for the list of channels (visible_channels_stmt)
\* and for the level that list reports (_level_for_row).  The three agree for
\* every caller, whatever the memberships.
AccessRulesAgree ==
    \A user \in Users \cup {Anonymous} :
        /\ VisibleTo(user) <=> AccessLevel(user) # NoRole
        /\ VisibleTo(user) => LevelForRow(user) = AccessLevel(user)

\* _assert_not_last_owner: "better to reject than to orphan silently".
\* Requests of the API leave every channel an owner.
LastOwnerKept == exists => Owners # {}
=============================================================================
