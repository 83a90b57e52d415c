---------------------------- MODULE GroupMembers ----------------------------
(***************************************************************************)
(* The members of a group chat (group_chat_core/src/members.rs) as a       *)
(* value: the members themselves, and the sets the code keeps beside them  *)
(* so that it need not read a member from stable memory to know its role,  *)
(* or whether it is suspended or has lapsed.  An operator named after a    *)
(* method returns the value the method leaves.                             *)
(*                                                                         *)
(* Bots, muted notifications and the log of updates are left out.          *)
(***************************************************************************)
EXTENDS Naturals, FiniteSets

CONSTANTS
    Users,          \* the users that may be members
    MaxMembers      \* MAX_MEMBERS_PER_GROUP

ASSUME MembersAssumption == MaxMembers \in Nat

Roles == {"owner", "admin", "moderator", "member"}

GroupMember == [role : Roles, lapsed : BOOLEAN, suspended : BOOLEAN]

MembersMap == UNION {[present -> GroupMember] : present \in SUBSET Users}

GroupMembersType ==
    [map : MembersMap,
     ids : SUBSET Users,
     owners : SUBSET Users,
     admins : SUBSET Users,
     moderators : SUBSET Users,
     lapsed : SUBSET Users,
     suspended : SUBSET Users,
     blocked : SUBSET Users]

\* A new group has its creator for owner.
NewMembers(creator) ==
    [map |-> [u \in {creator} |-> [role |-> "owner", lapsed |-> FALSE, suspended |-> FALSE]],
     ids |-> {creator}, owners |-> {creator}, admins |-> {}, moderators |-> {},
     lapsed |-> {}, suspended |-> {}, blocked |-> {}]

\* The set of role r, when somebody of a role enters or leaves it.
Enter(set, u, role, r) == IF role = r THEN set \cup {u} ELSE set
Exit(set, u, role, r) == IF role = r THEN set \ {u} ELSE set

AddResultUnblocked(ms, u) ==    \* mutant
    CASE Cardinality(ms.ids) >= MaxMembers     -> "LimitReached"
      [] u \in ms.ids                          -> "AlreadyInGroup"
      [] OTHER                                 -> "Success"

AddResult(ms, u) ==
    CASE u \in ms.blocked                      -> "Blocked"
      [] Cardinality(ms.ids) >= MaxMembers     -> "LimitReached"
      [] u \in ms.ids                          -> "AlreadyInGroup"
      [] OTHER                                 -> "Success"

Add(ms, u) ==
    [ms EXCEPT
        !.ids = ms.ids \cup {u},
        !.map = [v \in DOMAIN ms.map \cup {u} |->
                    IF v = u THEN [role |-> "member", lapsed |-> FALSE, suspended |-> FALSE]
                             ELSE ms.map[v]]]

Remove(ms, u) ==
    IF u \notin DOMAIN ms.map THEN ms
    ELSE LET member == ms.map[u] IN
         [ms EXCEPT
            !.map = [v \in DOMAIN ms.map \ {u} |-> ms.map[v]],
            !.ids = ms.ids \ {u},
            !.owners = Exit(ms.owners, u, member.role, "owner"),
            !.admins = Exit(ms.admins, u, member.role, "admin"),
            !.moderators = Exit(ms.moderators, u, member.role, "moderator"),
            !.lapsed = IF member.lapsed THEN ms.lapsed \ {u} ELSE ms.lapsed,
            !.suspended = IF member.suspended THEN ms.suspended \ {u} ELSE ms.suspended]

Block(ms, u) == [ms EXCEPT !.blocked = @ \cup {u}]
Unblock(ms, u) == [ms EXCEPT !.blocked = @ \ {u}]

\* A member that has neither been suspended nor lapsed.
Verified(ms, u) == u \in ms.ids /\ u \notin ms.suspended /\ u \notin ms.lapsed

\* VerifiedGroupMember::role reads the sets.
RoleOf(ms, u) ==
    CASE u \in ms.owners     -> "owner"
      [] u \in ms.admins     -> "admin"
      [] u \in ms.moderators -> "moderator"
      [] OTHER               -> "member"

Rank(role) == CASE role = "owner" -> 3 [] role = "admin" -> 2 [] role = "moderator" -> 1 [] OTHER -> 0
SameOrSenior(role, other) == Rank(role) >= Rank(other)

CanChangeRoleOfLast(ms, u, role) ==    \* mutant
    u \in DOMAIN ms.map /\ ms.map[u].role # role

\* The role of the last owner does not change, nor does a role to itself.
CanChangeRole(ms, u, role) ==
    /\ u \in DOMAIN ms.map
    /\ ms.map[u].role = "owner" => Cardinality(ms.owners) > 1
    /\ ms.map[u].role # role

\* update_lapsed, for several users at once: an owner cannot lapse, nor can a
\* user that is no member.
CanLapse(ms, u) == u \in ms.ids /\ u \notin ms.owners /\ u \notin ms.lapsed

Lapse(ms, us) ==
    LET lapsing == {u \in us : CanLapse(ms, u)} IN
    [ms EXCEPT
        !.lapsed = ms.lapsed \cup lapsing,
        !.map = [v \in DOMAIN ms.map |->
                    IF v \in lapsing THEN [ms.map[v] EXCEPT !.lapsed = TRUE] ELSE ms.map[v]]]

Unlapse(ms, us) ==
    LET unlapsing == us \cap ms.lapsed IN
    [ms EXCEPT
        !.lapsed = ms.lapsed \ unlapsing,
        !.map = [v \in DOMAIN ms.map |->
                    IF v \in unlapsing THEN [ms.map[v] EXCEPT !.lapsed = FALSE] ELSE ms.map[v]]]

\* A lapsed member that becomes an owner has no longer lapsed.
ChangeRole(ms, u, role) ==
    LET prev == ms.map[u].role
        base == IF role = "owner" THEN Unlapse(ms, {u}) ELSE ms
    IN  [base EXCEPT
            !.map = [v \in DOMAIN base.map |->
                        IF v = u THEN [base.map[v] EXCEPT !.role = role] ELSE base.map[v]],
            !.owners = Enter(Exit(ms.owners, u, prev, "owner"), u, role, "owner"),
            !.admins = Enter(Exit(ms.admins, u, prev, "admin"), u, role, "admin"),
            !.moderators = Enter(Exit(ms.moderators, u, prev, "moderator"), u, role, "moderator")]

SetSuspended(ms, u, suspended) ==
    IF u \notin ms.ids THEN ms
    ELSE [ms EXCEPT
            !.suspended = IF suspended THEN ms.suspended \cup {u} ELSE ms.suspended \ {u},
            !.map = [v \in DOMAIN ms.map |->
                        IF v = u THEN [ms.map[v] EXCEPT !.suspended = suspended] ELSE ms.map[v]]]

\* check_invariants of the module's tests: the sets say of every user what its
\* member says.  Owners have not lapsed.
MembersAgree(ms) ==
    /\ ms.ids = DOMAIN ms.map
    /\ ms.owners = {u \in ms.ids : ms.map[u].role = "owner"}
    /\ ms.admins = {u \in ms.ids : ms.map[u].role = "admin"}
    /\ ms.moderators = {u \in ms.ids : ms.map[u].role = "moderator"}
    /\ ms.lapsed = {u \in ms.ids : ms.map[u].lapsed}
    /\ ms.suspended = {u \in ms.ids : ms.map[u].suspended}
    /\ ms.owners \cap ms.lapsed = {}
=============================================================================
