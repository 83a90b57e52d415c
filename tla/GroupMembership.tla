-------------------------- MODULE GroupMembership ---------------------------
(***************************************************************************)
(* Who is a member of a public group, and the expiry of memberships behind *)
(* an access gate (canisters/group/impl/src):                              *)
(*                                                                         *)
(*   updates/c2c_join_group.rs       the gate is checked across an await   *)
(*   updates/change_role.rs, remove_participant.rs, unblock_user.rs,       *)
(*   c2c_leave_group.rs, c2c_invite_users.rs, cancel_invites.rs,           *)
(*   c2c_set_user_suspended.rs, c2c_local_index.rs (UserDeleted)           *)
(*   updates/update_group_v2.rs      a new gate, across an await           *)
(*   jobs/expire_members.rs          the heap of memberships to check      *)
(*   jobs/process_expire_member_actions.rs   the queue of checks           *)
(*                                                                         *)
(* A call that awaits is a record between the step that sends it and the   *)
(* step that goes on; everything else may happen in between.  Two entries  *)
(* of one user for the same instant are one, and the order of the queue is *)
(* abstracted: a batch is any of its elements.  Payments are left out, and *)
(* so are frozen and private groups.                                       *)
(***************************************************************************)
EXTENDS GroupMembers

CONSTANTS
    Creator,        \* the creator of the group
    NoOne,          \* no initiator: a bot that acts on its own
    Moderators,     \* the platform moderators
    NoGate,         \* Option::None of a gate
    Behaviours,     \* AccessGateExpiryBehaviour of the gates in use
    Expiries,       \* their expiries, 0 for None
    NoTimer,        \* Option::None of a timer
    Delay,          \* MEMBER_ACCESS_EXPIRY_DELAY
    BatchSize,      \* actions one run of process_expire_member_actions takes
    NewRoles,       \* the roles change_role is called with
    Deletable, Suspendable, Invitable, Fickle,  \* the users whose account may be
                    \* deleted, suspended, who may be invited, whose diamond
                    \* membership may end and be renewed
    MaxPending, MaxUpdates, MaxTime     \* bounds

ASSUME GroupAssumption ==
    /\ Creator \in Users /\ NoOne \notin Users /\ Moderators \subseteq Users
    /\ Behaviours \subseteq {"lookup", "check", "lapse"}
    /\ Expiries \subseteq Nat
    /\ NoGate \notin [behaviour : Behaviours, expiry : Expiries]
    /\ NoTimer \notin Nat /\ Delay \in Nat /\ BatchSize \in Nat \ {0}
    /\ NewRoles \subseteq Roles
    /\ Deletable \cup Suspendable \cup Invitable \cup Fickle \subseteq Users
    /\ MaxPending \in Nat /\ MaxUpdates \in Nat /\ MaxTime \in Nat

VARIABLES
    members,        \* chat.members
    invited,        \* chat.invited_users
    gate,           \* chat.gate_config
    diamond,        \* the users that meet the requirement of a lookup gate
    cache,          \* those user_cache knows to meet it
    expiring,       \* expiring_members: who is checked when
    actions,        \* expiring_member_actions
    expireTimer,    \* when expire_members next runs
    actionTimer,    \* is process_expire_member_actions to run?
    calls,          \* calls in flight
    updates,        \* gate updates so far
    now

vars == <<members, invited, gate, diamond, cache, expiring, actions,
          expireTimer, actionTimer, calls, updates, now>>
memberVars == <<members, invited>>
gateVars == <<gate, updates>>
userVars == <<diamond, cache>>
jobVars == <<expiring, actions, expireTimer, actionTimer>>

Gates == [behaviour : Behaviours, expiry : Expiries]
Initiators == Users \cup {NoOne}

Expiring == [user : Users, expires : Nat]
UserLookup == [kind : {"lookup"}, users : SUBSET Users]
AsyncGateCheck == [kind : {"check"}, user : Users, gateExpiry : Nat]
Joining == [kind : {"join"}, user : Users]
Removing == [kind : {"remove"}, by : Initiators, user : Users, block : BOOLEAN]
Updating == [kind : {"update"}, gate : Gates \cup {NoGate}]

TypeOK ==
    /\ members \in GroupMembersType /\ invited \subseteq Users
    /\ gate \in Gates \cup {NoGate}
    /\ diamond \subseteq Users /\ cache \subseteq Users
    /\ expiring \subseteq Expiring
    /\ actions \subseteq UserLookup \cup AsyncGateCheck
    /\ expireTimer \in Nat \cup {NoTimer} /\ actionTimer \in BOOLEAN
    /\ calls \subseteq UserLookup \cup AsyncGateCheck \cup Joining \cup Removing \cup Updating
    /\ updates \in Nat /\ now \in Nat

Init ==
    /\ members = NewMembers(Creator) /\ invited = {}
    /\ gate \in Gates \cup {NoGate}
    /\ diamond \in SUBSET Fickle /\ cache = {}
    /\ expiring = {} /\ actions = {} /\ expireTimer = NoTimer /\ actionTimer = FALSE
    /\ calls = {} /\ updates = 0 /\ now = 0

Expires(g) == g # NoGate /\ g.expiry > 0        \* AccessGateConfig::expiry

------------------------------------------------------------------------------
(* The timer of expire_members: start_job_if_required and restart_job.      *)

NextExpiry(heap) == CHOOSE t \in {e.expires : e \in heap} : \A e \in heap : t <= e.expires

StartJob(heap, timer) ==
    IF timer # NoTimer \/ heap = {} THEN timer
    ELSE IF NextExpiry(heap) + Delay > now THEN NextExpiry(heap) + Delay ELSE now

RestartJobForgotten(heap) == NoTimer     \* mutant
RestartJob(heap) == StartJob(heap, NoTimer)

Without(heap, u) == {e \in heap : e.user # u}

\* Data::remove_user: the entries and the checks of a user, not the lookups.
RemoveUser(u) ==
    /\ expiring' = Without(expiring, u)
    /\ actions' = {a \in actions : a.kind = "lookup" \/ a.user # u}
    /\ cache' = cache \ {u}
    /\ UNCHANGED <<expireTimer, actionTimer, diamond>>

Busy == Cardinality(calls) >= MaxPending

------------------------------------------------------------------------------
(* c2c_join_group.                                                          *)

\* commit.  The check is scheduled whatever add_member answers.
JoinCommit(u) ==
    LET unblocked == IF u \in Moderators THEN Unblock(members, u) ELSE members
        result == AddResult(unblocked, u)
    IN  /\ members' = CASE result = "Success"        -> Add(unblocked, u)
                        [] result = "AlreadyInGroup" -> Unlapse(unblocked, {u})
                        [] OTHER                     -> unblocked
        /\ invited' = IF result = "Success" THEN invited \ {u} ELSE invited
        /\ expiring' = IF Expires(gate)
                       THEN expiring \cup {[user |-> u, expires |-> now + gate.expiry]}
                       ELSE expiring
        /\ expireTimer' = StartJob(expiring', expireTimer)
        /\ cache' = IF u \in diamond THEN cache \cup {u} ELSE cache \ {u}
        /\ UNCHANGED <<gateVars, diamond, actions, actionTimer, now>>

\* A stranger that is not blocked, or a member that has lapsed.
MayJoin(u) ==
    IF u \in DOMAIN members.map THEN members.map[u].lapsed
    ELSE u \notin members.blocked /\ Cardinality(members.ids) < MaxMembers

NeedsGate(u) == gate # NoGate /\ (u \in invited => u \in DOMAIN members.map)

\* No gate to check, or one that is checked without a call.
Join(u) ==
    /\ MayJoin(u)
    /\ NeedsGate(u) => gate.behaviour = "lookup" /\ u \in diamond
    /\ JoinCommit(u)
    /\ UNCHANGED calls

JoinSend(u) ==
    /\ MayJoin(u) /\ NeedsGate(u) /\ gate.behaviour # "lookup" /\ ~Busy
    /\ calls' = calls \cup {[kind |-> "join", user |-> u]}
    /\ UNCHANGED <<memberVars, gateVars, userVars, jobVars, now>>

JoinPasses(c) ==
    /\ c \in calls /\ c.kind = "join"
    /\ calls' = calls \ {c}
    /\ JoinCommit(c.user)

\* The gate of a join failed, user_index or group_index refused, or a call
\* did: the handler returns an error.
CallFails(c) ==
    /\ c \in calls /\ c.kind \in {"join", "remove", "update", "lookup"}
    /\ calls' = calls \ {c}
    /\ UNCHANGED <<memberVars, gateVars, userVars, jobVars, now>>

------------------------------------------------------------------------------
(* Roles, removals and blocks.                                              *)

Permitted(by, role) == Verified(members, by) /\ SameOrSenior(RoleOf(members, by), role)

\* change_role.  An owner leaves the schedule, a former owner enters it.  A
\* bot that acts on its own may promote and demote owners.
ChangeRoleOf(by, u, role) ==
    /\ by # NoOne => Permitted(by, "admin") /\ Permitted(by, role)
    /\ CanChangeRole(members, u, role)
    /\ members' = ChangeRole(members, u, role)
    /\ expiring' = IF ~Expires(gate) THEN expiring
                   ELSE IF role = "owner" THEN Without(expiring, u)
                   ELSE IF members.map[u].role = "owner"
                   THEN expiring \cup {[user |-> u, expires |-> now + gate.expiry]}
                   ELSE expiring
    /\ expireTimer' = StartJob(expiring', expireTimer)
    /\ UNCHANGED <<invited, gateVars, userVars, actions, actionTimer, calls, now>>

MapRole(u) == IF u \in DOMAIN members.map THEN members.map[u].role ELSE "member"

\* can_remove_members_with_role, at once and again after the await.
MayRemove(by, u) ==
    by # NoOne => by # u /\ Permitted(by, "moderator") /\ Permitted(by, MapRole(u))

\* remove_participant, block_user: remove_member of the chat, and remove_user
\* if the user was a member when the handler began.
RemoveCommit(by, u, block, remove) ==
    /\ MayRemove(by, u)
    /\ \/ u \in DOMAIN members.map \/ u \in invited
       \/ block /\ u \notin members.blocked
    /\ members' = IF block THEN Block(Remove(members, u), u) ELSE Remove(members, u)
    /\ invited' = invited \ {u}
    /\ IF remove THEN RemoveUser(u) ELSE UNCHANGED <<userVars, jobVars>>
    /\ UNCHANGED <<gateVars, now>>

RemoveMember(by, u, block) ==
    /\ MapRole(u) # "owner"
    /\ RemoveCommit(by, u, block, u \in DOMAIN members.map)
    /\ UNCHANGED calls

\* An owner is removed only if local_user_index says that it is no platform
\* moderator.
RemoveOwnerSend(by, u, block) ==
    /\ MapRole(u) = "owner" /\ MayRemove(by, u) /\ ~Busy
    /\ calls' = calls \cup {[kind |-> "remove", by |-> by, user |-> u, block |-> block]}
    /\ UNCHANGED <<memberVars, gateVars, userVars, jobVars, now>>

RemoveOwner(c) ==
    /\ c \in calls /\ c.kind = "remove" /\ c.user \notin Moderators
    /\ calls' = calls \ {c}
    /\ RemoveCommit(c.by, c.user, c.block, TRUE)

UnblockUser(by, u) ==
    /\ by # u /\ Permitted(by, "moderator")
    /\ members' = Unblock(members, u)
    /\ UNCHANGED <<invited, gateVars, userVars, jobVars, calls, now>>

\* Neither a suspended member nor the last owner can leave.
LeaveGroup(u) ==
    /\ u \in DOMAIN members.map /\ ~members.map[u].suspended
    /\ members.map[u].role = "owner" => Cardinality(members.owners) # 1
    /\ members' = Remove(members, u)
    /\ RemoveUser(u)
    /\ UNCHANGED <<invited, gateVars, calls, now>>

UserDeleted(u) ==
    /\ members' = Remove(members, u)
    /\ RemoveUser(u)
    /\ UNCHANGED <<invited, gateVars, calls, now>>

SuspendUser(u, suspended) ==
    /\ members' = SetSuspended(members, u, suspended)
    /\ UNCHANGED <<invited, gateVars, userVars, jobVars, calls, now>>

\* Those that are members or invited already are skipped.
InviteUser(by, u) ==
    /\ Permitted(by, "admin") /\ u \notin members.ids
    /\ invited' = invited \cup {u}
    /\ UNCHANGED <<members, gateVars, userVars, jobVars, calls, now>>

CancelInvite(by, u) ==
    /\ Permitted(by, "admin")
    /\ invited' = invited \ {u}
    /\ UNCHANGED <<members, gateVars, userVars, jobVars, calls, now>>

------------------------------------------------------------------------------
(* update_group_v2 and update_member_expiry.                                *)

UpdateSend(by, g) ==
    /\ Permitted(by, "admin") /\ ~Busy /\ updates < MaxUpdates
    /\ calls' = calls \cup {[kind |-> "update", gate |-> g]}
    /\ updates' = updates + 1
    /\ UNCHANGED <<memberVars, gate, userVars, jobVars, now>>

\* change_gate_expiry, saturating at zero.
Shifted(heap, old, new) ==
    {[e EXCEPT !.expires = IF e.expires + new >= old THEN e.expires + new - old ELSE 0] : e \in heap}

UpdateCommit(c) ==
    /\ c \in calls /\ c.kind = "update"
    /\ calls' = calls \ {c}
    /\ gate' = c.gate
    /\ members' = IF Expires(gate) /\ gate' = NoGate THEN Unlapse(members, Users) ELSE members
    /\ expiring' =
         CASE Expires(gate) /\ Expires(gate') -> Shifted(expiring, gate.expiry, gate'.expiry)
           [] Expires(gate) /\ ~Expires(gate') -> {}
           [] ~Expires(gate) /\ Expires(gate') ->
                expiring \cup {[user |-> u, expires |-> now + gate'.expiry] :
                                 u \in {v \in Users : CanLapse(members, v)}}
           [] OTHER -> expiring
    /\ actions' = IF Expires(gate) /\ ~Expires(gate')
                  THEN {a \in actions : a.kind = "lookup"} ELSE actions
    /\ expireTimer' = RestartJob(expiring')
    /\ UNCHANGED <<invited, updates, userVars, actionTimer, now>>

------------------------------------------------------------------------------
(* expire_members.                                                          *)

Due == {e \in expiring : e.expires < now}

\* A lookup gate is first checked against the cache.
Looked == {e \in Due : gate.behaviour = "lookup" /\ e.user \notin cache}
Requeued == {e \in Due : gate.behaviour = "lookup" /\ e.user \in cache /\ CanLapse(members, e.user)}
Checked == Looked \cup {e \in Due : gate.behaviour = "check"}

RunActions ==
    (IF Looked = {} THEN {} ELSE {[kind |-> "lookup", users |-> {e.user : e \in Looked}]})
      \cup {[kind |-> "check", user |-> e.user, gateExpiry |-> gate.expiry] : e \in Checked}

ExpireMembers ==
    /\ expireTimer # NoTimer /\ expireTimer <= now
    /\ IF Expires(gate)
       THEN /\ expiring' = (expiring \ Due)
                             \cup {[e EXCEPT !.expires = now + gate.expiry] : e \in Requeued}
            /\ actions' = actions \cup RunActions
            /\ members' = IF gate.behaviour = "lapse"
                          THEN Lapse(members, {e.user : e \in Due}) ELSE members
       ELSE /\ expiring' = expiring \ Due
            /\ UNCHANGED <<actions, members>>
    /\ actionTimer' = (actionTimer \/ actions' # {})
    /\ expireTimer' = RestartJob(expiring')
    /\ UNCHANGED <<invited, gateVars, userVars, calls, now>>

------------------------------------------------------------------------------
(* process_expire_member_actions.                                           *)

Increase(c) == IF gate.expiry > c.gateExpiry THEN gate.expiry - c.gateExpiry ELSE 0

HandleForgotten(cs, passing, failing) ==    \* mutant
    LET live == {c \in cs : Expires(gate) /\ CanLapse(members, c.user)}
    IN  /\ members' = Lapse(members, {c.user : c \in live \cap failing})
        /\ expiring' = expiring \cup
             {[user |-> c.user, expires |-> now + gate.expiry] : c \in live \cap passing}

\* handle_gate_check_result for the checks of cs, those of passing succeed and
\* those of failing fail; a call that fails says neither.
Handle(cs, passing, failing) ==
    LET live == {c \in cs : Expires(gate) /\ CanLapse(members, c.user)}
        lapsing == {c \in live : c \in failing /\ Increase(c) = 0}
    IN  /\ members' = Lapse(members, {c.user : c \in lapsing})
        /\ expiring' = expiring \cup
             {[user |-> c.user,
               expires |-> now + (IF c \in passing THEN gate.expiry ELSE Increase(c))] :
                c \in live \ lapsing}

\* The next actions: a lookup is sent, a check of a lookup gate is made at
\* once with what the cache says, any other is sent to a ledger or an SNS.
ProcessActions(batch) ==
    LET checks == {a \in batch : a.kind = "check"}
        atOnce == {c \in checks : gate # NoGate /\ gate.behaviour = "lookup"}
        sent == {c \in checks : gate # NoGate /\ gate.behaviour # "lookup"}
    IN  /\ actionTimer
        /\ IF Cardinality(actions) <= BatchSize THEN batch = actions
           ELSE batch \subseteq actions /\ Cardinality(batch) = BatchSize
        /\ actions' = actions \ batch
        /\ actionTimer' = (actions' # {})
        /\ calls' = calls \cup sent \cup (batch \ checks)
        /\ Handle(atOnce, {c \in atOnce : c.user \in cache}, {c \in atOnce : c.user \notin cache})
        /\ expireTimer' = IF atOnce = {} THEN expireTimer ELSE RestartJob(expiring')
        /\ UNCHANGED <<invited, gateVars, userVars, now>>

LookupReply(c) ==
    /\ c \in calls /\ c.kind = "lookup"
    /\ calls' = calls \ {c}
    /\ cache' = (cache \ c.users) \cup (c.users \cap diamond)
    /\ UNCHANGED <<memberVars, gateVars, diamond, jobVars, now>>

CheckReply(c, result) ==
    /\ c \in calls /\ c.kind = "check"
    /\ calls' = calls \ {c}
    /\ Handle({c}, IF result = "Success" THEN {c} ELSE {}, IF result = "Failed" THEN {c} ELSE {})
    /\ expireTimer' = RestartJob(expiring')
    /\ UNCHANGED <<invited, gateVars, userVars, actions, actionTimer, now>>

------------------------------------------------------------------------------
\* What the cache knows of a membership includes when it ends.
DiamondEnds(u) ==
    /\ diamond' = diamond \ {u} /\ cache' = cache \ {u}
    /\ UNCHANGED <<memberVars, gateVars, jobVars, calls, now>>

DiamondRenewed(u) ==
    /\ diamond' = diamond \cup {u}
    /\ UNCHANGED <<memberVars, gateVars, cache, jobVars, calls, now>>

\* A canister is stopped for its upgrade: no call is in flight.  The timers
\* are lost and started anew.
Upgrade ==
    /\ calls = {}
    /\ expireTimer' = RestartJob(expiring)
    /\ actionTimer' = (actions # {})
    /\ UNCHANGED <<memberVars, gateVars, userVars, expiring, actions, calls, now>>

Tick ==
    /\ now < MaxTime /\ now' = now + 1
    /\ UNCHANGED <<memberVars, gateVars, userVars, jobVars, calls>>

Jobs ==
    \/ ExpireMembers
    \/ \E batch \in SUBSET actions : ProcessActions(batch)

Replies ==
    \E c \in calls :
        \/ JoinPasses(c) \/ RemoveOwner(c) \/ UpdateCommit(c) \/ LookupReply(c) \/ CallFails(c)
        \/ \E result \in {"Success", "Failed", "Error"} : CheckReply(c, result)

Requests ==
    \/ \E u \in Users : Join(u) \/ JoinSend(u) \/ LeaveGroup(u)
    \/ \E by \in Initiators, u \in Users, role \in NewRoles : ChangeRoleOf(by, u, role)
    \/ \E by \in Initiators, u \in Users, block \in BOOLEAN :
          RemoveMember(by, u, block) \/ RemoveOwnerSend(by, u, block)
    \/ \E by, u \in Users : UnblockUser(by, u)
    \/ \E by \in Users, u \in Invitable : InviteUser(by, u) \/ CancelInvite(by, u)
    \/ \E by \in Users, g \in Gates \cup {NoGate} : UpdateSend(by, g)

Environment ==
    \/ \E u \in Fickle : DiamondEnds(u) \/ DiamondRenewed(u)
    \/ \E u \in Deletable : UserDeleted(u)
    \/ \E u \in Suspendable, suspended \in BOOLEAN : SuspendUser(u, suspended)
    \/ Upgrade
    \/ Tick

Next == Jobs \/ Replies \/ Requests \/ Environment

Spec == Init /\ [][Next]_vars
=============================================================================
