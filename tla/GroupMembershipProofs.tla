----------------------- MODULE GroupMembershipProofs ------------------------
(***************************************************************************)
(* Proofs about the members of a group, for any users, gates, expiries and *)
(* batches.  The lemmas say of each operator on the members which of the   *)
(* sets it changes, and that it keeps them in agreement; the theorems then *)
(* go through the steps.                                                   *)
(***************************************************************************)
EXTENDS GroupMembershipProps, FiniteSetTheorems, WellFoundedInduction, TLAPS

------------------------------------------------------------------------------
(* The members.                                                             *)

MembersOK(ms) == ms \in GroupMembersType /\ MembersAgree(ms)

LEMMA MapIntro ==
    ASSUME NEW present \in SUBSET Users, NEW map \in [present -> GroupMember]
    PROVE  map \in MembersMap
  BY DEF MembersMap

LEMMA MapElim ==
    ASSUME NEW map \in MembersMap
    PROVE  DOMAIN map \in SUBSET Users /\ map \in [DOMAIN map -> GroupMember]
  BY DEF MembersMap

LEMMA NewMembersOK ==
    ASSUME NEW u \in Users
    PROVE  /\ MembersOK(NewMembers(u))
           /\ NewMembers(u).ids = {u} /\ NewMembers(u).owners = {u}
           /\ NewMembers(u).lapsed = {} /\ NewMembers(u).blocked = {}
<1>1. NewMembers(u).map \in MembersMap
  <2>1. DOMAIN NewMembers(u).map \in SUBSET Users /\ NewMembers(u).map \in [DOMAIN NewMembers(u).map -> GroupMember]
    BY MapElim DEF NewMembers, GroupMember, Roles
  <2> QED  BY <2>1, MapIntro
<1>2. NewMembers(u) \in GroupMembersType
  BY <1>1 DEF NewMembers, GroupMembersType
<1>3. MembersAgree(NewMembers(u))
  BY DEF NewMembers, MembersAgree
<1> QED  BY <1>2, <1>3 DEF NewMembers, MembersOK

LEMMA AddOK ==
    ASSUME NEW ms, MembersOK(ms), NEW u \in Users, u \notin ms.ids
    PROVE  /\ MembersOK(Add(ms, u))
           /\ Add(ms, u).ids = ms.ids \cup {u} /\ Add(ms, u).owners = ms.owners
           /\ Add(ms, u).lapsed = ms.lapsed /\ Add(ms, u).blocked = ms.blocked
<1> USE DEF MembersOK
<1>0. ms.map \in MembersMap
  BY DEF GroupMembersType
<1>1. Add(ms, u).map \in MembersMap
  <2>1. DOMAIN Add(ms, u).map \in SUBSET Users /\ Add(ms, u).map \in [DOMAIN Add(ms, u).map -> GroupMember]
    BY <1>0, MapElim DEF Add, GroupMember, Roles, GroupMembersType
  <2> QED  BY <2>1, MapIntro
<1>2. Add(ms, u) \in GroupMembersType
  BY <1>1 DEF Add, GroupMembersType
<1>3. MembersAgree(Add(ms, u))
  BY DEF Add, MembersAgree, GroupMembersType
<1> QED  BY <1>2, <1>3 DEF Add, GroupMembersType

LEMMA RemoveOK ==
    ASSUME NEW ms, MembersOK(ms), NEW u \in Users
    PROVE  /\ MembersOK(Remove(ms, u))
           /\ Remove(ms, u).ids = ms.ids \ {u} /\ Remove(ms, u).owners = ms.owners \ {u}
           /\ Remove(ms, u).lapsed = ms.lapsed \ {u} /\ Remove(ms, u).blocked = ms.blocked
<1> USE DEF MembersOK
<1>0. ms.map \in MembersMap
  BY DEF GroupMembersType
<1>1. CASE u \notin DOMAIN ms.map
  BY <1>1 DEF Remove, MembersAgree
<1>2. CASE u \in DOMAIN ms.map
  <2>1. Remove(ms, u).map \in MembersMap
    <3>1. DOMAIN Remove(ms, u).map \in SUBSET Users /\ Remove(ms, u).map \in [DOMAIN Remove(ms, u).map -> GroupMember]
      BY <1>0, <1>2, MapElim DEF Remove, GroupMembersType
    <3> QED  BY <3>1, MapIntro
  <2>2. Remove(ms, u) \in GroupMembersType
    <3> DEFINE m == Remove(ms, u).map
               i == ms.ids \ {u}
               o == Exit(ms.owners, u, ms.map[u].role, "owner")
               a == Exit(ms.admins, u, ms.map[u].role, "admin")
               mo == Exit(ms.moderators, u, ms.map[u].role, "moderator")
               l == IF ms.map[u].lapsed THEN ms.lapsed \ {u} ELSE ms.lapsed
               s == IF ms.map[u].suspended THEN ms.suspended \ {u} ELSE ms.suspended
    <3>1. Remove(ms, u) = [map |-> m, ids |-> i, owners |-> o, admins |-> a, moderators |-> mo,
                           lapsed |-> l, suspended |-> s, blocked |-> ms.blocked]
      BY <1>2 DEF Remove, GroupMembersType
    <3>2. /\ i \in SUBSET Users /\ o \in SUBSET Users /\ a \in SUBSET Users
          /\ mo \in SUBSET Users /\ l \in SUBSET Users /\ s \in SUBSET Users
          /\ ms.blocked \in SUBSET Users
      BY DEF Exit, GroupMembersType
    <3>3. m \in MembersMap
      BY <2>1
    <3> HIDE DEF m, i, o, a, mo, l, s
    <3> QED BY <3>1, <3>2, <3>3 DEF GroupMembersType
  <2>3. /\ Remove(ms, u).ids = ms.ids \ {u} /\ Remove(ms, u).owners = ms.owners \ {u}
        /\ Remove(ms, u).admins = ms.admins \ {u} /\ Remove(ms, u).moderators = ms.moderators \ {u}
        /\ Remove(ms, u).lapsed = ms.lapsed \ {u} /\ Remove(ms, u).blocked = ms.blocked
        /\ Remove(ms, u).suspended = ms.suspended \ {u}
        /\ Remove(ms, u).map = [v \in DOMAIN ms.map \ {u} |-> ms.map[v]]
    BY <1>2 DEF Remove, MembersAgree, GroupMembersType, Exit
  <2>4. MembersAgree(Remove(ms, u))
    BY <2>3 DEF MembersAgree
  <2> QED  BY <2>2, <2>3, <2>4
<1> QED  BY <1>1, <1>2

LEMMA BlockOK ==
    ASSUME NEW ms, MembersOK(ms), NEW u \in Users
    PROVE  /\ MembersOK(Block(ms, u)) /\ MembersOK(Unblock(ms, u))
           /\ Block(ms, u).ids = ms.ids /\ Unblock(ms, u).ids = ms.ids
           /\ Block(ms, u).owners = ms.owners /\ Unblock(ms, u).owners = ms.owners
           /\ Block(ms, u).lapsed = ms.lapsed /\ Unblock(ms, u).lapsed = ms.lapsed
           /\ Block(ms, u).blocked = ms.blocked \cup {u} /\ Unblock(ms, u).blocked = ms.blocked \ {u}
  BY DEF MembersOK, GroupMembersType, MembersAgree, Block, Unblock

LEMMA LapseOK ==
    ASSUME NEW ms, MembersOK(ms), NEW us \in SUBSET Users
    PROVE  /\ MembersOK(Lapse(ms, us))
           /\ Lapse(ms, us).ids = ms.ids /\ Lapse(ms, us).owners = ms.owners
           /\ Lapse(ms, us).lapsed = ms.lapsed \cup {u \in us : CanLapse(ms, u)}
           /\ Lapse(ms, us).blocked = ms.blocked
<1> USE DEF MembersOK
<1>0. ms.map \in MembersMap
  BY DEF GroupMembersType
<1>1. Lapse(ms, us).map \in MembersMap
  <2> DEFINE chosen == {u \in us : CanLapse(ms, u)}
  <2>1. Lapse(ms, us).map = [v \in DOMAIN ms.map |->
                              IF v \in chosen THEN [ms.map[v] EXCEPT !.lapsed = TRUE] ELSE ms.map[v]]
    BY DEF Lapse, GroupMembersType
  <2>2. \A v \in DOMAIN ms.map : ms.map[v] \in GroupMember /\ [ms.map[v] EXCEPT !.lapsed = TRUE] \in GroupMember
    BY <1>0, MapElim DEF GroupMember
  <2> HIDE DEF chosen
  <2>3. Lapse(ms, us).map \in [DOMAIN ms.map -> GroupMember]
    BY <2>1, <2>2
  <2> QED  BY <1>0, <2>3, MapElim, MapIntro
<1>2. Lapse(ms, us) \in GroupMembersType
  BY <1>1 DEF Lapse, GroupMembersType
<1>3. MembersAgree(Lapse(ms, us))
  BY <1>0, MapElim DEF Lapse, MembersAgree, GroupMembersType, CanLapse, GroupMember
<1> QED  BY <1>2, <1>3 DEF Lapse, GroupMembersType

LEMMA UnlapseOK ==
    ASSUME NEW ms, MembersOK(ms), NEW us \in SUBSET Users
    PROVE  /\ MembersOK(Unlapse(ms, us))
           /\ Unlapse(ms, us).ids = ms.ids /\ Unlapse(ms, us).owners = ms.owners
           /\ Unlapse(ms, us).lapsed = ms.lapsed \ us
           /\ Unlapse(ms, us).blocked = ms.blocked
<1> USE DEF MembersOK
<1>0. ms.map \in MembersMap
  BY DEF GroupMembersType
<1>1. Unlapse(ms, us).map \in MembersMap
  <2> DEFINE chosen == us \cap ms.lapsed
  <2>1. Unlapse(ms, us).map = [v \in DOMAIN ms.map |->
                              IF v \in chosen THEN [ms.map[v] EXCEPT !.lapsed = FALSE] ELSE ms.map[v]]
    BY DEF Unlapse, GroupMembersType
  <2>2. \A v \in DOMAIN ms.map : ms.map[v] \in GroupMember /\ [ms.map[v] EXCEPT !.lapsed = FALSE] \in GroupMember
    BY <1>0, MapElim DEF GroupMember
  <2> HIDE DEF chosen
  <2>3. Unlapse(ms, us).map \in [DOMAIN ms.map -> GroupMember]
    BY <2>1, <2>2
  <2> QED  BY <1>0, <2>3, MapElim, MapIntro
<1>2. Unlapse(ms, us) \in GroupMembersType
  BY <1>1 DEF Unlapse, GroupMembersType
<1>3. MembersAgree(Unlapse(ms, us))
  BY <1>0, MapElim DEF Unlapse, MembersAgree, GroupMembersType, GroupMember
<1> QED  BY <1>2, <1>3 DEF Unlapse, GroupMembersType

LEMMA SuspendOK ==
    ASSUME NEW ms, MembersOK(ms), NEW u \in Users, NEW suspended \in BOOLEAN
    PROVE  /\ MembersOK(SetSuspended(ms, u, suspended))
           /\ SetSuspended(ms, u, suspended).ids = ms.ids
           /\ SetSuspended(ms, u, suspended).owners = ms.owners
           /\ SetSuspended(ms, u, suspended).lapsed = ms.lapsed
           /\ SetSuspended(ms, u, suspended).blocked = ms.blocked
<1> USE DEF MembersOK
<1>0. ms.map \in MembersMap
  BY DEF GroupMembersType
<1>1. CASE u \notin ms.ids
  BY <1>1 DEF SetSuspended
<1>2. CASE u \in ms.ids
  <2>1. SetSuspended(ms, u, suspended).map \in MembersMap
    <3>1. DOMAIN SetSuspended(ms, u, suspended).map \in SUBSET Users /\ SetSuspended(ms, u, suspended).map \in [DOMAIN SetSuspended(ms, u, suspended).map -> GroupMember]
      BY <1>0, <1>2, MapElim DEF SetSuspended, GroupMembersType, GroupMember
    <3> QED  BY <3>1, MapIntro
  <2>2. SetSuspended(ms, u, suspended) \in GroupMembersType
    BY <2>1, <1>2 DEF SetSuspended, GroupMembersType
  <2>3. MembersAgree(SetSuspended(ms, u, suspended))
    BY <1>0, <1>2, MapElim DEF SetSuspended, MembersAgree, GroupMembersType, GroupMember
  <2> QED  BY <1>2, <2>2, <2>3 DEF SetSuspended, GroupMembersType
<1> QED  BY <1>1, <1>2

LEMMA ChangeRoleOK ==
    ASSUME NEW ms, MembersOK(ms), NEW u, u \in DOMAIN ms.map, NEW role, role \in Roles
    PROVE  /\ MembersOK(ChangeRole(ms, u, role))
           /\ ChangeRole(ms, u, role).ids = ms.ids
           /\ role = "owner" => /\ ChangeRole(ms, u, role).owners = ms.owners \cup {u}
                                /\ ChangeRole(ms, u, role).lapsed = ms.lapsed \ {u}
           /\ role # "owner" => /\ ChangeRole(ms, u, role).owners = ms.owners \ {u}
                                /\ ChangeRole(ms, u, role).lapsed = ms.lapsed
           /\ ChangeRole(ms, u, role).blocked = ms.blocked
<1> DEFINE base == IF role = "owner" THEN Unlapse(ms, {u}) ELSE ms
           after == ChangeRole(ms, u, role)
           prev == ms.map[u].role
<1>0. /\ u \in Users
      /\ ms.map \in MembersMap
  BY MapElim DEF MembersOK, GroupMembersType
<1>1. /\ MembersOK(base) /\ base.ids = ms.ids /\ base.blocked = ms.blocked
      /\ base.lapsed = IF role = "owner" THEN ms.lapsed \ {u} ELSE ms.lapsed
  <2>1. CASE role = "owner"  BY <1>0, <2>1, UnlapseOK
  <2>2. CASE role # "owner"  BY <2>2
  <2> QED  BY <2>1, <2>2
<1>2. /\ base.owners = ms.owners /\ base.admins = ms.admins /\ base.moderators = ms.moderators
      /\ base.suspended = ms.suspended /\ DOMAIN base.map = DOMAIN ms.map
  BY <1>1 DEF Unlapse, MembersOK, GroupMembersType, MembersAgree
<1>3. \A v \in DOMAIN ms.map : base.map[v].role = ms.map[v].role
  BY <1>0, MapElim DEF Unlapse, MembersOK, GroupMembersType, GroupMember
<1>4. base.map \in MembersMap
  BY <1>1 DEF MembersOK, GroupMembersType
<1> HIDE DEF base
<1> DEFINE newmap == [v \in DOMAIN base.map |->
                         IF v = u THEN [base.map[v] EXCEPT !.role = role] ELSE base.map[v]]
<1>4a. after = [base EXCEPT
            !.map = newmap,
            !.owners = Enter(Exit(ms.owners, u, prev, "owner"), u, role, "owner"),
            !.admins = Enter(Exit(ms.admins, u, prev, "admin"), u, role, "admin"),
            !.moderators = Enter(Exit(ms.moderators, u, prev, "moderator"), u, role, "moderator")]
  BY DEF ChangeRole, base
<1> HIDE DEF newmap, after
<1>5. /\ after.map = newmap
      /\ after.owners = Enter(Exit(ms.owners, u, prev, "owner"), u, role, "owner")
      /\ after.admins = Enter(Exit(ms.admins, u, prev, "admin"), u, role, "admin")
      /\ after.moderators = Enter(Exit(ms.moderators, u, prev, "moderator"), u, role, "moderator")
      /\ after.ids = base.ids /\ after.lapsed = base.lapsed /\ after.suspended = base.suspended
      /\ after.blocked = base.blocked
      /\ after = [map |-> after.map, ids |-> after.ids, owners |-> after.owners,
                  admins |-> after.admins, moderators |-> after.moderators,
                  lapsed |-> after.lapsed, suspended |-> after.suspended, blocked |-> after.blocked]
  BY <1>1, <1>4a DEF MembersOK, GroupMembersType
<1>6. after.map \in MembersMap
  <2>1. DOMAIN after.map \in SUBSET Users /\ after.map \in [DOMAIN after.map -> GroupMember]
    BY <1>4, <1>5, MapElim DEF newmap, GroupMember, MembersOK, GroupMembersType
  <2> QED  BY <2>1, MapIntro
<1>6a. /\ prev = "owner" <=> u \in ms.owners
       /\ prev = "admin" <=> u \in ms.admins
       /\ prev = "moderator" <=> u \in ms.moderators
  BY DEF MembersOK, MembersAgree
<1>7. /\ after.owners = IF role = "owner" THEN ms.owners \cup {u} ELSE ms.owners \ {u}
      /\ after.admins = IF role = "admin" THEN ms.admins \cup {u} ELSE ms.admins \ {u}
      /\ after.moderators = IF role = "moderator" THEN ms.moderators \cup {u} ELSE ms.moderators \ {u}
  <2> HIDE DEF prev
  <2>1. after.owners = IF role = "owner" THEN ms.owners \cup {u} ELSE ms.owners \ {u}
    BY <1>5, <1>6a DEF Enter, Exit
  <2>2. after.admins = IF role = "admin" THEN ms.admins \cup {u} ELSE ms.admins \ {u}
    BY <1>5, <1>6a DEF Enter, Exit
  <2>3. after.moderators = IF role = "moderator" THEN ms.moderators \cup {u} ELSE ms.moderators \ {u}
    BY <1>5, <1>6a DEF Enter, Exit
  <2> QED  BY <2>1, <2>2, <2>3
<1>8. after \in GroupMembersType
  BY <1>0, <1>1, <1>2, <1>5, <1>6, <1>7 DEF GroupMembersType, MembersOK
<1>9. \A v \in DOMAIN after.map :
         /\ after.map[v].role = IF v = u THEN role ELSE ms.map[v].role
         /\ after.map[v].lapsed = base.map[v].lapsed
         /\ after.map[v].suspended = base.map[v].suspended
  BY <1>2, <1>3, <1>4, <1>5, MapElim DEF newmap, GroupMember
<1>10. /\ after.ids = DOMAIN after.map
       /\ after.owners = {v \in after.ids : after.map[v].role = "owner"}
       /\ after.admins = {v \in after.ids : after.map[v].role = "admin"}
       /\ after.moderators = {v \in after.ids : after.map[v].role = "moderator"}
  <2>1. /\ ms.ids = DOMAIN ms.map
        /\ ms.owners = {v \in ms.ids : ms.map[v].role = "owner"}
        /\ ms.admins = {v \in ms.ids : ms.map[v].role = "admin"}
        /\ ms.moderators = {v \in ms.ids : ms.map[v].role = "moderator"}
    BY DEF MembersOK, MembersAgree
  <2>2. after.ids = ms.ids /\ DOMAIN after.map = ms.ids
    BY <1>1, <1>2, <1>5, <2>1 DEF newmap
  <2>3. after.owners = {v \in after.ids : after.map[v].role = "owner"}
    BY <1>7, <1>9, <2>1, <2>2
  <2>4. after.admins = {v \in after.ids : after.map[v].role = "admin"}
    BY <1>7, <1>9, <2>1, <2>2
  <2>5. after.moderators = {v \in after.ids : after.map[v].role = "moderator"}
    BY <1>7, <1>9, <2>1, <2>2
  <2> QED  BY <2>2, <2>3, <2>4, <2>5
<1>11. /\ after.lapsed = {v \in after.ids : after.map[v].lapsed}
       /\ after.suspended = {v \in after.ids : after.map[v].suspended}
  <2>1. /\ base.lapsed = {v \in base.ids : base.map[v].lapsed}
        /\ base.suspended = {v \in base.ids : base.map[v].suspended}
        /\ base.ids = DOMAIN base.map
    BY <1>1 DEF MembersOK, MembersAgree
  <2> QED  BY <2>1, <1>5, <1>9, <1>10
<1>11a. after.owners \cap after.lapsed = {}
  <2>1. ms.owners \cap ms.lapsed = {}
    BY DEF MembersOK, MembersAgree
  <2> QED  BY <2>1, <1>1, <1>5, <1>7
<1>12. MembersAgree(after)
  BY <1>10, <1>11, <1>11a DEF MembersAgree
<1> QED  BY <1>1, <1>5, <1>7, <1>8, <1>12 DEF MembersOK, after

------------------------------------------------------------------------------
(* The first expiry.                                                        *)

Earlier == {ss \in Nat \X Nat : ss[1] < ss[2]}

LEMMA SmallestExists ==
    ASSUME NEW T, T \subseteq Nat, T # {}
    PROVE  \E x \in T : \A y \in T : x <= y
<1>1. IsWellFoundedOn(Earlier, Nat)
  BY NatLessThanWellFounded DEF OpToRel, Earlier
<1>2. \E x \in T : \A y \in T : ~(<<y, x>> \in Earlier)
  BY <1>1, WFMin, Zenon
<1>3. PICK x \in T : \A y \in T : ~(<<y, x>> \in Earlier)
  BY <1>2
<1>4. \A y \in T : x \in Nat /\ y \in Nat /\ ~(y < x)
  BY <1>3 DEF Earlier
<1> QED  BY <1>4

LEMMA NextExpiryIs ==
    ASSUME NEW heap, heap \subseteq Expiring, heap # {}
    PROVE  /\ NextExpiry(heap) \in {e.expires : e \in heap}
           /\ NextExpiry(heap) \in Nat
           /\ \A e \in heap : NextExpiry(heap) <= e.expires
<1> DEFINE T == {e.expires : e \in heap}
<1>1. T \subseteq Nat /\ T # {}
  BY DEF Expiring
<1>2. \E t \in T : \A y \in T : t <= y
  BY <1>1, SmallestExists
<1>3. \E t \in {e.expires : e \in heap} : \A e \in heap : t <= e.expires
  BY <1>2
<1> QED  BY <1>1, <1>3 DEF NextExpiry

\* start_job_if_required leaves a timer alone, and otherwise sets it no later
\* than a delay after any entry expires, or for now.
LEMMA StartJobIs ==
    ASSUME NEW heap, heap \subseteq Expiring, NEW timer \in Nat \cup {NoTimer},
           now \in Nat, GroupAssumption
    PROVE  /\ StartJob(heap, timer) \in Nat \cup {NoTimer}
           /\ heap # {} => StartJob(heap, timer) # NoTimer
           /\ timer # NoTimer => StartJob(heap, timer) = timer
           /\ timer = NoTimer => \A e \in heap :
                 StartJob(heap, timer) <= e.expires + Delay \/ StartJob(heap, timer) <= now
<1>1. CASE timer # NoTimer \/ heap = {}
  BY <1>1 DEF StartJob
<1>2. CASE timer = NoTimer /\ heap # {}
  <2>1. /\ NextExpiry(heap) \in Nat
        /\ \A e \in heap : NextExpiry(heap) <= e.expires
    BY <1>2, NextExpiryIs
  <2>2. Delay \in Nat /\ NoTimer \notin Nat
    BY DEF GroupAssumption
  <2>3. StartJob(heap, timer) = IF NextExpiry(heap) + Delay > now THEN NextExpiry(heap) + Delay ELSE now
    BY <1>2 DEF StartJob
  <2>4. \A e \in heap : e.expires \in Nat
    BY DEF Expiring
  <2> QED  BY <1>2, <2>1, <2>2, <2>3, <2>4
<1> QED  BY <1>1, <1>2

------------------------------------------------------------------------------
(* Types, and the sets that agree.                                          *)

SafeInv == TypeOK /\ SetsAgree

LEMMA GateExpiry ==
    ASSUME GroupAssumption, TypeOK, Expires(gate)
    PROVE  gate \in Gates /\ gate.expiry \in Nat /\ gate.expiry > 0
<1>1. gate \in Gates  BY DEF TypeOK, Expires
<1>2. Expiries \subseteq Nat  BY DEF GroupAssumption
<1> QED  BY <1>1, <1>2 DEF Gates, Expires

LEMMA InitSafe ==
    ASSUME GroupAssumption, Init
    PROVE  SafeInv
<1>1. MembersOK(members) /\ members.ids = {Creator} /\ members.blocked = {}
  BY NewMembersOK DEF Init, GroupAssumption
<1>2. diamond \subseteq Users
  BY DEF Init, GroupAssumption
<1> QED  BY <1>1, <1>2 DEF Init, SafeInv, TypeOK, SetsAgree, MembersOK

\* Data::remove_user keeps the types.
LEMMA RemoveUserTypes ==
    ASSUME TypeOK, NEW u \in Users, RemoveUser(u)
    PROVE  /\ expiring' \subseteq Expiring /\ actions' \subseteq UserLookup \cup AsyncGateCheck
           /\ cache' \subseteq Users /\ diamond' \subseteq Users
           /\ expireTimer' \in Nat \cup {NoTimer} /\ actionTimer' \in BOOLEAN
  BY DEF TypeOK, RemoveUser, Without

LEMMA JoinCommitSafe ==
    ASSUME GroupAssumption, SafeInv, NEW u \in Users, JoinCommit(u), calls' \subseteq calls
    PROVE  SafeInv'
<1> DEFINE unblocked == IF u \in Moderators THEN Unblock(members, u) ELSE members
           result == AddResult(unblocked, u)
<1>1. /\ MembersOK(unblocked) /\ unblocked.ids = members.ids
      /\ unblocked.blocked \subseteq members.blocked
  <2>1. MembersOK(members)
    BY DEF SafeInv, TypeOK, SetsAgree, MembersOK
  <2>2. CASE u \in Moderators
    <3>1. unblocked = Unblock(members, u)
      BY <2>2
    <3>2. /\ MembersOK(Unblock(members, u)) /\ Unblock(members, u).ids = members.ids
          /\ Unblock(members, u).blocked = members.blocked \ {u}
      BY <2>1, BlockOK
    <3> HIDE DEF unblocked
    <3> QED  BY <3>1, <3>2
  <2>3. CASE u \notin Moderators  BY <2>1, <2>3
  <2> QED  BY <2>2, <2>3
<1>2. result = "Success" => u \notin unblocked.ids /\ u \notin unblocked.blocked
  BY DEF AddResult
<1> HIDE DEF unblocked
<1>3. members' = CASE result = "Success"        -> Add(unblocked, u)
                   [] result = "AlreadyInGroup" -> Unlapse(unblocked, {u})
                   [] OTHER                     -> unblocked
  BY DEF JoinCommit, unblocked
<1>4. invited' = IF result = "Success" THEN invited \ {u} ELSE invited
  BY DEF JoinCommit, unblocked
<1> HIDE DEF result
<1>5. /\ MembersOK(members')
      /\ members'.ids = IF result = "Success" THEN members.ids \cup {u} ELSE members.ids
      /\ members'.blocked = unblocked.blocked
  <2>1. CASE result = "Success"         BY <1>1, <1>2, <1>3, <2>1, AddOK
  <2>2. CASE result = "AlreadyInGroup"  BY <1>1, <1>3, <2>2, UnlapseOK
  <2>3. CASE result \notin {"Success", "AlreadyInGroup"}  BY <1>1, <1>3, <2>3
  <2> QED  BY <2>1, <2>2, <2>3
<1>6. SetsAgree'
  BY <1>1, <1>2, <1>4, <1>5 DEF SafeInv, SetsAgree, MembersOK
<1>7. expiring' \subseteq Expiring
  <2>1. Expires(gate) => gate.expiry \in Nat
    BY GateExpiry DEF SafeInv
  <2> QED  BY <2>1 DEF JoinCommit, SafeInv, TypeOK, Expiring
<1>8. expireTimer' \in Nat \cup {NoTimer}
  BY <1>7, StartJobIs DEF JoinCommit, SafeInv, TypeOK
<1>9. TypeOK'
  BY <1>4, <1>5, <1>7, <1>8 DEF JoinCommit, SafeInv, TypeOK, MembersOK, gateVars
<1> QED  BY <1>6, <1>9 DEF SafeInv

LEMMA RemoveCommitSafe ==
    ASSUME GroupAssumption, SafeInv, NEW by \in Initiators, NEW u \in Users, NEW block \in BOOLEAN,
           NEW remove \in BOOLEAN, RemoveCommit(by, u, block, remove), calls' \subseteq calls
    PROVE  SafeInv'
<1>1. /\ MembersOK(members') /\ members'.ids = members.ids \ {u}
      /\ members'.blocked = IF block THEN members.blocked \cup {u} ELSE members.blocked
  <2>1. MembersOK(members)
    BY DEF SafeInv, TypeOK, SetsAgree, MembersOK
  <2>2. members' = IF block THEN Block(Remove(members, u), u) ELSE Remove(members, u)
    BY DEF RemoveCommit
  <2>3. MembersOK(Remove(members, u))
    BY <2>1, RemoveOK
  <2>4. /\ Remove(members, u).ids = members.ids \ {u}
        /\ Remove(members, u).blocked = members.blocked
    BY <2>1, RemoveOK
  <2>5. CASE block
    <3>1. members' = Block(Remove(members, u), u)
      BY <2>2, <2>5
    <3>2. /\ MembersOK(members') /\ members'.ids = Remove(members, u).ids
          /\ members'.blocked = Remove(members, u).blocked \cup {u}
      BY <2>3, <3>1, BlockOK
    <3> QED  BY <2>4, <2>5, <3>2
  <2>6. CASE ~block  BY <2>2, <2>3, <2>4, <2>6
  <2> QED  BY <2>5, <2>6
<1>2. invited' = invited \ {u}
  BY DEF RemoveCommit
<1>3. SetsAgree'
  BY <1>1, <1>2 DEF SafeInv, SetsAgree, MembersOK
<1>4. /\ expiring' \subseteq Expiring /\ actions' \subseteq UserLookup \cup AsyncGateCheck
      /\ cache' \subseteq Users /\ diamond' \subseteq Users
      /\ expireTimer' \in Nat \cup {NoTimer} /\ actionTimer' \in BOOLEAN
  BY RemoveUserTypes DEF RemoveCommit, SafeInv, TypeOK, jobVars, userVars
<1>5. TypeOK'
  BY <1>1, <1>2, <1>4 DEF RemoveCommit, SafeInv, TypeOK, MembersOK, gateVars
<1> QED  BY <1>3, <1>5 DEF SafeInv

LEMMA HandleSafe ==
    ASSUME GroupAssumption, SafeInv, NEW cs \in SUBSET AsyncGateCheck, NEW passing, NEW failing,
           Handle(cs, passing, failing), invited' = invited
    PROVE  /\ members' \in GroupMembersType /\ SetsAgree'
           /\ expiring' \subseteq Expiring
<1> DEFINE live == {c \in cs : Expires(gate) /\ CanLapse(members, c.user)}
           lapsing == {c \in live : c \in failing /\ Increase(c) = 0}
<1>1. {c.user : c \in lapsing} \in SUBSET Users
  BY DEF AsyncGateCheck
<1>2. members' = Lapse(members, {c.user : c \in lapsing})
  BY DEF Handle
<1>3. /\ MembersOK(members') /\ members'.ids = members.ids /\ members'.blocked = members.blocked
  BY <1>1, <1>2, LapseOK DEF SafeInv, TypeOK, SetsAgree, MembersOK
<1>4. \A c \in live : gate.expiry \in Nat /\ Increase(c) \in Nat /\ c.user \in Users
  <2>1. \A c \in cs : c.user \in Users /\ c.gateExpiry \in Nat
    BY DEF AsyncGateCheck
  <2>2. Expires(gate) => gate.expiry \in Nat
    BY GateExpiry DEF SafeInv
  <2> QED  BY <2>1, <2>2 DEF Increase
<1>5. expiring' = expiring \cup
             {[user |-> c.user,
               expires |-> now + (IF c \in passing THEN gate.expiry ELSE Increase(c))] :
                c \in live \ lapsing}
  BY DEF Handle
<1>6. expiring' \subseteq Expiring
  BY <1>4, <1>5 DEF SafeInv, TypeOK, Expiring
<1> QED  BY <1>3, <1>6 DEF SafeInv, SetsAgree, MembersOK

\* The members change by no step but those of the lemmas above; whoever is
\* removed, blocked, invited or admitted leaves the other sets.
LEMMA RequestSafe ==
    ASSUME GroupAssumption, SafeInv, Requests
    PROVE  SafeInv'
<1> USE DEF SafeInv
<1>0. MembersOK(members)
  BY DEF TypeOK, SetsAgree, MembersOK
<1>1. ASSUME NEW u \in Users, Join(u) PROVE SafeInv'
  <2>1. JoinCommit(u) /\ calls' \subseteq calls
    BY <1>1 DEF Join
  <2> QED  BY <2>1, JoinCommitSafe
<1>2. ASSUME NEW u \in Users, JoinSend(u) PROVE SafeInv'
  BY <1>2 DEF JoinSend, TypeOK, SetsAgree, Joining, memberVars, gateVars, userVars, jobVars
<1>3. ASSUME NEW u \in Users, LeaveGroup(u) PROVE SafeInv'
  <2>1. /\ MembersOK(members') /\ members'.ids = members.ids \ {u}
        /\ members'.blocked = members.blocked
    <3>1. members' = Remove(members, u)
      BY <1>3 DEF LeaveGroup
    <3> QED  BY <1>0, <3>1, RemoveOK
  <2>2. /\ expiring' \subseteq Expiring /\ actions' \subseteq UserLookup \cup AsyncGateCheck
        /\ cache' \subseteq Users /\ diamond' \subseteq Users
        /\ expireTimer' \in Nat \cup {NoTimer} /\ actionTimer' \in BOOLEAN
    BY <1>3, RemoveUserTypes DEF LeaveGroup
  <2> QED  BY <1>3, <2>1, <2>2 DEF LeaveGroup, TypeOK, SetsAgree, MembersOK, gateVars
<1>4. ASSUME NEW by \in Initiators, NEW u \in Users, NEW role \in NewRoles, ChangeRoleOf(by, u, role)
      PROVE  SafeInv'
  <2>1. /\ MembersOK(members') /\ members'.ids = members.ids
        /\ members'.blocked = members.blocked
    <3>0. u \in DOMAIN members.map
      BY <1>4 DEF ChangeRoleOf, CanChangeRole
    <3>1. members' = ChangeRole(members, u, role)
      BY <1>4 DEF ChangeRoleOf
    <3>2. role \in Roles
      BY DEF GroupAssumption
    <3>3. /\ MembersOK(ChangeRole(members, u, role))
          /\ ChangeRole(members, u, role).ids = members.ids
          /\ ChangeRole(members, u, role).blocked = members.blocked
      BY <1>0, <3>0, <3>2, ChangeRoleOK
    <3> QED  BY <3>1, <3>3
  <2>2. expiring' \subseteq Expiring
    <3>1. Expires(gate) => gate.expiry \in Nat
      BY GateExpiry
    <3> QED  BY <1>4, <3>1 DEF ChangeRoleOf, TypeOK, Expiring, Without
  <2>3. expireTimer' \in Nat \cup {NoTimer}
    <3>1. expireTimer' = StartJob(expiring', expireTimer)
      BY <1>4 DEF ChangeRoleOf
    <3> QED  BY <2>2, <3>1, StartJobIs DEF TypeOK
  <2> QED  BY <1>4, <2>1, <2>2, <2>3 DEF ChangeRoleOf, TypeOK, SetsAgree, MembersOK, gateVars, userVars
<1>5. ASSUME NEW by \in Initiators, NEW u \in Users, NEW block \in BOOLEAN, RemoveMember(by, u, block)
      PROVE  SafeInv'
  <2> DEFINE remove == u \in DOMAIN members.map
  <2>1. RemoveCommit(by, u, block, remove) /\ calls' \subseteq calls
    BY <1>5 DEF RemoveMember
  <2>2. remove \in BOOLEAN
    OBVIOUS
  <2> HIDE DEF remove
  <2> QED  BY <2>1, <2>2, RemoveCommitSafe
<1>6. ASSUME NEW by \in Initiators, NEW u \in Users, NEW block \in BOOLEAN, RemoveOwnerSend(by, u, block)
      PROVE  SafeInv'
  BY <1>6 DEF RemoveOwnerSend, TypeOK, SetsAgree, Removing, memberVars, gateVars, userVars, jobVars
<1>7. ASSUME NEW by \in Users, NEW u \in Users, UnblockUser(by, u) PROVE SafeInv'
  <2>1. /\ MembersOK(members') /\ members'.ids = members.ids
        /\ members'.blocked = members.blocked \ {u}
    <3>1. members' = Unblock(members, u)
      BY <1>7 DEF UnblockUser
    <3>2. /\ MembersOK(Unblock(members, u)) /\ Unblock(members, u).ids = members.ids
          /\ Unblock(members, u).blocked = members.blocked \ {u}
      BY <1>0, BlockOK
    <3> QED  BY <3>1, <3>2
  <2> QED  BY <1>7, <2>1 DEF UnblockUser, TypeOK, SetsAgree, MembersOK, gateVars, userVars, jobVars
<1>8. ASSUME NEW by \in Users, NEW u \in Invitable, InviteUser(by, u) \/ CancelInvite(by, u)
      PROVE  SafeInv'
  <2>1. /\ members' = members
        /\ invited' \subseteq Users
        /\ members.ids \cap (members.blocked \cup invited') = {}
    BY <1>8 DEF InviteUser, CancelInvite, TypeOK, SetsAgree, GroupAssumption
  <2> QED  BY <1>8, <2>1 DEF InviteUser, CancelInvite, TypeOK, SetsAgree, gateVars, userVars, jobVars
<1>9. ASSUME NEW by \in Users, NEW g \in Gates \cup {NoGate}, UpdateSend(by, g) PROVE SafeInv'
  BY <1>9 DEF UpdateSend, TypeOK, SetsAgree, Updating, memberVars, userVars, jobVars
<1> QED  BY <1>1, <1>2, <1>3, <1>4, <1>5, <1>6, <1>7, <1>8, <1>9 DEF Requests

LEMMA ReplySafe ==
    ASSUME GroupAssumption, SafeInv, Replies
    PROVE  SafeInv'
<1> USE DEF SafeInv
<1>0. MembersOK(members)
  BY DEF TypeOK, SetsAgree, MembersOK
<1>1. ASSUME NEW c \in calls, JoinPasses(c) PROVE SafeInv'
  <2>1. c.user \in Users
    BY <1>1 DEF JoinPasses, TypeOK, UserLookup, AsyncGateCheck, Joining, Removing, Updating
  <2>2. JoinCommit(c.user) /\ calls' \subseteq calls
    BY <1>1 DEF JoinPasses
  <2> QED  BY <2>1, <2>2, JoinCommitSafe
<1>2. ASSUME NEW c \in calls, RemoveOwner(c) PROVE SafeInv'
  <2>1. c.by \in Initiators /\ c.user \in Users /\ c.block \in BOOLEAN
    BY <1>2 DEF RemoveOwner, TypeOK, UserLookup, AsyncGateCheck, Joining, Removing, Updating
  <2>2. RemoveCommit(c.by, c.user, c.block, TRUE) /\ calls' \subseteq calls
    BY <1>2 DEF RemoveOwner
  <2> QED  BY <2>1, <2>2, RemoveCommitSafe
<1>3. ASSUME NEW c \in calls, UpdateCommit(c) PROVE SafeInv'
  <2>1. c.gate \in Gates \cup {NoGate}
    BY <1>3 DEF UpdateCommit, TypeOK, UserLookup, AsyncGateCheck, Joining, Removing, Updating
  <2>2. gate' = c.gate
    BY <1>3 DEF UpdateCommit
  <2>3. /\ MembersOK(members') /\ members'.ids = members.ids
        /\ members'.blocked = members.blocked
    <3>1. \/ members' = Unlapse(members, Users)
          \/ members' = members
      BY <1>3 DEF UpdateCommit
    <3>2. /\ MembersOK(Unlapse(members, Users)) /\ Unlapse(members, Users).ids = members.ids
          /\ Unlapse(members, Users).blocked = members.blocked
      BY <1>0, UnlapseOK
    <3> QED  BY <1>0, <3>1, <3>2
  <2>4. expiring' \subseteq Expiring
    <3>1. Expires(gate) => gate.expiry \in Nat
      BY GateExpiry
    <3>2. Expires(gate') => gate'.expiry \in Nat
      BY <2>1, <2>2 DEF Expires, Gates, GroupAssumption
    <3>3. \A heap \in SUBSET Expiring : \A old, new \in Nat : Shifted(heap, old, new) \subseteq Expiring
      BY DEF Shifted, Expiring
    <3>4. CASE Expires(gate) /\ Expires(gate')
      <4>1. expiring' = Shifted(expiring, gate.expiry, gate'.expiry)
        BY <1>3, <3>4 DEF UpdateCommit
      <4>2. expiring \in SUBSET Expiring
        BY DEF TypeOK
      <4> QED  BY <3>1, <3>2, <3>3, <3>4, <4>1, <4>2
    <3>5. CASE Expires(gate) /\ ~Expires(gate')
      BY <1>3, <3>5 DEF UpdateCommit
    <3>6. CASE ~Expires(gate) /\ Expires(gate')
      BY <1>3, <3>2, <3>6 DEF UpdateCommit, TypeOK, Expiring
    <3>7. CASE ~Expires(gate) /\ ~Expires(gate')
      BY <1>3, <3>7 DEF UpdateCommit, TypeOK
    <3> QED  BY <3>4, <3>5, <3>6, <3>7
  <2>5. expireTimer' \in Nat \cup {NoTimer}
    <3>1. expireTimer' = StartJob(expiring', NoTimer)
      BY <1>3 DEF UpdateCommit, RestartJob
    <3> QED  BY <2>4, <3>1, StartJobIs DEF TypeOK
  <2> QED  BY <1>3, <2>1, <2>2, <2>3, <2>4, <2>5
           DEF UpdateCommit, TypeOK, SetsAgree, MembersOK, userVars
<1>4. ASSUME NEW c \in calls, LookupReply(c) PROVE SafeInv'
  BY <1>4 DEF LookupReply, TypeOK, SetsAgree, memberVars, gateVars, jobVars
<1>5. ASSUME NEW c \in calls, CallFails(c) PROVE SafeInv'
  BY <1>5 DEF CallFails, TypeOK, SetsAgree, memberVars, gateVars, userVars, jobVars
<1>6. ASSUME NEW c \in calls, NEW result \in {"Success", "Failed", "Error"}, CheckReply(c, result)
      PROVE  SafeInv'
  <2>1. c \in AsyncGateCheck
    BY <1>6 DEF CheckReply, TypeOK, UserLookup, AsyncGateCheck, Joining, Removing, Updating
  <2>2. Handle({c}, IF result = "Success" THEN {c} ELSE {}, IF result = "Failed" THEN {c} ELSE {})
    BY <1>6 DEF CheckReply
  <2>3. {c} \in SUBSET AsyncGateCheck /\ invited' = invited
    BY <1>6, <2>1 DEF CheckReply
  <2>4. members' \in GroupMembersType /\ SetsAgree' /\ expiring' \subseteq Expiring
    BY <2>2, <2>3, HandleSafe
  <2>5. expireTimer' \in Nat \cup {NoTimer}
    <3>1. expireTimer' = StartJob(expiring', NoTimer)
      BY <1>6 DEF CheckReply, RestartJob
    <3> QED  BY <2>4, <3>1, StartJobIs DEF TypeOK
  <2> QED  BY <1>6, <2>4, <2>5 DEF CheckReply, TypeOK, gateVars, userVars
<1> QED  BY <1>1, <1>2, <1>3, <1>4, <1>5, <1>6 DEF Replies

LEMMA JobSafe ==
    ASSUME GroupAssumption, SafeInv, Jobs
    PROVE  SafeInv'
<1> USE DEF SafeInv
<1>0. MembersOK(members)
  BY DEF TypeOK, SetsAgree, MembersOK
<1>1. ASSUME ExpireMembers PROVE SafeInv'
  <2>1. /\ MembersOK(members') /\ members'.ids = members.ids
        /\ members'.blocked = members.blocked
    <3>1. \/ members' = Lapse(members, {e.user : e \in Due})
          \/ members' = members
      BY <1>1 DEF ExpireMembers
    <3>2. {e.user : e \in Due} \in SUBSET Users
      BY DEF Due, TypeOK, Expiring
    <3> QED  BY <1>0, <3>1, <3>2, LapseOK
  <2>2. expiring' \subseteq Expiring
    <3>1. Expires(gate) => gate.expiry \in Nat
      BY GateExpiry
    <3>2. expiring \subseteq Expiring /\ Requeued \subseteq Expiring
      BY DEF TypeOK, Requeued, Due
    <3>3. CASE Expires(gate)
      <4>1. {[e EXCEPT !.expires = now + gate.expiry] : e \in Requeued} \subseteq Expiring
        BY <3>1, <3>2, <3>3 DEF TypeOK, Expiring
      <4> QED  BY <1>1, <3>2, <3>3, <4>1 DEF ExpireMembers
    <3>4. CASE ~Expires(gate)
      BY <1>1, <3>2, <3>4 DEF ExpireMembers
    <3> QED  BY <3>3, <3>4
  <2>3. actions' \subseteq UserLookup \cup AsyncGateCheck
    <3>1. CASE Expires(gate)
      <4>1. gate.expiry \in Nat
        BY <3>1, GateExpiry
      <4>2. Looked \subseteq Expiring /\ Checked \subseteq Expiring
        BY DEF TypeOK, Looked, Checked, Due
      <4>3. RunActions \subseteq UserLookup \cup AsyncGateCheck
        BY <4>1, <4>2 DEF RunActions, UserLookup, AsyncGateCheck, Expiring
      <4> QED  BY <1>1, <3>1, <4>3 DEF ExpireMembers, TypeOK
    <3>2. CASE ~Expires(gate)
      BY <1>1, <3>2 DEF ExpireMembers, TypeOK
    <3> QED  BY <3>1, <3>2
  <2>4. expireTimer' \in Nat \cup {NoTimer}
    <3>1. expireTimer' = StartJob(expiring', NoTimer)
      BY <1>1 DEF ExpireMembers, RestartJob
    <3> QED  BY <2>2, <3>1, StartJobIs DEF TypeOK
  <2> QED  BY <1>1, <2>1, <2>2, <2>3, <2>4
           DEF ExpireMembers, TypeOK, SetsAgree, MembersOK, gateVars, userVars
<1>2. ASSUME NEW batch \in SUBSET actions, ProcessActions(batch) PROVE SafeInv'
  <2> DEFINE checks == {a \in batch : a.kind = "check"}
             atOnce == {c \in checks : gate # NoGate /\ gate.behaviour = "lookup"}
             sent == {c \in checks : gate # NoGate /\ gate.behaviour # "lookup"}
  <2>1. atOnce \in SUBSET AsyncGateCheck /\ sent \subseteq AsyncGateCheck /\ batch \subseteq actions
    BY DEF TypeOK, UserLookup, AsyncGateCheck
  <2>2. Handle(atOnce, {c \in atOnce : c.user \in cache}, {c \in atOnce : c.user \notin cache})
    BY <1>2 DEF ProcessActions
  <2>3. invited' = invited
    BY <1>2 DEF ProcessActions
  <2>4. members' \in GroupMembersType /\ SetsAgree' /\ expiring' \subseteq Expiring
    BY <2>1, <2>2, <2>3, HandleSafe
  <2>5. expireTimer' \in Nat \cup {NoTimer}
    <3>1. expireTimer' = expireTimer \/ expireTimer' = StartJob(expiring', NoTimer)
      BY <1>2 DEF ProcessActions, RestartJob
    <3>2. StartJob(expiring', NoTimer) \in Nat \cup {NoTimer}
      <4>1. expiring' \subseteq Expiring
        BY <2>4
      <4>2. now \in Nat
        BY DEF TypeOK
      <4> QED  BY <4>1, <4>2, StartJobIs
    <3> QED  BY <3>1, <3>2 DEF TypeOK
  <2>6. calls' = calls \cup sent \cup (batch \ checks) /\ actions' = actions \ batch
    BY <1>2 DEF ProcessActions
  <2> HIDE DEF atOnce, sent, checks
  <2>7. calls' \subseteq calls \cup AsyncGateCheck \cup actions /\ actions' \subseteq actions
    BY <2>1, <2>6
  <2>8. actionTimer' \in BOOLEAN
    BY <1>2 DEF ProcessActions
  <2> QED  BY <1>2, <2>4, <2>5, <2>7, <2>8 DEF ProcessActions, TypeOK, gateVars, userVars
<1> QED  BY <1>1, <1>2 DEF Jobs

LEMMA EnvironmentSafe ==
    ASSUME GroupAssumption, SafeInv, Environment
    PROVE  SafeInv'
<1> USE DEF SafeInv
<1>0. MembersOK(members)
  BY DEF TypeOK, SetsAgree, MembersOK
<1>1. ASSUME NEW u \in Fickle, DiamondEnds(u) \/ DiamondRenewed(u) PROVE SafeInv'
  BY <1>1 DEF DiamondEnds, DiamondRenewed, TypeOK, SetsAgree, GroupAssumption, memberVars, gateVars, jobVars
<1>2. ASSUME NEW u \in Deletable, UserDeleted(u) PROVE SafeInv'
  <2>0. u \in Users
    BY DEF GroupAssumption
  <2>1. /\ MembersOK(members') /\ members'.ids = members.ids \ {u}
        /\ members'.blocked = members.blocked
    <3>1. members' = Remove(members, u)
      BY <1>2 DEF UserDeleted
    <3> QED  BY <1>0, <2>0, <3>1, RemoveOK
  <2>2. /\ expiring' \subseteq Expiring /\ actions' \subseteq UserLookup \cup AsyncGateCheck
        /\ cache' \subseteq Users /\ diamond' \subseteq Users
        /\ expireTimer' \in Nat \cup {NoTimer} /\ actionTimer' \in BOOLEAN
    BY <1>2, <2>0, RemoveUserTypes DEF UserDeleted
  <2> QED  BY <1>2, <2>1, <2>2 DEF UserDeleted, TypeOK, SetsAgree, MembersOK, gateVars
<1>3. ASSUME NEW u \in Suspendable, NEW suspended \in BOOLEAN, SuspendUser(u, suspended) PROVE SafeInv'
  <2>0. u \in Users
    BY DEF GroupAssumption
  <2>1. /\ MembersOK(members') /\ members'.ids = members.ids
        /\ members'.blocked = members.blocked
    <3>1. members' = SetSuspended(members, u, suspended)
      BY <1>3 DEF SuspendUser
    <3> QED  BY <1>0, <2>0, <3>1, SuspendOK
  <2> QED  BY <1>3, <2>1 DEF SuspendUser, TypeOK, SetsAgree, MembersOK, gateVars, userVars, jobVars
<1>4. ASSUME Upgrade PROVE SafeInv'
  <2>1. expireTimer' = StartJob(expiring, NoTimer)
    BY <1>4 DEF Upgrade, RestartJob
  <2>2. expireTimer' \in Nat \cup {NoTimer}
    BY <2>1, StartJobIs DEF TypeOK
  <2> QED  BY <1>4, <2>2 DEF Upgrade, TypeOK, SetsAgree, memberVars, gateVars, userVars
<1>5. ASSUME Tick PROVE SafeInv'
  BY <1>5 DEF Tick, TypeOK, SetsAgree, memberVars, gateVars, userVars, jobVars
<1> QED  BY <1>1, <1>2, <1>3, <1>4, <1>5 DEF Environment

LEMMA StepSafe ==
    ASSUME GroupAssumption, SafeInv, [Next]_vars
    PROVE  SafeInv'
<1>1. CASE Next
  BY <1>1, RequestSafe, ReplySafe, JobSafe, EnvironmentSafe DEF Next
<1>2. CASE UNCHANGED vars
  BY <1>2 DEF vars, SafeInv, TypeOK, SetsAgree
<1> QED  BY <1>1, <1>2

\* Every variable keeps its type.
THEOREM MembershipTypes ==
    ASSUME GroupAssumption
    PROVE  Spec => []TypeOK
<1>1. Init => SafeInv
  BY InitSafe
<1>2. SafeInv /\ [Next]_vars => SafeInv'
  BY StepSafe
<1>3. SafeInv => TypeOK
  BY DEF SafeInv
<1> QED  BY <1>1, <1>2, <1>3, PTL DEF Spec

\* The sets kept beside the members agree with them, and nobody is both in
\* the group and blocked or invited, in every reachable state.
THEOREM MembershipSetsAgree ==
    ASSUME GroupAssumption
    PROVE  Spec => []SetsAgree
<1>1. Init => SafeInv
  BY InitSafe
<1>2. SafeInv /\ [Next]_vars => SafeInv'
  BY StepSafe
<1>3. SafeInv => SetsAgree
  BY DEF SafeInv
<1> QED  BY <1>1, <1>2, <1>3, PTL DEF Spec

-----------------------------------------------------------------------------
(***************************************************************************)
(* Proofs about the expiry of memberships: the jobs wake for everything    *)
(* they have to do, no member is forgotten, and an owner remains.          *)
(***************************************************************************)

------------------------------------------------------------------------------
(* The timer of the heap.  A timer that is already set is left alone when   *)
(* an entry is added, so that JobsWake needs a bound on it: no timer rings, *)
(* and no entry expires, later than an entry made now would.                *)

InTime(heap, timer, g) ==
    IF Expires(g)
    THEN /\ \A e \in heap : e.expires <= now + g.expiry
         /\ timer # NoTimer => timer <= now + g.expiry + Delay
    ELSE heap = {}

Woken(heap, timer) ==
    \A e \in heap : timer # NoTimer /\ (timer <= e.expires + Delay \/ timer <= now)

TimerInv == SafeInv /\ JobsWake /\ InTime(expiring, expireTimer, gate)

LEMMA RestartWakes ==
    ASSUME GroupAssumption, now \in Nat, NEW heap, heap \subseteq Expiring,
           NEW g, IF Expires(g) THEN g.expiry \in Nat /\ \A e \in heap : e.expires <= now + g.expiry
                                ELSE heap = {}
    PROVE  Woken(heap, RestartJob(heap)) /\ InTime(heap, RestartJob(heap), g)
<1>1. Woken(heap, RestartJob(heap))
  <2>1. NoTimer \in Nat \cup {NoTimer}
    OBVIOUS
  <2> QED  BY <2>1, StartJobIs DEF Woken, RestartJob
<1>2. ASSUME Expires(g), RestartJob(heap) # NoTimer
      PROVE  RestartJob(heap) <= now + g.expiry + Delay
  <2>1. heap # {}
    BY <1>2 DEF RestartJob, StartJob
  <2>2. PICK e \in heap : NextExpiry(heap) = e.expires
    BY <2>1, NextExpiryIs
  <2>3. e.expires \in Nat /\ e.expires <= now + g.expiry /\ g.expiry \in Nat /\ Delay \in Nat
    BY <1>2, <2>2 DEF Expiring, GroupAssumption
  <2>4. RestartJob(heap) = IF e.expires + Delay > now THEN e.expires + Delay ELSE now
    BY <2>1, <2>2 DEF RestartJob, StartJob
  <2> QED  BY <2>3, <2>4
<1> QED  BY <1>1, <1>2 DEF InTime

\* An entry added for as long from now as the gate says.
LEMMA StartWakes ==
    ASSUME GroupAssumption, TimerInv, NEW heap, heap \subseteq Expiring,
           \A e \in heap : e \in expiring \/ (Expires(gate) /\ e.expires = now + gate.expiry)
    PROVE  Woken(heap, StartJob(heap, expireTimer)) /\ InTime(heap, StartJob(heap, expireTimer), gate)
<1>1. /\ now \in Nat /\ expireTimer \in Nat \cup {NoTimer} /\ Delay \in Nat
      /\ expiring \subseteq Expiring
  BY DEF TimerInv, SafeInv, TypeOK, GroupAssumption
<1>2. Expires(gate) => gate.expiry \in Nat
  BY GateExpiry DEF TimerInv, SafeInv
<1>3. IF Expires(gate) THEN gate.expiry \in Nat /\ \A e \in heap : e.expires <= now + gate.expiry
                       ELSE heap = {}
  BY <1>1, <1>2 DEF TimerInv, InTime
<1>4. CASE expireTimer = NoTimer
  <2>1. StartJob(heap, expireTimer) = RestartJob(heap)
    BY <1>4 DEF RestartJob
  <2> QED  BY <1>1, <1>3, <2>1, RestartWakes
<1>5. CASE expireTimer # NoTimer
  <2>1. StartJob(heap, expireTimer) = expireTimer
    BY <1>5 DEF StartJob
  <2>2. Woken(expiring, expireTimer)
    BY DEF TimerInv, JobsWake, Woken
  <2>3. Expires(gate) => expireTimer <= now + gate.expiry + Delay
    BY <1>5 DEF TimerInv, InTime
  <2>4. Woken(heap, expireTimer)
    BY <1>1, <1>2, <1>5, <2>2, <2>3 DEF Woken
  <2> QED  BY <1>3, <2>1, <2>3, <2>4 DEF InTime
<1> QED  BY <1>4, <1>5

\* What a check adds to the heap.
LEMMA HandleInTime ==
    ASSUME GroupAssumption, TimerInv, NEW cs \in SUBSET AsyncGateCheck, NEW passing, NEW failing,
           Handle(cs, passing, failing)
    PROVE  IF Expires(gate) THEN gate.expiry \in Nat /\ \A e \in expiring' : e.expires <= now + gate.expiry
                            ELSE expiring' = {}
<1> DEFINE live == {c \in cs : Expires(gate) /\ CanLapse(members, c.user)}
           lapsing == {c \in live : c \in failing /\ Increase(c) = 0}
<1>1. expiring' = expiring \cup
             {[user |-> c.user,
               expires |-> now + (IF c \in passing THEN gate.expiry ELSE Increase(c))] :
                c \in live \ lapsing}
  BY DEF Handle
<1>2. CASE ~Expires(gate)
  BY <1>1, <1>2 DEF TimerInv, InTime
<1>3. CASE Expires(gate)
  <2>1. gate.expiry \in Nat /\ now \in Nat
    BY <1>3, GateExpiry DEF TimerInv, SafeInv, TypeOK
  <2>2. \A c \in cs : Increase(c) \in Nat /\ Increase(c) <= gate.expiry
    BY <2>1 DEF Increase, AsyncGateCheck
  <2>3. \A e \in expiring : e.expires <= now + gate.expiry
    BY <1>3 DEF TimerInv, InTime
  <2>4. \A e \in expiring' : e.expires <= now + gate.expiry
    BY <1>1, <2>1, <2>2, <2>3
  <2> QED  BY <1>3, <2>1, <2>4
<1> QED  BY <1>2, <1>3

\* The steps that leave the timer alone, or only lose entries.
LEMMA FewerWake ==
    ASSUME TimerInv, expiring' \subseteq expiring, expireTimer' = expireTimer, gate' = gate, now' = now
    PROVE  Woken(expiring', expireTimer') /\ InTime(expiring', expireTimer', gate')
  BY DEF TimerInv, JobsWake, Woken, InTime

\* The timer part of a step: what is still to show is that the heap wakes and
\* keeps its bound.
LEMMA WakesNow ==
    ASSUME now' = now, Woken(expiring', expireTimer'),
           InTime(expiring', expireTimer', gate'), actions' # {} => actionTimer'
    PROVE  JobsWake' /\ InTime(expiring, expireTimer, gate)'
  BY DEF JobsWake, Woken, InTime, Expires

LEMMA JoinWakes ==
    ASSUME GroupAssumption, TimerInv, NEW u \in Users, JoinCommit(u), calls' \subseteq calls
    PROVE  JobsWake' /\ InTime(expiring, expireTimer, gate)'
<1>1. SafeInv'
  BY JoinCommitSafe DEF TimerInv
<1>2. expiring' \subseteq Expiring
  BY <1>1 DEF SafeInv, TypeOK
<1>3. \A e \in expiring' : e \in expiring \/ (Expires(gate) /\ e.expires = now + gate.expiry)
  <2>1. CASE Expires(gate)
    <3>1. expiring' = expiring \cup {[user |-> u, expires |-> now + gate.expiry]}
      BY <2>1 DEF JoinCommit
    <3> QED  BY <2>1, <3>1
  <2>2. CASE ~Expires(gate)
    <3>1. expiring' = expiring
      BY <2>2 DEF JoinCommit
    <3> QED  BY <3>1
  <2> QED  BY <2>1, <2>2
<1>4. /\ expireTimer' = StartJob(expiring', expireTimer) /\ gate' = gate /\ now' = now
      /\ actions' = actions /\ actionTimer' = actionTimer
  BY DEF JoinCommit, gateVars
<1>5. Woken(expiring', expireTimer') /\ InTime(expiring', expireTimer', gate')
  BY <1>2, <1>3, <1>4, StartWakes
<1> QED  BY <1>4, <1>5, WakesNow DEF TimerInv, JobsWake

LEMMA RemoveUserWakes ==
    ASSUME GroupAssumption, TimerInv, NEW u \in Users, RemoveUser(u), gate' = gate, now' = now
    PROVE  JobsWake' /\ InTime(expiring, expireTimer, gate)'
<1>1. /\ expiring' \subseteq expiring /\ expireTimer' = expireTimer
      /\ actions' \subseteq actions /\ actionTimer' = actionTimer
  BY DEF RemoveUser, Without
<1>2. Woken(expiring', expireTimer') /\ InTime(expiring', expireTimer', gate')
  BY <1>1, FewerWake
<1> QED  BY <1>1, <1>2, WakesNow DEF TimerInv, JobsWake

LEMMA StillWake ==
    ASSUME TimerInv, UNCHANGED <<expiring, expireTimer, actions, actionTimer, gate, now>>
    PROVE  JobsWake' /\ InTime(expiring, expireTimer, gate)'
  BY DEF TimerInv, JobsWake, InTime, Expires

LEMMA RemoveCommitWakes ==
    ASSUME GroupAssumption, TimerInv, NEW by, NEW u \in Users, NEW block, NEW remove,
           RemoveCommit(by, u, block, remove)
    PROVE  JobsWake' /\ InTime(expiring, expireTimer, gate)'
<1>1. gate' = gate /\ now' = now
  BY DEF RemoveCommit, gateVars
<1>2. CASE remove
  BY <1>1, <1>2, RemoveUserWakes DEF RemoveCommit
<1>3. CASE ~remove
  BY <1>1, <1>3, StillWake DEF RemoveCommit, jobVars
<1> QED  BY <1>2, <1>3

LEMMA RequestWakes ==
    ASSUME GroupAssumption, TimerInv, Requests
    PROVE  JobsWake' /\ InTime(expiring, expireTimer, gate)'
<1> DEFINE Goal == JobsWake' /\ InTime(expiring, expireTimer, gate)'
<1>1. ASSUME NEW u \in Users, Join(u) PROVE Goal
  BY <1>1, JoinWakes DEF Join
<1>2. ASSUME NEW u \in Users, JoinSend(u) PROVE Goal
  BY <1>2, StillWake DEF JoinSend, gateVars, jobVars
<1>3. ASSUME NEW u \in Users, LeaveGroup(u) PROVE Goal
  BY <1>3, RemoveUserWakes DEF LeaveGroup, gateVars
<1>4. ASSUME NEW by \in Initiators, NEW u \in Users, NEW role \in NewRoles, ChangeRoleOf(by, u, role)
      PROVE  Goal
  <2>1. expiring' \subseteq Expiring
    BY <1>4, RequestSafe DEF TimerInv, SafeInv, TypeOK
  <2>2. \A e \in expiring' : e \in expiring \/ (Expires(gate) /\ e.expires = now + gate.expiry)
    <3>1. \/ expiring' \subseteq expiring
          \/ Expires(gate) /\ expiring' = expiring \cup {[user |-> u, expires |-> now + gate.expiry]}
      BY <1>4 DEF ChangeRoleOf, Without
    <3> QED  BY <3>1
  <2>3. /\ expireTimer' = StartJob(expiring', expireTimer) /\ gate' = gate /\ now' = now
        /\ actions' = actions /\ actionTimer' = actionTimer
    BY <1>4 DEF ChangeRoleOf, gateVars
  <2>4. Woken(expiring', expireTimer') /\ InTime(expiring', expireTimer', gate')
    BY <2>1, <2>2, <2>3, StartWakes
  <2> QED  BY <2>3, <2>4, WakesNow DEF TimerInv, JobsWake
<1>5. ASSUME NEW by \in Initiators, NEW u \in Users, NEW block \in BOOLEAN, RemoveMember(by, u, block)
      PROVE  Goal
  BY <1>5, RemoveCommitWakes DEF RemoveMember
<1>6. ASSUME NEW by \in Initiators, NEW u \in Users, NEW block \in BOOLEAN, RemoveOwnerSend(by, u, block)
      PROVE  Goal
  BY <1>6, StillWake DEF RemoveOwnerSend, gateVars, jobVars
<1>7. ASSUME NEW by \in Users, NEW u \in Users, UnblockUser(by, u) PROVE Goal
  BY <1>7, StillWake DEF UnblockUser, gateVars, jobVars
<1>8. ASSUME NEW by \in Users, NEW u \in Invitable, InviteUser(by, u) \/ CancelInvite(by, u)
      PROVE  Goal
  BY <1>8, StillWake DEF InviteUser, CancelInvite, gateVars, jobVars
<1>9. ASSUME NEW by \in Users, NEW g \in Gates \cup {NoGate}, UpdateSend(by, g) PROVE Goal
  BY <1>9, StillWake DEF UpdateSend, jobVars
<1> QED  BY <1>1, <1>2, <1>3, <1>4, <1>5, <1>6, <1>7, <1>8, <1>9 DEF Requests

LEMMA ReplyWakes ==
    ASSUME GroupAssumption, TimerInv, Replies
    PROVE  JobsWake' /\ InTime(expiring, expireTimer, gate)'
<1> DEFINE Goal == JobsWake' /\ InTime(expiring, expireTimer, gate)'
<1>0. SafeInv /\ SafeInv' /\ TypeOK /\ expiring' \subseteq Expiring /\ now \in Nat
  BY ReplySafe DEF TimerInv, SafeInv, TypeOK
<1>1. ASSUME NEW c \in calls, JoinPasses(c) PROVE Goal
  <2>1. c.user \in Users
    BY <1>0, <1>1 DEF JoinPasses, TypeOK, UserLookup, AsyncGateCheck, Joining, Removing, Updating
  <2>2. JoinCommit(c.user) /\ calls' \subseteq calls
    BY <1>1 DEF JoinPasses
  <2> QED  BY <2>1, <2>2, JoinWakes
<1>2. ASSUME NEW c \in calls, RemoveOwner(c) PROVE Goal
  <2>1. c.user \in Users
    BY <1>0, <1>2 DEF RemoveOwner, TypeOK, UserLookup, AsyncGateCheck, Joining, Removing, Updating
  <2>2. RemoveCommit(c.by, c.user, c.block, TRUE)
    BY <1>2 DEF RemoveOwner
  <2> QED  BY <2>1, <2>2, RemoveCommitWakes
<1>3. ASSUME NEW c \in calls, UpdateCommit(c) PROVE Goal
  <2>1. Expires(gate') => gate'.expiry \in Nat
    <3>1. gate' \in Gates \cup {NoGate}
      BY <1>0 DEF SafeInv, TypeOK
    <3> QED  BY <3>1 DEF Expires, Gates, GroupAssumption
  <2>2. Expires(gate) => gate.expiry \in Nat
    BY <1>0, GateExpiry
  <2>3. IF Expires(gate') THEN gate'.expiry \in Nat /\ \A e \in expiring' : e.expires <= now + gate'.expiry
                          ELSE expiring' = {}
    <3>1. CASE Expires(gate) /\ Expires(gate')
      <4>1. expiring' = Shifted(expiring, gate.expiry, gate'.expiry)
        BY <1>3, <3>1 DEF UpdateCommit
      <4>2. \A e \in expiring : e \in Expiring /\ e.expires \in Nat /\ e.expires <= now + gate.expiry
        BY <1>0, <3>1 DEF TimerInv, InTime, TypeOK, Expiring
      <4>3. \A e \in expiring' : e.expires <= now + gate'.expiry
        <5>1. SUFFICES ASSUME NEW d \in expiring' PROVE d.expires <= now + gate'.expiry
          OBVIOUS
        <5>2. PICK e \in expiring : d = [e EXCEPT !.expires =
                  IF e.expires + gate'.expiry >= gate.expiry THEN e.expires + gate'.expiry - gate.expiry ELSE 0]
          BY <4>1, <5>1 DEF Shifted
        <5>3. d.expires = IF e.expires + gate'.expiry >= gate.expiry
                          THEN e.expires + gate'.expiry - gate.expiry ELSE 0
          BY <4>2, <5>2 DEF Expiring
        <5> QED  BY <1>0, <2>1, <2>2, <3>1, <4>2, <5>3
      <4> QED  BY <2>1, <3>1, <4>3
    <3>2. CASE ~Expires(gate) /\ Expires(gate')
      <4>1. expiring = {}
        BY <3>2 DEF TimerInv, InTime
      <4>2. expiring' = expiring \cup {[user |-> u, expires |-> now + gate'.expiry] :
                                         u \in {v \in Users : CanLapse(members, v)}}
        BY <1>3, <3>2 DEF UpdateCommit
      <4> QED  BY <1>0, <2>1, <3>2, <4>1, <4>2
    <3>3. CASE ~Expires(gate')
      BY <1>3, <3>3 DEF UpdateCommit, TimerInv, InTime
    <3> QED  BY <3>1, <3>2, <3>3
  <2>4. expireTimer' = RestartJob(expiring') /\ now' = now
    BY <1>3 DEF UpdateCommit
  <2>5. Woken(expiring', expireTimer') /\ InTime(expiring', expireTimer', gate')
    BY <1>0, <2>3, <2>4, RestartWakes
  <2>6. actions' # {} => actionTimer'
    BY <1>3 DEF UpdateCommit, TimerInv, JobsWake
  <2> QED  BY <2>4, <2>5, <2>6, WakesNow
<1>4. ASSUME NEW c \in calls, LookupReply(c) PROVE Goal
  BY <1>4, StillWake DEF LookupReply, gateVars, jobVars
<1>5. ASSUME NEW c \in calls, CallFails(c) PROVE Goal
  BY <1>5, StillWake DEF CallFails, gateVars, jobVars
<1>6. ASSUME NEW c \in calls, NEW result \in {"Success", "Failed", "Error"}, CheckReply(c, result)
      PROVE  Goal
  <2>1. {c} \in SUBSET AsyncGateCheck
    BY <1>0, <1>6 DEF CheckReply, TypeOK, UserLookup, AsyncGateCheck, Joining, Removing, Updating
  <2>2. Handle({c}, IF result = "Success" THEN {c} ELSE {}, IF result = "Failed" THEN {c} ELSE {})
    BY <1>6 DEF CheckReply
  <2>3. IF Expires(gate) THEN gate.expiry \in Nat /\ \A e \in expiring' : e.expires <= now + gate.expiry
                         ELSE expiring' = {}
    BY <2>1, <2>2, HandleInTime
  <2>4. /\ expireTimer' = RestartJob(expiring') /\ gate' = gate /\ now' = now
        /\ actions' = actions /\ actionTimer' = actionTimer
    BY <1>6 DEF CheckReply, gateVars
  <2>5. Woken(expiring', expireTimer') /\ InTime(expiring', expireTimer', gate')
    BY <1>0, <2>3, <2>4, RestartWakes
  <2> QED  BY <2>4, <2>5, WakesNow DEF TimerInv, JobsWake
<1> QED  BY <1>1, <1>2, <1>3, <1>4, <1>5, <1>6 DEF Replies

LEMMA JobWakes ==
    ASSUME GroupAssumption, TimerInv, Jobs
    PROVE  JobsWake' /\ InTime(expiring, expireTimer, gate)'
<1> DEFINE Goal == JobsWake' /\ InTime(expiring, expireTimer, gate)'
<1>0. SafeInv /\ SafeInv' /\ TypeOK /\ expiring' \subseteq Expiring /\ now \in Nat
  BY JobSafe DEF TimerInv, SafeInv, TypeOK
<1>1. ASSUME ExpireMembers PROVE Goal
  <2>1. IF Expires(gate) THEN gate.expiry \in Nat /\ \A e \in expiring' : e.expires <= now + gate.expiry
                         ELSE expiring' = {}
    <3>1. CASE Expires(gate)
      <4>1. gate.expiry \in Nat
        BY <1>0, <3>1, GateExpiry
      <4>2. \A e \in expiring : e \in Expiring /\ e.expires <= now + gate.expiry
        BY <1>0, <3>1 DEF TimerInv, InTime, TypeOK
      <4>3. expiring' = (expiring \ Due) \cup {[e EXCEPT !.expires = now + gate.expiry] : e \in Requeued}
        BY <1>1, <3>1 DEF ExpireMembers
      <4>4. \A e \in Requeued : e \in Expiring
        BY <4>2 DEF Requeued, Due
      <4>5. \A e \in expiring' : e.expires <= now + gate.expiry
        BY <1>0, <4>1, <4>2, <4>3, <4>4 DEF Expiring
      <4> QED  BY <3>1, <4>1, <4>5
    <3>2. CASE ~Expires(gate)
      BY <1>1, <3>2 DEF ExpireMembers, TimerInv, InTime
    <3> QED  BY <3>1, <3>2
  <2>2. expireTimer' = RestartJob(expiring') /\ gate' = gate /\ now' = now
    BY <1>1 DEF ExpireMembers, gateVars
  <2>3. Woken(expiring', expireTimer') /\ InTime(expiring', expireTimer', gate')
    BY <1>0, <2>1, <2>2, RestartWakes
  <2>4. actions' # {} => actionTimer'
    BY <1>1 DEF ExpireMembers
  <2> QED  BY <2>2, <2>3, <2>4, WakesNow
<1>2. ASSUME NEW batch \in SUBSET actions, ProcessActions(batch) PROVE Goal
  <2> DEFINE checks == {a \in batch : a.kind = "check"}
             atOnce == {c \in checks : gate # NoGate /\ gate.behaviour = "lookup"}
  <2>1. atOnce \in SUBSET AsyncGateCheck
    BY <1>0 DEF TypeOK, UserLookup, AsyncGateCheck
  <2>2. Handle(atOnce, {c \in atOnce : c.user \in cache}, {c \in atOnce : c.user \notin cache})
    BY <1>2 DEF ProcessActions
  <2>3. /\ expireTimer' = IF atOnce = {} THEN expireTimer ELSE RestartJob(expiring')
        /\ gate' = gate /\ now' = now /\ actionTimer' = (actions' # {})
    BY <1>2 DEF ProcessActions, gateVars
  <2> HIDE DEF atOnce
  <2>4. IF Expires(gate) THEN gate.expiry \in Nat /\ \A e \in expiring' : e.expires <= now + gate.expiry
                         ELSE expiring' = {}
    BY <2>1, <2>2, HandleInTime
  <2>5. Woken(expiring', expireTimer') /\ InTime(expiring', expireTimer', gate')
    <3>1. CASE atOnce = {}
      <4>1. expiring' = expiring
        BY <2>2, <3>1 DEF Handle
      <4> QED  BY <2>3, <3>1, <4>1, FewerWake
    <3>2. CASE atOnce # {}
      BY <1>0, <2>3, <2>4, <3>2, RestartWakes
    <3> QED  BY <3>1, <3>2
  <2> QED  BY <2>3, <2>5, WakesNow
<1> QED  BY <1>1, <1>2 DEF Jobs

LEMMA EnvironmentWakes ==
    ASSUME GroupAssumption, TimerInv, Environment
    PROVE  JobsWake' /\ InTime(expiring, expireTimer, gate)'
<1> DEFINE Goal == JobsWake' /\ InTime(expiring, expireTimer, gate)'
<1>0. TypeOK /\ expiring \subseteq Expiring /\ now \in Nat /\ expireTimer \in Nat \cup {NoTimer}
  BY DEF TimerInv, SafeInv, TypeOK
<1>0a. Expires(gate) => gate.expiry \in Nat
  BY <1>0, GateExpiry
<1>1. ASSUME NEW u \in Fickle, DiamondEnds(u) \/ DiamondRenewed(u) PROVE Goal
  BY <1>1, StillWake DEF DiamondEnds, DiamondRenewed, gateVars, jobVars
<1>2. ASSUME NEW u \in Deletable, UserDeleted(u) PROVE Goal
  BY <1>2, RemoveUserWakes DEF UserDeleted, gateVars, GroupAssumption
<1>3. ASSUME NEW u \in Suspendable, NEW suspended \in BOOLEAN, SuspendUser(u, suspended) PROVE Goal
  BY <1>3, StillWake DEF SuspendUser, gateVars, jobVars
<1>4. ASSUME Upgrade PROVE Goal
  <2>1. /\ expireTimer' = RestartJob(expiring') /\ expiring' = expiring /\ gate' = gate /\ now' = now
        /\ actionTimer' = (actions' # {})
    BY <1>4 DEF Upgrade, gateVars
  <2>2. IF Expires(gate) THEN gate.expiry \in Nat /\ \A e \in expiring : e.expires <= now + gate.expiry
                         ELSE expiring = {}
    BY <1>0a DEF TimerInv, InTime
  <2>3. Woken(expiring', expireTimer') /\ InTime(expiring', expireTimer', gate')
    BY <1>0, <2>1, <2>2, RestartWakes
  <2> QED  BY <2>1, <2>3, WakesNow
<1>5. ASSUME Tick PROVE Goal
  <2>1. /\ now' = now + 1 /\ gate' = gate
        /\ UNCHANGED <<expiring, expireTimer, actions, actionTimer>>
    BY <1>5 DEF Tick, gateVars, jobVars
  <2>2. NoTimer \notin Nat /\ Delay \in Nat
    BY DEF GroupAssumption
  <2>3. JobsWake'
    BY <1>0, <2>1, <2>2 DEF TimerInv, JobsWake, Expiring
  <2>4. CASE Expires(gate)
    <3>1. \A e \in expiring : e.expires \in Nat /\ e.expires <= now + gate.expiry
      BY <1>0, <2>4 DEF TimerInv, InTime, Expiring
    <3>2. expireTimer # NoTimer => expireTimer <= now + gate.expiry + Delay
      BY <2>4 DEF TimerInv, InTime
    <3> QED  BY <1>0, <1>0a, <2>1, <2>2, <2>3, <2>4, <3>1, <3>2 DEF InTime, Expires
  <2>5. CASE ~Expires(gate)
    BY <2>1, <2>3, <2>5 DEF TimerInv, InTime, Expires
  <2> QED  BY <2>4, <2>5
<1> QED  BY <1>1, <1>2, <1>3, <1>4, <1>5 DEF Environment

\* The jobs wake for everything they have to do.
THEOREM MembershipJobsWake ==
    ASSUME GroupAssumption
    PROVE  Spec => []JobsWake
<1>1. Init => TimerInv
  BY InitSafe DEF Init, TimerInv, JobsWake, InTime
<1>2. TimerInv /\ [Next]_vars => TimerInv'
  <2>1. SUFFICES ASSUME TimerInv, [Next]_vars PROVE TimerInv'
    OBVIOUS
  <2>2. SafeInv'
    BY <2>1, StepSafe DEF TimerInv
  <2>3. CASE Next
    BY <2>1, <2>2, <2>3, RequestWakes, ReplyWakes, JobWakes, EnvironmentWakes DEF Next, TimerInv
  <2>4. CASE UNCHANGED vars
    BY <2>1, <2>2, <2>4, StillWake DEF vars, TimerInv
  <2> QED  BY <2>1, <2>3, <2>4
<1>3. TimerInv => JobsWake
  BY DEF TimerInv
<1> QED  BY <1>1, <1>2, <1>3, PTL DEF Spec

------------------------------------------------------------------------------
(* No member is forgotten.                                                  *)

CheckedInv == SafeInv /\ ChecksScheduled

\* Nobody is to be checked who was not, and nobody's check is lost.
LEMMA StillChecked ==
    ASSUME CheckedInv, gate' = gate,
           \A u \in Users : CanLapse(members', u) =>
              \/ CanLapse(members, u) /\ (ToBeChecked(u) => ToBeChecked(u)')
              \/ ToBeChecked(u)'
    PROVE  ChecksScheduled'
<1>1. SUFFICES ASSUME Expires(gate)', NEW u \in Users, CanLapse(members, u)'
               PROVE  ToBeChecked(u)'
  BY DEF ChecksScheduled
<1>2. Expires(gate) /\ CanLapse(members', u)
  BY <1>1 DEF Expires, CanLapse
<1> QED  BY <1>2 DEF CheckedInv, ChecksScheduled

\* What is in the heap, the queue or in flight stays there.
LEMMA KeptChecked ==
    ASSUME CheckedInv, gate' = gate, expiring \subseteq expiring', actions \subseteq actions',
           \A c \in calls : c.kind = "check" => c \in calls',
           members'.ids = members.ids, members'.owners = members.owners, members'.lapsed = members.lapsed
    PROVE  ChecksScheduled'
<1>1. \A u \in Users : CanLapse(members', u) => CanLapse(members, u)
  BY DEF CanLapse
<1>2. \A u \in Users : ToBeChecked(u) => ToBeChecked(u)'
  BY DEF ToBeChecked
<1> QED  BY <1>1, <1>2, StillChecked

\* Whoever leaves the group leaves the schedule, and nobody else does.
LEMMA LeaverChecked ==
    ASSUME CheckedInv, gate' = gate, calls' = calls \/ (\E c \in calls : c.kind # "check" /\ calls' = calls \ {c}),
           NEW u \in Users, members' = Remove(members, u) \/ members' = Block(Remove(members, u), u),
           RemoveUser(u)
    PROVE  ChecksScheduled'
<1>1. MembersOK(members)
  BY DEF CheckedInv, SafeInv, TypeOK, SetsAgree, MembersOK
<1>2. /\ MembersOK(Remove(members, u))
      /\ Remove(members, u).ids = members.ids \ {u} /\ Remove(members, u).owners = members.owners \ {u}
      /\ Remove(members, u).lapsed = members.lapsed \ {u}
  BY <1>1, RemoveOK
<1>3. /\ Block(Remove(members, u), u).ids = Remove(members, u).ids
      /\ Block(Remove(members, u), u).owners = Remove(members, u).owners
      /\ Block(Remove(members, u), u).lapsed = Remove(members, u).lapsed
  BY <1>2, BlockOK
<1>4. /\ members'.ids = members.ids \ {u} /\ members'.owners = members.owners \ {u}
      /\ members'.lapsed = members.lapsed \ {u}
  BY <1>2, <1>3
<1>5. \A v \in Users : CanLapse(members', v) => v # u /\ CanLapse(members, v)
  BY <1>4 DEF CanLapse
<1>6. \A v \in Users : v # u /\ ToBeChecked(v) => ToBeChecked(v)'
  BY DEF ToBeChecked, RemoveUser, Without
<1> QED  BY <1>5, <1>6, StillChecked

LEMMA RemoveCommitChecked ==
    ASSUME GroupAssumption, CheckedInv, NEW by, NEW u \in Users, NEW block \in BOOLEAN, NEW remove,
           RemoveCommit(by, u, block, remove), ~remove => u \notin DOMAIN members.map,
           calls' = calls \/ (\E c \in calls : c.kind # "check" /\ calls' = calls \ {c})
    PROVE  ChecksScheduled'
<1>1. gate' = gate
  BY DEF RemoveCommit, gateVars
<1>2. members' = Remove(members, u) \/ members' = Block(Remove(members, u), u)
  BY DEF RemoveCommit
<1>3. CASE remove
  BY <1>1, <1>2, <1>3, LeaverChecked DEF RemoveCommit
<1>4. CASE ~remove
  <2>1. Remove(members, u) = members
    BY <1>4 DEF Remove
  <2>2. /\ members'.ids = members.ids /\ members'.owners = members.owners
        /\ members'.lapsed = members.lapsed
    <3>1. MembersOK(members)
      BY DEF CheckedInv, SafeInv, TypeOK, SetsAgree, MembersOK
    <3>2. /\ Block(members, u).ids = members.ids /\ Block(members, u).owners = members.owners
          /\ Block(members, u).lapsed = members.lapsed
      BY <3>1, BlockOK
    <3> QED  BY <1>2, <2>1, <3>2
  <2>3. expiring' = expiring /\ actions' = actions
    BY <1>4 DEF RemoveCommit, jobVars
  <2> QED  BY <1>1, <2>2, <2>3, KeptChecked
<1> QED  BY <1>3, <1>4

LEMMA JoinChecked ==
    ASSUME GroupAssumption, CheckedInv, NEW u \in Users, JoinCommit(u),
           calls' = calls \/ (\E c \in calls : c.kind # "check" /\ calls' = calls \ {c})
    PROVE  ChecksScheduled'
<1> DEFINE unblocked == IF u \in Moderators THEN Unblock(members, u) ELSE members
           result == AddResult(unblocked, u)
<1>1. /\ MembersOK(unblocked) /\ unblocked.ids = members.ids
      /\ unblocked.owners = members.owners /\ unblocked.lapsed = members.lapsed
  <2>1. MembersOK(members)
    BY DEF CheckedInv, SafeInv, TypeOK, SetsAgree, MembersOK
  <2>2. CASE u \in Moderators
    <3>1. unblocked = Unblock(members, u)
      BY <2>2
    <3>2. /\ MembersOK(Unblock(members, u)) /\ Unblock(members, u).ids = members.ids
          /\ Unblock(members, u).owners = members.owners /\ Unblock(members, u).lapsed = members.lapsed
      BY <2>1, BlockOK
    <3> HIDE DEF unblocked
    <3> QED  BY <3>1, <3>2
  <2>3. CASE u \notin Moderators
    BY <2>1, <2>3
  <2> QED  BY <2>2, <2>3
<1>2. members' = CASE result = "Success"        -> Add(unblocked, u)
                   [] result = "AlreadyInGroup" -> Unlapse(unblocked, {u})
                   [] OTHER                     -> unblocked
  BY DEF JoinCommit, unblocked
<1>3. result = "Success" => u \notin unblocked.ids
  BY DEF AddResult
<1> HIDE DEF unblocked, result
<1>4. \A v \in Users : CanLapse(members', v) /\ v # u => CanLapse(members, v)
  <2>1. CASE result = "Success"
    <3>1. members' = Add(unblocked, u)
      BY <1>2, <2>1
    <3>2. /\ Add(unblocked, u).ids = unblocked.ids \cup {u} /\ Add(unblocked, u).owners = unblocked.owners
          /\ Add(unblocked, u).lapsed = unblocked.lapsed
      BY <1>1, <1>3, <2>1, AddOK
    <3> QED  BY <1>1, <3>1, <3>2 DEF CanLapse
  <2>2. CASE result = "AlreadyInGroup"
    <3>1. members' = Unlapse(unblocked, {u})
      BY <1>2, <2>2
    <3>2. /\ Unlapse(unblocked, {u}).ids = unblocked.ids
          /\ Unlapse(unblocked, {u}).owners = unblocked.owners
          /\ Unlapse(unblocked, {u}).lapsed = unblocked.lapsed \ {u}
      BY <1>1, UnlapseOK
    <3> QED  BY <1>1, <3>1, <3>2 DEF CanLapse
  <2>3. CASE result \notin {"Success", "AlreadyInGroup"}
    BY <1>1, <1>2, <2>3 DEF CanLapse
  <2> QED  BY <2>1, <2>2, <2>3
<1>5. gate' = gate /\ expiring \subseteq expiring' /\ actions' = actions
  BY DEF JoinCommit, gateVars
<1>6. \A v \in Users : ToBeChecked(v) => ToBeChecked(v)'
  BY <1>5 DEF ToBeChecked
<1>7. Expires(gate) => ToBeChecked(u)'
  <2>1. Expires(gate) => [user |-> u, expires |-> now + gate.expiry] \in expiring'
    BY DEF JoinCommit
  <2>2. [user |-> u, expires |-> now + gate.expiry].user = u
    OBVIOUS
  <2> QED  BY <2>1, <2>2 DEF ToBeChecked
<1>8. CASE Expires(gate)
  BY <1>4, <1>5, <1>6, <1>7, <1>8, StillChecked
<1>9. CASE ~Expires(gate)
  BY <1>5, <1>9 DEF ChecksScheduled, Expires
<1> QED  BY <1>8, <1>9

LEMMA RequestChecked ==
    ASSUME GroupAssumption, CheckedInv, Requests
    PROVE  ChecksScheduled'
<1>0. MembersOK(members)
  BY DEF CheckedInv, SafeInv, TypeOK, SetsAgree, MembersOK
<1>1. ASSUME NEW u \in Users, Join(u) PROVE ChecksScheduled'
  BY <1>1, JoinChecked DEF Join
<1>2. ASSUME NEW u \in Users, JoinSend(u) PROVE ChecksScheduled'
  BY <1>2, KeptChecked DEF JoinSend, memberVars, gateVars, jobVars
<1>3. ASSUME NEW u \in Users, LeaveGroup(u) PROVE ChecksScheduled'
  BY <1>3, LeaverChecked DEF LeaveGroup, gateVars
<1>4. ASSUME NEW by \in Initiators, NEW u \in Users, NEW role \in NewRoles, ChangeRoleOf(by, u, role)
      PROVE  ChecksScheduled'
  <2>1. u \in DOMAIN members.map /\ role \in Roles
    BY <1>4 DEF ChangeRoleOf, CanChangeRole, GroupAssumption
  <2>2. /\ ChangeRole(members, u, role).ids = members.ids
        /\ role = "owner" => /\ ChangeRole(members, u, role).owners = members.owners \cup {u}
                             /\ ChangeRole(members, u, role).lapsed = members.lapsed \ {u}
        /\ role # "owner" => /\ ChangeRole(members, u, role).owners = members.owners \ {u}
                             /\ ChangeRole(members, u, role).lapsed = members.lapsed
    BY <1>0, <2>1, ChangeRoleOK
  <2>3. members' = ChangeRole(members, u, role) /\ gate' = gate /\ calls' = calls /\ actions' = actions
    BY <1>4 DEF ChangeRoleOf, gateVars
  <2>4. members.map[u].role = "owner" <=> u \in members.owners
    BY <1>0, <2>1 DEF MembersOK, MembersAgree
  <2>5. CASE ~Expires(gate)
    BY <2>3, <2>5 DEF ChecksScheduled, Expires
  <2>6. CASE Expires(gate) /\ role = "owner"
    <3>1. expiring' = Without(expiring, u)
      BY <1>4, <2>6 DEF ChangeRoleOf
    <3>2. \A v \in Users : CanLapse(members', v) => v # u /\ CanLapse(members, v)
      BY <2>2, <2>3, <2>6 DEF CanLapse
    <3>3. \A v \in Users : v # u /\ ToBeChecked(v) => ToBeChecked(v)'
      BY <2>3, <3>1 DEF ToBeChecked, Without
    <3> QED  BY <2>3, <3>2, <3>3, StillChecked
  <2>7. CASE Expires(gate) /\ role # "owner"
    <3>1. expiring \subseteq expiring'
      BY <1>4, <2>7 DEF ChangeRoleOf
    <3>2. \A v \in Users : ToBeChecked(v) => ToBeChecked(v)'
      BY <2>3, <3>1 DEF ToBeChecked
    <3>3. u \in members.owners => ToBeChecked(u)'
      <4>1. u \in members.owners => [user |-> u, expires |-> now + gate.expiry] \in expiring'
        BY <1>4, <2>4, <2>7 DEF ChangeRoleOf
      <4>2. [user |-> u, expires |-> now + gate.expiry].user = u
        OBVIOUS
      <4> QED  BY <4>1, <4>2 DEF ToBeChecked
    <3>4. \A v \in Users : CanLapse(members', v) =>
             CanLapse(members, v) \/ (v = u /\ u \in members.owners)
      BY <2>2, <2>3, <2>7 DEF CanLapse
    <3> QED  BY <2>3, <3>2, <3>3, <3>4, StillChecked
  <2> QED  BY <2>5, <2>6, <2>7
<1>5. ASSUME NEW by \in Initiators, NEW u \in Users, NEW block \in BOOLEAN, RemoveMember(by, u, block)
      PROVE  ChecksScheduled'
  BY <1>5, RemoveCommitChecked DEF RemoveMember
<1>6. ASSUME NEW by \in Initiators, NEW u \in Users, NEW block \in BOOLEAN, RemoveOwnerSend(by, u, block)
      PROVE  ChecksScheduled'
  BY <1>6, KeptChecked DEF RemoveOwnerSend, memberVars, gateVars, jobVars
<1>7. ASSUME NEW by \in Users, NEW u \in Users, UnblockUser(by, u) PROVE ChecksScheduled'
  <2>1. /\ Unblock(members, u).ids = members.ids /\ Unblock(members, u).owners = members.owners
        /\ Unblock(members, u).lapsed = members.lapsed
    BY <1>0, BlockOK
  <2> QED  BY <1>7, <2>1, KeptChecked DEF UnblockUser, gateVars, jobVars
<1>8. ASSUME NEW by \in Users, NEW u \in Invitable, InviteUser(by, u) \/ CancelInvite(by, u)
      PROVE  ChecksScheduled'
  BY <1>8, KeptChecked DEF InviteUser, CancelInvite, gateVars, jobVars
<1>9. ASSUME NEW by \in Users, NEW g \in Gates \cup {NoGate}, UpdateSend(by, g) PROVE ChecksScheduled'
  BY <1>9, KeptChecked DEF UpdateSend, memberVars, jobVars
<1> QED  BY <1>1, <1>2, <1>3, <1>4, <1>5, <1>6, <1>7, <1>8, <1>9 DEF Requests

\* Whoever's check was made has lapsed, may not lapse, or is in the heap again.
LEMMA HandleChecked ==
    ASSUME GroupAssumption, CheckedInv, NEW cs \in SUBSET AsyncGateCheck, NEW passing, NEW failing,
           Handle(cs, passing, failing), Expires(gate), NEW u \in Users, CanLapse(members', u)
    PROVE  /\ CanLapse(members, u) /\ expiring \subseteq expiring'
           /\ (\E c \in cs : c.user = u) => \E e \in expiring' : e.user = u
<1> DEFINE live == {c \in cs : Expires(gate) /\ CanLapse(members, c.user)}
           lapsing == {c \in live : c \in failing /\ Increase(c) = 0}
           us == {c.user : c \in lapsing}
<1>0. MembersOK(members)
  BY DEF CheckedInv, SafeInv, TypeOK, SetsAgree, MembersOK
<1>1. us \in SUBSET Users
  BY DEF AsyncGateCheck
<1>2. members' = Lapse(members, us)
  BY DEF Handle
<1>3. expiring' = expiring \cup
             {[user |-> c.user,
               expires |-> now + (IF c \in passing THEN gate.expiry ELSE Increase(c))] :
                c \in live \ lapsing}
  BY DEF Handle
<1> HIDE DEF us
<1>4. /\ Lapse(members, us).ids = members.ids /\ Lapse(members, us).owners = members.owners
      /\ Lapse(members, us).lapsed = members.lapsed \cup {v \in us : CanLapse(members, v)}
  BY <1>0, <1>1, LapseOK
<1>5. CanLapse(members, u) /\ u \notin us
  BY <1>2, <1>4 DEF CanLapse
<1>6. ASSUME NEW c \in cs, c.user = u PROVE \E e \in expiring' : e.user = u
  <2>1. c \in live \ lapsing
    BY <1>5, <1>6 DEF us
  <2> DEFINE e == [user |-> c.user,
                   expires |-> now + (IF c \in passing THEN gate.expiry ELSE Increase(c))]
  <2>2. e \in expiring' /\ e.user = u
    BY <1>3, <1>6, <2>1
  <2> QED  BY <2>2
<1> QED  BY <1>3, <1>5, <1>6

LEMMA ReplyChecked ==
    ASSUME GroupAssumption, CheckedInv, Replies
    PROVE  ChecksScheduled'
<1>0. MembersOK(members) /\ TypeOK
  BY DEF CheckedInv, SafeInv, TypeOK, SetsAgree, MembersOK
<1>1. ASSUME NEW c \in calls, JoinPasses(c) PROVE ChecksScheduled'
  <2>1. c.user \in Users
    BY <1>0, <1>1 DEF JoinPasses, TypeOK, UserLookup, AsyncGateCheck, Joining, Removing, Updating
  <2>2. JoinCommit(c.user) /\ c.kind # "check" /\ calls' = calls \ {c}
    BY <1>1 DEF JoinPasses
  <2> QED  BY <2>1, <2>2, JoinChecked
<1>2. ASSUME NEW c \in calls, RemoveOwner(c) PROVE ChecksScheduled'
  <2>1. c.by \in Initiators /\ c.user \in Users /\ c.block \in BOOLEAN
    BY <1>0, <1>2 DEF RemoveOwner, TypeOK, UserLookup, AsyncGateCheck, Joining, Removing, Updating
  <2>2. RemoveCommit(c.by, c.user, c.block, TRUE) /\ c.kind # "check" /\ calls' = calls \ {c}
    BY <1>2 DEF RemoveOwner
  <2> QED  BY <2>1, <2>2, RemoveCommitChecked, ZenonT(60)
<1>3. ASSUME NEW c \in calls, UpdateCommit(c) PROVE ChecksScheduled'
  <2>1. SUFFICES ASSUME Expires(gate'), NEW u \in Users, CanLapse(members', u)
                 PROVE  ToBeChecked(u)'
    BY DEF ChecksScheduled, Expires, CanLapse
  <2>2. gate' # NoGate /\ members' = members
    BY <1>3, <2>1 DEF UpdateCommit, Expires
  <2>3. actions' = actions /\ calls' = calls \ {c} /\ c.kind # "check"
    BY <1>3, <2>1 DEF UpdateCommit
  <2>4. CASE Expires(gate)
    <3>1. expiring' = Shifted(expiring, gate.expiry, gate'.expiry)
      BY <1>3, <2>1, <2>4 DEF UpdateCommit
    <3>2. ToBeChecked(u)
      BY <2>1, <2>2, <2>4 DEF CheckedInv, ChecksScheduled
    <3>3. ASSUME NEW e \in expiring, e.user = u PROVE \E d \in expiring' : d.user = u
      <4> DEFINE d == [e EXCEPT !.expires = IF e.expires + gate'.expiry >= gate.expiry
                                            THEN e.expires + gate'.expiry - gate.expiry ELSE 0]
      <4>1. d \in expiring' /\ d.user = u
        BY <1>0, <3>1, <3>3 DEF Shifted, TypeOK, Expiring
      <4> QED  BY <4>1
    <3> QED  BY <2>3, <3>2, <3>3 DEF ToBeChecked
  <2>5. CASE ~Expires(gate)
    <3>1. expiring' = expiring \cup {[user |-> v, expires |-> now + gate'.expiry] :
                                       v \in {w \in Users : CanLapse(members, w)}}
      BY <1>3, <2>1, <2>5 DEF UpdateCommit
    <3>2. CanLapse(members, u)
      BY <2>1, <2>2
    <3> DEFINE e == [user |-> u, expires |-> now + gate'.expiry]
    <3>3. e \in expiring' /\ e.user = u
      BY <3>1, <3>2
    <3> QED  BY <3>3 DEF ToBeChecked
  <2> QED  BY <2>4, <2>5
<1>4. ASSUME NEW c \in calls, LookupReply(c) PROVE ChecksScheduled'
  BY <1>4, KeptChecked DEF LookupReply, memberVars, gateVars, jobVars
<1>5. ASSUME NEW c \in calls, CallFails(c) PROVE ChecksScheduled'
  BY <1>5, KeptChecked DEF CallFails, memberVars, gateVars, jobVars
<1>6. ASSUME NEW c \in calls, NEW result \in {"Success", "Failed", "Error"}, CheckReply(c, result)
      PROVE  ChecksScheduled'
  <2>1. {c} \in SUBSET AsyncGateCheck
    BY <1>0, <1>6 DEF CheckReply, TypeOK, UserLookup, AsyncGateCheck, Joining, Removing, Updating
  <2>2. Handle({c}, IF result = "Success" THEN {c} ELSE {}, IF result = "Failed" THEN {c} ELSE {})
    BY <1>6 DEF CheckReply
  <2>3. gate' = gate /\ actions' = actions /\ calls' = calls \ {c}
    BY <1>6 DEF CheckReply, gateVars
  <2>4. CASE Expires(gate)
    <3>1. \A u \in Users : CanLapse(members', u) =>
             /\ CanLapse(members, u) /\ expiring \subseteq expiring'
             /\ c.user = u => \E e \in expiring' : e.user = u
      BY <2>1, <2>2, <2>4, HandleChecked
    <3>2. \A u \in Users : CanLapse(members', u) /\ ToBeChecked(u) => ToBeChecked(u)'
      BY <2>3, <3>1 DEF ToBeChecked
    <3> QED  BY <2>3, <3>1, <3>2, StillChecked
  <2>5. CASE ~Expires(gate)
    BY <2>3, <2>5 DEF ChecksScheduled, Expires
  <2> QED  BY <2>4, <2>5
<1> QED  BY <1>1, <1>2, <1>3, <1>4, <1>5, <1>6 DEF Replies

LEMMA JobChecked ==
    ASSUME GroupAssumption, CheckedInv, Jobs
    PROVE  ChecksScheduled'
<1>0. MembersOK(members) /\ TypeOK
  BY DEF CheckedInv, SafeInv, TypeOK, SetsAgree, MembersOK
<1>1. ASSUME ExpireMembers PROVE ChecksScheduled'
  <2>0. gate' = gate /\ calls' = calls
    BY <1>1 DEF ExpireMembers, gateVars
  <2>1. CASE ~Expires(gate)
    BY <2>0, <2>1 DEF ChecksScheduled, Expires
  <2>2. CASE Expires(gate)
    <3>1. /\ expiring' = (expiring \ Due) \cup {[e EXCEPT !.expires = now + gate.expiry] : e \in Requeued}
          /\ actions' = actions \cup RunActions
          /\ members' = IF gate.behaviour = "lapse"
                        THEN Lapse(members, {e.user : e \in Due}) ELSE members
      BY <1>1, <2>2 DEF ExpireMembers
    <3>2. gate.behaviour \in {"lookup", "check", "lapse"} /\ expiring \subseteq Expiring
      <4>1. gate \in Gates
        BY <1>0, <2>2, GateExpiry
      <4> QED  BY <1>0, <4>1 DEF Gates, GroupAssumption, TypeOK
    <3>3. SUFFICES ASSUME NEW u \in Users, CanLapse(members', u)
                   PROVE  CanLapse(members, u) /\ (ToBeChecked(u) => ToBeChecked(u)')
      BY <2>0, StillChecked
    <3>4. /\ CanLapse(members, u)
          /\ gate.behaviour = "lapse" => \A e \in Due : e.user # u
      <4>1. {e.user : e \in Due} \in SUBSET Users
        BY <3>2 DEF Due, Expiring
      <4>2. /\ Lapse(members, {e.user : e \in Due}).ids = members.ids
            /\ Lapse(members, {e.user : e \in Due}).owners = members.owners
            /\ Lapse(members, {e.user : e \in Due}).lapsed
                 = members.lapsed \cup {v \in {e.user : e \in Due} : CanLapse(members, v)}
        BY <1>0, <4>1, LapseOK
      <4> QED  BY <3>1, <3>3, <4>2 DEF CanLapse
    <3>5. ASSUME NEW e \in expiring, e.user = u PROVE ToBeChecked(u)'
      <4>1. CASE e \notin Due
        BY <3>1, <3>5, <4>1 DEF ToBeChecked
      <4>2. CASE e \in Requeued
        <5> DEFINE d == [e EXCEPT !.expires = now + gate.expiry]
        <5>1. d \in expiring' /\ d.user = u
          BY <3>1, <3>2, <3>5, <4>2 DEF Expiring
        <5> QED  BY <5>1 DEF ToBeChecked
      <4>3. CASE e \in Checked
        <5> DEFINE a == [kind |-> "check", user |-> e.user, gateExpiry |-> gate.expiry]
        <5>1. a \in RunActions /\ a.kind = "check" /\ a.user = u
          BY <3>5, <4>3 DEF RunActions
        <5> QED  BY <3>1, <5>1 DEF ToBeChecked
      <4>4. e \in Due => gate.behaviour # "lapse"
        BY <3>4, <3>5
      <4>5. e \in Due => e \in Requeued \/ e \in Checked
        BY <3>2, <3>4, <3>5, <4>4 DEF Requeued, Checked, Looked
      <4> QED  BY <4>1, <4>2, <4>3, <4>5
    <3>6. ASSUME NEW a \in actions \cup calls, a.kind = "check", a.user = u PROVE ToBeChecked(u)'
      BY <2>0, <3>1, <3>6 DEF ToBeChecked
    <3> QED  BY <3>4, <3>5, <3>6 DEF ToBeChecked
  <2> QED  BY <2>1, <2>2
<1>2. ASSUME NEW batch \in SUBSET actions, ProcessActions(batch) PROVE ChecksScheduled'
  <2> DEFINE checks == {a \in batch : a.kind = "check"}
             atOnce == {c \in checks : gate # NoGate /\ gate.behaviour = "lookup"}
             sent == {c \in checks : gate # NoGate /\ gate.behaviour # "lookup"}
  <2>1. atOnce \in SUBSET AsyncGateCheck
    BY <1>0 DEF TypeOK, UserLookup, AsyncGateCheck
  <2>2. Handle(atOnce, {c \in atOnce : c.user \in cache}, {c \in atOnce : c.user \notin cache})
    BY <1>2 DEF ProcessActions
  <2>3. /\ gate' = gate /\ actions' = actions \ batch
        /\ calls' = calls \cup sent \cup (batch \ checks)
    BY <1>2 DEF ProcessActions, gateVars
  <2>4. CASE Expires(gate)
    <3>1. \A a \in batch : a.kind = "check" => a \in atOnce \/ a \in sent
      BY <2>4 DEF Expires
    <3> HIDE DEF atOnce, sent, checks
    <3>2. \A u \in Users : CanLapse(members', u) =>
             /\ CanLapse(members, u) /\ expiring \subseteq expiring'
             /\ (\E c \in atOnce : c.user = u) => \E e \in expiring' : e.user = u
      BY <2>1, <2>2, <2>4, HandleChecked
    <3>3. \A u \in Users : CanLapse(members', u) /\ ToBeChecked(u) => ToBeChecked(u)'
      BY <2>3, <3>1, <3>2 DEF ToBeChecked
    <3> QED  BY <2>3, <3>2, <3>3, StillChecked
  <2>5. CASE ~Expires(gate)
    BY <2>3, <2>5 DEF ChecksScheduled, Expires
  <2> QED  BY <2>4, <2>5
<1> QED  BY <1>1, <1>2 DEF Jobs

LEMMA EnvironmentChecked ==
    ASSUME GroupAssumption, CheckedInv, Environment
    PROVE  ChecksScheduled'
<1>1. ASSUME NEW u \in Fickle, DiamondEnds(u) \/ DiamondRenewed(u) PROVE ChecksScheduled'
  BY <1>1, KeptChecked DEF DiamondEnds, DiamondRenewed, memberVars, gateVars, jobVars
<1>2. ASSUME NEW u \in Deletable, UserDeleted(u) PROVE ChecksScheduled'
  BY <1>2, LeaverChecked DEF UserDeleted, gateVars, GroupAssumption
<1>3. ASSUME NEW u \in Suspendable, NEW suspended \in BOOLEAN, SuspendUser(u, suspended)
      PROVE  ChecksScheduled'
  <2>1. /\ MembersOK(members) /\ u \in Users
    BY DEF CheckedInv, SafeInv, TypeOK, SetsAgree, MembersOK, GroupAssumption
  <2>2. /\ SetSuspended(members, u, suspended).ids = members.ids
        /\ SetSuspended(members, u, suspended).owners = members.owners
        /\ SetSuspended(members, u, suspended).lapsed = members.lapsed
    BY <2>1, SuspendOK
  <2> QED  BY <1>3, <2>2, KeptChecked DEF SuspendUser, gateVars, jobVars
<1>4. ASSUME Upgrade PROVE ChecksScheduled'
  BY <1>4, KeptChecked DEF Upgrade, memberVars, gateVars
<1>5. ASSUME Tick PROVE ChecksScheduled'
  BY <1>5, KeptChecked DEF Tick, memberVars, gateVars, jobVars
<1> QED  BY <1>1, <1>2, <1>3, <1>4, <1>5 DEF Environment

\* Behind a gate that expires, no interleaving forgets a member.
THEOREM MembershipChecksScheduled ==
    ASSUME GroupAssumption
    PROVE  Spec => []ChecksScheduled
<1>1. Init => CheckedInv
  <2>1. SUFFICES ASSUME Init PROVE ChecksScheduled
    BY InitSafe DEF CheckedInv
  <2>2. NewMembers(Creator).ids = {Creator} /\ NewMembers(Creator).owners = {Creator}
    BY NewMembersOK DEF GroupAssumption
  <2>3. \A u \in Users : ~CanLapse(members, u)
    BY <2>1, <2>2 DEF Init, CanLapse
  <2> QED  BY <2>3 DEF ChecksScheduled
<1>2. CheckedInv /\ [Next]_vars => CheckedInv'
  <2>1. SUFFICES ASSUME CheckedInv, [Next]_vars PROVE CheckedInv'
    OBVIOUS
  <2>2. SafeInv'
    BY <2>1, StepSafe DEF CheckedInv
  <2>3. CASE Next
    BY <2>1, <2>2, <2>3, RequestChecked, ReplyChecked, JobChecked, EnvironmentChecked DEF Next, CheckedInv
  <2>4. CASE UNCHANGED vars
    BY <2>1, <2>2, <2>4, KeptChecked DEF vars, CheckedInv
  <2> QED  BY <2>1, <2>3, <2>4
<1>3. CheckedInv => ChecksScheduled
  BY DEF CheckedInv
<1> QED  BY <1>1, <1>2, <1>3, PTL DEF Spec

------------------------------------------------------------------------------
(* An owner remains.                                                        *)

LEMMA OnlyOwner ==
    ASSUME NEW owners, NEW u, owners # {}, owners \ {u} = {}
    PROVE  Cardinality(owners) = 1 /\ u \in owners
<1>1. owners = {u}
  OBVIOUS
<1> QED  BY <1>1, FS_Singleton

LEMMA JoinKeepsOwners ==
    ASSUME SafeInv, NEW u \in Users, JoinCommit(u)
    PROVE  members'.owners = members.owners
<1>1. members.owners = Unblock(members, u).owners
  BY DEF SafeInv, TypeOK, GroupMembersType, Unblock
<1>2. \A ms \in GroupMembersType : Add(ms, u).owners = ms.owners /\ Unlapse(ms, {u}).owners = ms.owners
  BY DEF GroupMembersType, Add, Unlapse
<1>3. members \in GroupMembersType /\ Unblock(members, u) \in GroupMembersType
  BY DEF SafeInv, TypeOK, GroupMembersType, Unblock
<1> QED  BY <1>1, <1>2, <1>3 DEF JoinCommit

\* Removing an owner takes another one.
LEMMA RemovalKeepsOwner ==
    ASSUME SafeInv, members.owners # {}, NEW by \in Initiators, NEW u \in Users, NEW block \in BOOLEAN, NEW remove,
           RemoveCommit(by, u, block, remove), u \in members.owners => by # NoOne
    PROVE  members'.owners # {}
<1>0. MembersOK(members)
  BY DEF SafeInv, TypeOK, SetsAgree, MembersOK
<1>1. members'.owners = members.owners \ {u}
  <2>1. MembersOK(Remove(members, u)) /\ Remove(members, u).owners = members.owners \ {u}
    BY <1>0, RemoveOK
  <2>2. Block(Remove(members, u), u).owners = Remove(members, u).owners
    BY <2>1, BlockOK
  <2> QED  BY <2>1, <2>2 DEF RemoveCommit
<1>2. CASE u \notin members.owners
  BY <1>1, <1>2
<1>3. CASE u \in members.owners
  <2>1. by # u /\ Permitted(by, MapRole(u))
    BY <1>3 DEF RemoveCommit, MayRemove
  <2>2. MapRole(u) = "owner"
    BY <1>0, <1>3 DEF MapRole, MembersOK, MembersAgree
  <2>3. by \in members.owners
    BY <2>1, <2>2 DEF Permitted, SameOrSenior, Rank, RoleOf
  <2> QED  BY <1>1, <2>1, <2>3
<1> QED  BY <1>2, <1>3

\* The last owner goes only with its account, or to a bot on its own.
THEOREM MembershipOwnerRemains ==
    ASSUME GroupAssumption
    PROVE  Spec => OwnerRemains
<1> DEFINE Goes == \/ \E u \in Deletable : UserDeleted(u)
                   \/ \E c \in calls : c.kind = "remove" /\ c.by = NoOne /\ RemoveOwner(c)
           Remains == members.owners # {} /\ members'.owners = {} => Goes
<1>1. Init => SafeInv
  BY InitSafe
<1>2. SafeInv /\ [Next]_vars => SafeInv'
  BY StepSafe
<1>3. SafeInv /\ [Next]_vars => [Remains]_vars
  <2>1. SUFFICES ASSUME SafeInv, Next, members.owners # {}, members'.owners = {} PROVE Goes
    OBVIOUS
  <2>2. MembersOK(members) /\ TypeOK
    BY <2>1 DEF SafeInv, TypeOK, SetsAgree, MembersOK
  <2>3. members' # members
    BY <2>1
  <2>4. \A us \in SUBSET Users :
           /\ Lapse(members, us).owners = members.owners
           /\ Unlapse(members, us).owners = members.owners
    BY <2>2, LapseOK, UnlapseOK
  <2>5. CASE Requests
    <3>1. ASSUME NEW u \in Users, Join(u) PROVE FALSE
      BY <2>1, <3>1, JoinKeepsOwners DEF Join
    <3>2. ASSUME NEW u \in Users, LeaveGroup(u) PROVE FALSE
      <4>1. Remove(members, u).owners = members.owners \ {u}
        BY <2>2, RemoveOK
      <4>2. members' = Remove(members, u)
        BY <3>2 DEF LeaveGroup
      <4>3. Cardinality(members.owners) = 1 /\ u \in members.owners
        BY <2>1, <4>1, <4>2, OnlyOwner
      <4>4. members.map[u].role = "owner"
        BY <2>2, <4>3 DEF MembersOK, MembersAgree
      <4> QED  BY <3>2, <4>3, <4>4 DEF LeaveGroup
    <3>3. ASSUME NEW by \in Initiators, NEW u \in Users, NEW role \in NewRoles, ChangeRoleOf(by, u, role)
          PROVE  FALSE
      <4>1. u \in DOMAIN members.map /\ role \in Roles
        BY <3>3 DEF ChangeRoleOf, CanChangeRole, GroupAssumption
      <4>2. /\ role = "owner" => ChangeRole(members, u, role).owners = members.owners \cup {u}
            /\ role # "owner" => ChangeRole(members, u, role).owners = members.owners \ {u}
        BY <2>2, <4>1, ChangeRoleOK
      <4>3. members' = ChangeRole(members, u, role)
        BY <3>3 DEF ChangeRoleOf
      <4>4. members.owners \ {u} = {}
        BY <2>1, <4>2, <4>3
      <4>5. Cardinality(members.owners) = 1 /\ u \in members.owners
        BY <2>1, <4>4, OnlyOwner
      <4>6. members.map[u].role = "owner"
        BY <2>2, <4>5 DEF MembersOK, MembersAgree
      <4>7. Cardinality(members.owners) > 1
        BY <3>3, <4>6 DEF ChangeRoleOf, CanChangeRole
      <4> QED  BY <4>5, <4>7
    <3>4. ASSUME NEW by \in Initiators, NEW u \in Users, NEW block \in BOOLEAN, RemoveMember(by, u, block)
          PROVE  FALSE
      <4>1. u \notin members.owners
        BY <2>2, <3>4 DEF RemoveMember, MapRole, MembersOK, MembersAgree
      <4> QED  BY <2>1, <3>4, <4>1, RemovalKeepsOwner DEF RemoveMember
    <3>5. ASSUME NEW by \in Users, NEW u \in Users, UnblockUser(by, u) PROVE FALSE
      <4>1. Unblock(members, u).owners = members.owners
        BY <2>2, BlockOK
      <4> QED  BY <2>1, <3>5, <4>1 DEF UnblockUser
    <3>6. ASSUME NEW by \in Initiators, NEW u \in Users, NEW block \in BOOLEAN, RemoveOwnerSend(by, u, block)
          PROVE  FALSE
      BY <2>3, <3>6 DEF RemoveOwnerSend, memberVars
    <3>7. ASSUME NEW u \in Users, JoinSend(u) PROVE FALSE
      BY <2>3, <3>7 DEF JoinSend, memberVars
    <3>8. ASSUME NEW by \in Users, NEW u \in Invitable, InviteUser(by, u) \/ CancelInvite(by, u) PROVE FALSE
      BY <2>3, <3>8 DEF InviteUser, CancelInvite
    <3>9. ASSUME NEW by \in Users, NEW g \in Gates \cup {NoGate}, UpdateSend(by, g) PROVE FALSE
      BY <2>3, <3>9 DEF UpdateSend, memberVars
    <3> QED  BY <2>5, <3>1, <3>2, <3>3, <3>4, <3>5, <3>6, <3>7, <3>8, <3>9 DEF Requests
  <2>6. CASE Replies
    <3>1. ASSUME NEW c \in calls, RemoveOwner(c) PROVE Goes
      <4>1. c.by \in Initiators /\ c.user \in Users /\ c.block \in BOOLEAN /\ c.kind = "remove"
        BY <2>2, <3>1 DEF RemoveOwner, TypeOK, UserLookup, AsyncGateCheck, Joining, Removing, Updating
      <4>2. CASE c.by = NoOne
        BY <3>1, <4>1, <4>2
      <4>3. CASE c.by # NoOne
        <5>1. PICK by \in Initiators, u \in Users, block \in BOOLEAN :
                 by = c.by /\ u = c.user /\ block = c.block
          BY <4>1
        <5>2. RemoveCommit(by, u, block, TRUE) /\ by # NoOne
          BY <3>1, <4>3, <5>1 DEF RemoveOwner
        <5>3. u \in members.owners => by # NoOne
          BY <5>2
        <5>4. members'.owners # {}
          BY <2>1, <5>2, <5>3, RemovalKeepsOwner, ZenonT(60)
        <5> QED  BY <2>1, <5>4
      <4> QED  BY <4>2, <4>3
    <3>2. ASSUME NEW c \in calls, JoinPasses(c) PROVE FALSE
      <4>1. c.user \in Users
        BY <2>2, <3>2 DEF JoinPasses, TypeOK, UserLookup, AsyncGateCheck, Joining, Removing, Updating
      <4> QED  BY <2>1, <3>2, <4>1, JoinKeepsOwners DEF JoinPasses
    <3>3. ASSUME NEW c \in calls, UpdateCommit(c) PROVE FALSE
      <4>1. members' = members \/ members' = Unlapse(members, Users)
        BY <3>3 DEF UpdateCommit
      <4>2. Users \in SUBSET Users
        OBVIOUS
      <4> QED  BY <2>1, <2>4, <4>1, <4>2
    <3>4. ASSUME NEW c \in calls, NEW result \in {"Success", "Failed", "Error"}, CheckReply(c, result)
          PROVE  FALSE
      <4>1. c \in AsyncGateCheck
        BY <2>2, <3>4 DEF CheckReply, TypeOK, UserLookup, AsyncGateCheck, Joining, Removing, Updating
      <4>2. \E us \in SUBSET Users : members' = Lapse(members, us)
        BY <3>4, <4>1 DEF CheckReply, Handle, AsyncGateCheck
      <4> QED  BY <2>1, <2>4, <4>2
    <3>5. ASSUME NEW c \in calls, LookupReply(c) \/ CallFails(c) PROVE FALSE
      BY <2>3, <3>5 DEF LookupReply, CallFails, memberVars
    <3> QED  BY <2>6, <3>1, <3>2, <3>3, <3>4, <3>5 DEF Replies
  <2>7. CASE Jobs
    <3>1. ASSUME ExpireMembers PROVE FALSE
      <4>1. members' = members \/ members' = Lapse(members, {e.user : e \in Due})
        BY <3>1 DEF ExpireMembers
      <4>2. {e.user : e \in Due} \in SUBSET Users
        BY <2>2 DEF Due, TypeOK, Expiring
      <4> QED  BY <2>1, <2>4, <4>1, <4>2
    <3>2. ASSUME NEW batch \in SUBSET actions, ProcessActions(batch) PROVE FALSE
      <4>1. \A a \in batch : a.kind = "check" => a.user \in Users
        BY <2>2 DEF TypeOK, UserLookup, AsyncGateCheck
      <4>2. \E us \in SUBSET Users : members' = Lapse(members, us)
        BY <3>2, <4>1 DEF ProcessActions, Handle
      <4> QED  BY <2>1, <2>4, <4>2
    <3> QED  BY <2>7, <3>1, <3>2 DEF Jobs
  <2>8. CASE Environment
    <3>1. ASSUME NEW u \in Suspendable, NEW suspended \in BOOLEAN, SuspendUser(u, suspended) PROVE FALSE
      <4>1. SetSuspended(members, u, suspended).owners = members.owners
        BY <2>2, SuspendOK DEF GroupAssumption
      <4> QED  BY <2>1, <3>1, <4>1 DEF SuspendUser
    <3>2. ASSUME NEW u \in Fickle, DiamondEnds(u) \/ DiamondRenewed(u) PROVE FALSE
      BY <2>3, <3>2 DEF DiamondEnds, DiamondRenewed, memberVars
    <3>3. ASSUME Upgrade \/ Tick PROVE FALSE
      BY <2>3, <3>3 DEF Upgrade, Tick, memberVars
    <3> QED  BY <2>8, <3>1, <3>2, <3>3 DEF Environment
  <2> QED  BY <2>1, <2>5, <2>6, <2>7, <2>8 DEF Next
<1> QED  BY <1>1, <1>2, <1>3, PTL DEF Spec, OwnerRemains
=============================================================================
