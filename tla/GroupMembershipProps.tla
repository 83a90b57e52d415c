------------------------ MODULE GroupMembershipProps ------------------------
(***************************************************************************)
(* What the group canister promises of its members.                        *)
(***************************************************************************)
EXTENDS GroupMembership

\* The sets kept beside the members say of every user what its member says,
\* and nobody is a member and blocked, or a member and invited, whatever
\* happens while a join, a removal or a gate update awaits a reply.
SetsAgree ==
    /\ MembersAgree(members)
    /\ members.ids \cap (members.blocked \cup invited) = {}

\* Behind a gate that expires, every member that may lapse is still to be
\* checked: in the heap, in the queue, or by a call in flight.  No interleaving
\* of joins, role changes, gate updates, checks and upgrades forgets a member.
ToBeChecked(u) ==
    \/ \E e \in expiring : e.user = u
    \/ \E a \in actions \cup calls : a.kind = "check" /\ a.user = u

ChecksScheduled ==
    Expires(gate) => \A u \in Users : CanLapse(members, u) => ToBeChecked(u)

\* The jobs sleep only when there is nothing for them to do, and the timer of
\* the heap never rings later than a delay after its first entry expires.
JobsWake ==
    /\ \A e \in expiring :
          expireTimer # NoTimer /\ (expireTimer <= e.expires + Delay \/ expireTimer <= now)
    /\ actions # {} => actionTimer

\* Whoever removes, demotes or leaves at the same time as whom, a group loses
\* its last owner only to the deletion of its account or to a bot that acts on
\* its own.
OwnerRemains ==
    [][members.owners # {} /\ members'.owners = {} =>
         \/ \E u \in Deletable : UserDeleted(u)
         \/ \E c \in calls : c.kind = "remove" /\ c.by = NoOne /\ RemoveOwner(c)]_vars
=============================================================================
