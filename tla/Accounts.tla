-------------------------------- MODULE Accounts --------------------------------
(***************************************************************************)
(* The accounts of the installation and the members of one case.           *)
(* Administrators change accounts and memberships, analysts memberships,   *)
(* each on what the request loaded before it waits for its lock.           *)
(***************************************************************************)
EXTENDS Naturals, FiniteSets

CONSTANTS
  Users,
  MaxRequests   \* bound: requests at the same time

VARIABLES
  account,      \* the account of each user
  member,       \* the role of each user in the case
  request       \* what each user's request has passed and will change

vars == <<account, member, request>>

Roles == {"administrator", "analyst", "viewer"}
MemberRoles == {"analyst", "viewer"}
NoAccount == [role |-> "none", active |-> FALSE]
NoRequest == [step |-> "none", on |-> "nobody", role |-> "none", active |-> FALSE]

TypeOK ==
  /\ account \in [Users -> {NoAccount} \cup [role : Roles, active : BOOLEAN]]
  /\ member \in [Users -> MemberRoles \cup {"none"}]
  /\ request \in [Users -> [step : {"none", "member", "member_checked", "account", "account_checked"}, on : Users \cup {"nobody"},
                            role : Roles \cup {"none"}, active : BOOLEAN]]

Exists(u) == account[u] # NoAccount
Administrators == {u \in Users : account[u].role = "administrator"}

\* effective_case_role, ALLOWED_MEMBERSHIP_ROLES.
EffectiveRole(u) == IF account[u].role = "viewer" /\ member[u] # "none" THEN "viewer" ELSE member[u]
Allowed(u) == IF account[u].role = "viewer" THEN {"viewer"} ELSE MemberRoles

\* active_analyst_count, and has_analyst_access for one of them.
ActiveAnalysts ==
  {u \in Users : member[u] = "analyst" /\ account[u].active /\ account[u].role # "viewer"}

Init ==
  /\ account = [u \in Users |-> NoAccount]
  /\ member = [u \in Users |-> "none"]
  /\ request = [u \in Users |-> NoRequest]

\* create_initial_admin, under an advisory lock; the case comes with the first analyst.
Setup(u) ==
  /\ Administrators = {} /\ ~Exists(u)
  /\ account' = [account EXCEPT ![u] = [role |-> "administrator", active |-> TRUE]]
  /\ member' = [member EXCEPT ![u] = "analyst"]
  /\ UNCHANGED request

CreateAccount(u, role) ==
  /\ Administrators # {} /\ ~Exists(u)
  /\ account' = [account EXCEPT ![u] = [role |-> role, active |-> TRUE]]
  /\ UNCHANGED <<member, request>>

\* The request of a user passes the check of the role it needs.
Pass(u, step) ==
  /\ request[u] = NoRequest /\ account[u].active
  /\ Cardinality({v \in Users : request[v] # NoRequest}) < MaxRequests
  /\ IF step = "account" THEN u \in Administrators ELSE u \in Administrators \/ EffectiveRole(u) = "analyst"
  /\ request' = [request EXCEPT ![u].step = step]
  /\ UNCHANGED <<account, member>>

InFlight(step) == \E u \in Users : request[u].step = step

\* add_member, change_member_role and remove_member: they lock the case, then count.
CheckMember(u, v, role) ==
  /\ request[u].step = "member" /\ ~InFlight("member_checked")
  /\ Exists(v) /\ role # member[v]
  /\ role # "none" => role \in Allowed(v)
  /\ member[v] = "none" => account[v].active
  /\ (member[v] # "none" /\ role # "analyst") => ActiveAnalysts \ {v} # {}
  /\ request' = [request EXCEPT ![u] = [step |-> "member_checked", on |-> v, role |-> role, active |-> FALSE]]
  /\ UNCHANGED <<account, member>>

CommitMember(u) ==
  /\ request[u].step = "member_checked"
  /\ member' = [member EXCEPT ![request[u].on] = request[u].role]
  /\ request' = [request EXCEPT ![u] = NoRequest]
  /\ UNCHANGED account

\* Mutant: nothing serializes the administrators.
NobodyWaits == TRUE

\* update_account locks the rows of all administrators.
Serialized == ~InFlight("account_checked")

CheckAccount(u, v, role, active) ==
  /\ request[u].step = "account" /\ Serialized
  /\ Exists(v) /\ account[v] # [role |-> role, active |-> active]
  /\ (v \in Administrators /\ (role # "administrator" \/ ~active)) =>
       \E other \in Administrators \ {v} : account[other].active
  /\ request' = [request EXCEPT ![u] = [step |-> "account_checked", on |-> v, role |-> role, active |-> active]]
  /\ UNCHANGED <<account, member>>

CommitAccount(u) ==
  /\ request[u].step = "account_checked"
  /\ account' = [account EXCEPT ![request[u].on] = [role |-> request[u].role, active |-> request[u].active]]
  /\ request' = [request EXCEPT ![u] = NoRequest]
  /\ UNCHANGED member

\* A request is refused or its transaction rolls back.
GiveUp(u) ==
  /\ request[u] # NoRequest
  /\ request' = [request EXCEPT ![u] = NoRequest]
  /\ UNCHANGED <<account, member>>

Next ==
  \E u \in Users :
    \/ Setup(u)
    \/ \E role \in Roles : CreateAccount(u, role)
    \/ \E step \in {"member", "account"} : Pass(u, step)
    \/ \E v \in Users, role \in MemberRoles \cup {"none"} : CheckMember(u, v, role)
    \/ \E v \in Users, role \in Roles, active \in BOOLEAN : CheckAccount(u, v, role, active)
    \/ CommitMember(u) \/ CommitAccount(u) \/ GiveUp(u)

Spec == Init /\ [][Next]_vars

-----------------------------------------------------------------------------
(* Properties.                                                             *)

\* An installation that was set up keeps an active administrator, although administrators demote and
\* deactivate each other, and themselves, at the same time.
AdministratorRemains ==
  (\E u \in Users : Exists(u)) => \E u \in Administrators : account[u].active

================================================================================
