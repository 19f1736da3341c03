-------------------------------- MODULE Staff --------------------------------
(***************************************************************************)
(* Who works at a restaurant (services/onboarding.js, staff.js and         *)
(* staffInvitations.js): a restaurant is born with its owner when a link   *)
(* is spent, people are added by an account made for them or by an         *)
(* invitation they accept, and their role and standing are changed under   *)
(* the locks of two rows.                                                  *)
(*                                                                         *)
(* An address belongs to one account in the whole system, so an account is *)
(* named by its address, and a restaurant by its tax id.  A request speaks *)
(* with the role of its access token, which may no longer be the role of   *)
(* its account.                                                            *)
(***************************************************************************)
EXTENDS Naturals

CONSTANTS
  Restaurants, Addresses,
  Leads,          \* forms sent in; the same restaurant may send several
  LeadOf,         \* [Leads -> [restaurant, address]]
  Invitations,    \* invitations that may be made
  Updates,        \* updateStaff requests at once
  Roles,          \* the roles in use
  Nobody

Rank == [OWNER |-> 3, MANAGER |-> 2, CASHIER |-> 1, WAITER |-> 1]

ASSUME StaffAssumption ==
  /\ LeadOf \in [Leads -> [restaurant : Restaurants, address : Addresses]]
  /\ "OWNER" \in Roles /\ Roles \subseteq DOMAIN Rank
  /\ Nobody \notin DOMAIN Rank /\ Nobody \notin BOOLEAN /\ Nobody \notin Addresses

VARIABLES
  restaurants,   \* the restaurants that exist
  users,         \* the account of an address
  tokens,        \* the role an access token of the account still speaks with
  links,         \* what became of the link of a lead
  invitations,
  revoking,      \* invitations a revocation has read as open
  updates        \* updateStaff transactions

staffVars == <<restaurants, users, tokens, links, invitations, revoking, updates>>

Account == [restaurant : Restaurants, role : Roles, active : BOOLEAN]
Invitation == [restaurant : Restaurants, address : Addresses, role : Roles,
               status : {"READ", "OPEN", "EXPIRED", "ACCEPTED", "REVOKED"}]
Update == [target : Addresses, role : Roles \cup {Nobody},
           active : BOOLEAN \cup {Nobody}, step : {"TARGET", "COUNTED"}]

ASSUME NobodyAssumption == Nobody \notin Account \cup Invitation \cup Update

StaffTypeOK ==
  /\ restaurants \subseteq Restaurants
  /\ users \in [Addresses -> Account \cup {Nobody}]
  /\ tokens \in [Addresses -> Roles \cup {Nobody}]
  /\ links \in [Leads -> {"NONE", "NEW", "SENT", "EXPIRED", "SPENT"}]
  /\ invitations \in [Invitations -> Invitation \cup {Nobody}]
  /\ revoking \subseteq Invitations
  /\ updates \in [Updates -> Update \cup {Nobody}]

StaffInit ==
  /\ restaurants = {}
  /\ users = [a \in Addresses |-> Nobody]
  /\ tokens = [a \in Addresses |-> Nobody]
  /\ links = [l \in Leads |-> "NONE"]
  /\ invitations = [i \in Invitations |-> Nobody]
  /\ revoking = {}
  /\ updates = [u \in Updates |-> Nobody]

-----------------------------------------------------------------------------
(* What the rows say.                                                      *)

Works(a, r) == users[a] # Nobody /\ users[a].restaurant = r
ActiveOwner(a, r) == Works(a, r) /\ users[a].role = "OWNER" /\ users[a].active

(* Nobody but an owner grants a role at or above the own, or acts on one.  *)
Outranks(actorRole, role) == actorRole = "OWNER" \/ Rank[actorRole] > Rank[role]

(* OWNER and MANAGER manage staff.                                         *)
Manages(a) == tokens[a] \in {"OWNER", "MANAGER"}
MayAssign(a, role) == Manages(a) /\ Outranks(tokens[a], role)
Home(a) == users[a].restaurant

(* A new account, with the session that is issued with it.                 *)
Join(a, r, role) ==
  users' = [users EXCEPT ![a] = [restaurant |-> r, role |-> role, active |-> TRUE]]
SignedIn(a, role) == tokens' = [tokens EXCEPT ![a] = role]

-----------------------------------------------------------------------------
(* Onboarding.                                                             *)

SubmitLead(l) ==
  /\ links[l] = "NONE"
  /\ links' = [links EXCEPT ![l] = "NEW"]
  /\ UNCHANGED <<restaurants, users, tokens, invitations, revoking, updates>>

(* inviteLead: a new link supersedes the one before.                       *)
InviteLead(l) ==
  /\ links[l] \in {"NEW", "SENT", "EXPIRED"}
  /\ users[LeadOf[l].address] = Nobody /\ LeadOf[l].restaurant \notin restaurants
  /\ links' = [links EXCEPT ![l] = "SENT"]
  /\ UNCHANGED <<restaurants, users, tokens, invitations, revoking, updates>>

LinkExpires(l) ==
  /\ links[l] = "SENT"
  /\ links' = [links EXCEPT ![l] = "EXPIRED"]
  /\ UNCHANGED <<restaurants, users, tokens, invitations, revoking, updates>>

(* verifySignup: the restaurant, its owner, the session and the spent link *)
(* in one transaction, which the unique address or tax id undoes.          *)
VerifySignup(l) ==
  LET lead == LeadOf[l] IN
  /\ links[l] = "SENT"
  /\ users[lead.address] = Nobody /\ lead.restaurant \notin restaurants
  /\ restaurants' = restaurants \cup {lead.restaurant}
  /\ Join(lead.address, lead.restaurant, "OWNER")
  /\ SignedIn(lead.address, "OWNER")
  /\ links' = [links EXCEPT ![l] = "SPENT"]
  /\ UNCHANGED <<invitations, revoking, updates>>

-----------------------------------------------------------------------------
(* Sessions, as far as this module needs them: a login or a refresh reads  *)
(* the account, an access token outlives what it read until it expires.    *)

SignIn(a) ==
  /\ users[a] # Nobody /\ users[a].active
  /\ SignedIn(a, users[a].role)
  /\ UNCHANGED <<restaurants, users, links, invitations, revoking, updates>>

TokenExpires(a) ==
  /\ tokens[a] # Nobody
  /\ tokens' = [tokens EXCEPT ![a] = Nobody]
  /\ UNCHANGED <<restaurants, users, links, invitations, revoking, updates>>

-----------------------------------------------------------------------------
(* New people.                                                             *)

CreateStaff(actor, a, role) ==
  /\ MayAssign(actor, role) /\ users[a] = Nobody
  /\ Join(a, Home(actor), role)
  /\ UNCHANGED <<restaurants, tokens, links, invitations, revoking, updates>>

(* createInvitation looks for the address among the staff, and then        *)
(* revokes what is open for it and makes a new invitation.                 *)
ReadInvited(actor, i, a, role) ==
  /\ invitations[i] = Nobody
  /\ MayAssign(actor, role) /\ ~Works(a, Home(actor))
  /\ invitations' = [invitations EXCEPT ![i] =
       [restaurant |-> Home(actor), address |-> a, role |-> role, status |-> "READ"]]
  /\ UNCHANGED <<restaurants, users, tokens, links, revoking, updates>>

Unanswered == {"OPEN", "EXPIRED"}
SameInvited(i, j) ==
  /\ invitations[j] # Nobody
  /\ invitations[j].restaurant = invitations[i].restaurant
  /\ invitations[j].address = invitations[i].address
OpenFor(i) == {j \in Invitations : SameInvited(i, j) /\ invitations[j].status \in Unanswered}

MakeInvitation(i) ==
  [j \in Invitations |->
     IF j = i THEN [invitations[i] EXCEPT !.status = "OPEN"]
     ELSE IF j \in OpenFor(i) THEN [invitations[j] EXCEPT !.status = "REVOKED"]
     ELSE invitations[j]]

Invite(i) ==
  /\ invitations[i] # Nobody /\ invitations[i].status = "READ"
  /\ invitations' = MakeInvitation(i)
  /\ UNCHANGED <<restaurants, users, tokens, links, revoking, updates>>

(* Another invitation of the address was made between its two statements:  *)
(* the index refuses a second open one, and all is undone.                 *)
InviteRefused(i) ==
  /\ invitations[i] # Nobody /\ invitations[i].status = "READ"
  /\ OpenFor(i) # {}
  /\ invitations' = [invitations EXCEPT ![i] = Nobody]
  /\ UNCHANGED <<restaurants, users, tokens, links, revoking, updates>>

InvitationExpires(i) ==
  /\ invitations[i] # Nobody /\ invitations[i].status = "OPEN"
  /\ invitations' = [invitations EXCEPT ![i].status = "EXPIRED"]
  /\ UNCHANGED <<restaurants, users, tokens, links, revoking, updates>>

(* revokeInvitation reads the row and then writes it by its id.            *)
ReadForRevoke(actor, i) ==
  /\ invitations[i] # Nobody /\ invitations[i].status \in Unanswered
  /\ Manages(actor) /\ Home(actor) = invitations[i].restaurant
  /\ Outranks(tokens[actor], invitations[i].role)
  /\ revoking' = revoking \cup {i}
  /\ UNCHANGED <<restaurants, users, tokens, links, invitations, updates>>

(* The check that an invitation is accepted or revoked, never both, undoes *)
(* the write to one that was accepted meanwhile.                           *)
(* Wrong: without that check.                                              *)
RevocableAlways(i) == TRUE
Revocable(i) == invitations[i].status # "ACCEPTED"

Revoke(i) ==
  /\ i \in revoking /\ Revocable(i)
  /\ invitations' = [invitations EXCEPT ![i].status = "REVOKED"]
  /\ revoking' = revoking \ {i}
  /\ UNCHANGED <<restaurants, users, tokens, links, updates>>

RevokeRefused(i) ==
  /\ i \in revoking /\ ~Revocable(i)
  /\ revoking' = revoking \ {i}
  /\ UNCHANGED <<restaurants, users, tokens, links, invitations, updates>>

(* acceptInvitation, with the invitation locked.  An address that has an   *)
(* account by now leaves the invitation as it is.                          *)
AcceptInvitation(i) ==
  /\ invitations[i] # Nobody /\ invitations[i].status = "OPEN"
  /\ users[invitations[i].address] = Nobody
  /\ Join(invitations[i].address, invitations[i].restaurant, invitations[i].role)
  /\ SignedIn(invitations[i].address, invitations[i].role)
  /\ invitations' = [invitations EXCEPT ![i].status = "ACCEPTED"]
  /\ UNCHANGED <<restaurants, links, revoking, updates>>

-----------------------------------------------------------------------------
(* updateStaff: a role, a standing or both.  lockTarget takes the row of   *)
(* the target and applies the rules of rank and self to it.  A request     *)
(* that waits for the row is as one made later with the same token.        *)

Stage(u, step) == updates[u] # Nobody /\ updates[u].step = step
Target(u) == updates[u].target
TargetLocked(a) == \E u \in Updates : updates[u] # Nobody /\ Target(u) = a

Allowed(actor, a) ==
  /\ users[a] # Nobody /\ Works(a, Home(actor))
  /\ a # actor
  /\ Outranks(tokens[actor], users[a].role)

LockTarget(u, actor, a, role, active) ==
  /\ updates[u] = Nobody /\ (role # Nobody \/ active # Nobody)
  /\ Manages(actor) /\ (role # Nobody => Outranks(tokens[actor], role))
  /\ ~TargetLocked(a) /\ Allowed(actor, a)
  /\ updates' = [updates EXCEPT ![u] =
       [target |-> a, role |-> role, active |-> active, step |-> "TARGET"]]
  /\ UNCHANGED <<restaurants, users, tokens, links, invitations, revoking>>

LeavingOwner(u) ==
  /\ users[Target(u)].role = "OWNER"
  /\ updates[u].role \notin {Nobody, "OWNER"} \/ updates[u].active = FALSE

(* assertOwnerRemains: the row of the restaurant is what two transactions  *)
(* with different targets have in common.                                  *)
(* Wrong: each counts under the lock of its own target.                    *)
NobodyCounted(u) == TRUE
RestaurantFree(u) ==
  \A v \in Updates : Stage(v, "COUNTED") => Home(Target(v)) # Home(Target(u))
OwnerRemains(u) == \E a \in Addresses \ {Target(u)} : ActiveOwner(a, Home(Target(u)))

CountOwners(u) ==
  /\ Stage(u, "TARGET") /\ LeavingOwner(u) /\ RestaurantFree(u)
  /\ updates' = [updates EXCEPT ![u] =
       IF OwnerRemains(u) THEN [updates[u] EXCEPT !.step = "COUNTED"] ELSE Nobody]
  /\ UNCHANGED <<restaurants, users, tokens, links, invitations, revoking>>

Updated(u) ==
  [users[Target(u)] EXCEPT
     !.role = IF updates[u].role = Nobody THEN @ ELSE updates[u].role,
     !.active = IF updates[u].active = Nobody THEN @ ELSE updates[u].active]

CommitUpdate(u) ==
  /\ Stage(u, "COUNTED") \/ (Stage(u, "TARGET") /\ ~LeavingOwner(u))
  /\ users' = [users EXCEPT ![Target(u)] = Updated(u)]
  /\ updates' = [updates EXCEPT ![u] = Nobody]
  /\ UNCHANGED <<restaurants, tokens, links, invitations, revoking>>

(* The process dies: the transaction is undone and its locks are gone.     *)
LoseUpdate(u) ==
  /\ updates[u] # Nobody
  /\ updates' = [updates EXCEPT ![u] = Nobody]
  /\ UNCHANGED <<restaurants, users, tokens, links, invitations, revoking>>

-----------------------------------------------------------------------------
Onboarding(l) == SubmitLead(l) \/ InviteLead(l) \/ LinkExpires(l) \/ VerifySignup(l)

Inviting(i) ==
  \/ Invite(i) \/ InviteRefused(i) \/ InvitationExpires(i)
  \/ Revoke(i) \/ RevokeRefused(i) \/ AcceptInvitation(i)

Updating(u) ==
  CountOwners(u) \/ CommitUpdate(u) \/ LoseUpdate(u)

Asking(actor) ==
  \/ SignIn(actor) \/ TokenExpires(actor)
  \/ \E a \in Addresses, role \in Roles :
       CreateStaff(actor, a, role) \/ \E i \in Invitations : ReadInvited(actor, i, a, role)
  \/ \E i \in Invitations : ReadForRevoke(actor, i)
  \/ \E u \in Updates, a \in Addresses, role \in Roles \cup {Nobody},
       active \in BOOLEAN \cup {Nobody} : LockTarget(u, actor, a, role, active)

StaffStep ==
  \/ \E l \in Leads : Onboarding(l)
  \/ \E a \in Addresses : Asking(a)
  \/ \E i \in Invitations : Inviting(i)
  \/ \E u \in Updates : Updating(u)

StaffSpec == StaffInit /\ [][StaffStep]_staffVars

-----------------------------------------------------------------------------
(* Properties.                                                             *)

(* Rule 3 of staff.js, from the birth of the restaurant on and whatever    *)
(* the tokens still say: the last active owner stays, also when two owners *)
(* remove each other at once.                                              *)
LastOwnerStays == \A r \in restaurants : \E a \in Addresses : ActiveOwner(a, r)

(* Two links to one address would be two ways in, and the older one may be *)
(* in a chat nobody controls any more (migration 048).                     *)
OneOpenInvitation ==
  \A i, j \in Invitations :
    /\ invitations[i] # Nobody /\ invitations[i].status \in Unanswered
    /\ j \in OpenFor(i)
    => i = j

(* An invitation is answered once: what made an account is not revoked     *)
(* afterwards, and what was revoked makes none ("aceptada o anulada, nunca *)
(* las dos").                                                              *)
AnsweredOnce ==
  [][\A i \in Invitations :
       invitations[i] # Nobody /\ invitations[i].status \in {"ACCEPTED", "REVOKED"}
         => invitations'[i] = invitations[i]]_staffVars
=============================================================================
