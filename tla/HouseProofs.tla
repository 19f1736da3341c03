----------------------------- MODULE HouseProofs -----------------------------
(***************************************************************************)
(* What holds of four parts of the house: the idempotency key of a request *)
(* (Idempotency), the staff of a restaurant (Staff), declared payments and *)
(* the movements of the bank (ClaimMatching), and what the staff read of   *)
(* the money (Reports).  For any requests, accounts, invitations, claims,  *)
(* movements, connections, payments and bills, and any number of processes *)
(* at once.                                                                *)
(***************************************************************************)
EXTENDS Idempotency, Staff, ClaimMatching, Reports, FiniteSetTheorems, TLAPS

-----------------------------------------------------------------------------
(* The staff of a restaurant.                                              *)

(* Nothing speaks for, points at or answers what does not exist.           *)
Founded ==
  /\ \A a \in Addresses : tokens[a] # Nobody => users[a] # Nobody
  /\ \A u \in Updates : updates[u] # Nobody => users[Target(u)] # Nobody
  /\ \A i \in revoking : invitations[i] # Nobody /\ invitations[i].status # "READ"

Grounded == StaffTypeOK /\ Founded

(* An account is made for an address that has none.                        *)
LEMMA JoinKeeps ==
  ASSUME Grounded, NEW a \in Addresses, NEW r \in Restaurants, NEW role \in Roles,
         users[a] = Nobody, Join(a, r, role)
  PROVE  /\ users' \in [Addresses -> Account \cup {Nobody}]
         /\ users'[a] = [restaurant |-> r, role |-> role, active |-> TRUE]
         /\ users'[a] # Nobody
         /\ \A b \in Addresses : users[b] # Nobody => users'[b] = users[b]
<1>1. [restaurant |-> r, role |-> role, active |-> TRUE] \in Account
  BY DEF Account
<1> QED BY <1>1, NobodyAssumption DEF Grounded, StaffTypeOK, Join

(* An update changes the role and the standing of an account, never its    *)
(* restaurant.                                                             *)
LEMMA UpdateKeeps ==
  ASSUME Grounded, NEW u \in Updates, updates[u] # Nobody,
         users' = [users EXCEPT ![Target(u)] = Updated(u)]
  PROVE  /\ users' \in [Addresses -> Account \cup {Nobody}]
         /\ Target(u) \in Addresses /\ users[Target(u)] # Nobody
         /\ users'[Target(u)] = Updated(u)
         /\ Updated(u) \in Account /\ Updated(u) # Nobody
         /\ Updated(u).restaurant = Home(Target(u))
         /\ \A b \in Addresses : b # Target(u) => users'[b] = users[b]
<1>1. updates[u] \in Update /\ Target(u) \in Addresses
  BY NobodyAssumption DEF Grounded, StaffTypeOK, Update, Target
<1>2. users[Target(u)] \in Account
  BY <1>1 DEF Grounded, StaffTypeOK, Founded
<1>3. Updated(u) \in Account /\ Updated(u).restaurant = Home(Target(u))
  <2>1. updates[u].role \in Roles \cup {Nobody} /\ updates[u].active \in BOOLEAN \cup {Nobody}
    BY <1>1 DEF Update
  <2> QED BY <1>2, <2>1 DEF Updated, Account, Home
<1> QED BY <1>1, <1>2, <1>3, NobodyAssumption DEF Grounded, StaffTypeOK

(* The manager whose token speaks has an account, and so a restaurant.     *)
LEMMA ManagerHasHome ==
  ASSUME Grounded, NEW a \in Addresses, Manages(a) PROVE Home(a) \in Restaurants
<1>1. Nobody \notin {"OWNER", "MANAGER"}
  BY StaffAssumption DEF Rank
<1>2. tokens[a] # Nobody
  BY <1>1 DEF Manages
<1> QED BY <1>2 DEF Grounded, StaffTypeOK, Founded, Account, Home
-----------------------------------------------------------------------------
(* Everything keeps its type, and nothing speaks for what does not exist.  *)

(* Signing up and approving a lead leave every account and link in place.  *)
LEMMA OnboardingGrounded ==
  ASSUME Grounded, NEW l \in Leads, Onboarding(l) PROVE Grounded'
<1>1. CASE SubmitLead(l) \/ InviteLead(l) \/ LinkExpires(l)
  BY <1>1 DEF SubmitLead, InviteLead, LinkExpires, Grounded, StaffTypeOK, Founded, Target
<1>2. CASE VerifySignup(l)
  <2>1. LeadOf[l].restaurant \in Restaurants /\ LeadOf[l].address \in Addresses
    BY StaffAssumption
  <2>2. "OWNER" \in Roles
    BY StaffAssumption
  <2>3. /\ users' \in [Addresses -> Account \cup {Nobody}]
        /\ users'[LeadOf[l].address] # Nobody
        /\ \A b \in Addresses : users[b] # Nobody => users'[b] = users[b]
    BY <1>2, <2>1, <2>2, JoinKeeps DEF VerifySignup
  <2>4. StaffTypeOK'
    BY <1>2, <2>1, <2>2, <2>3 DEF VerifySignup, SignedIn, Grounded, StaffTypeOK
  <2>5. \A u \in Updates : updates[u] # Nobody => Target(u) \in Addresses
    BY DEF Grounded, StaffTypeOK, Update, Target
  <2> QED
    BY <1>2, <2>1, <2>3, <2>4, <2>5
    DEF VerifySignup, SignedIn, Grounded, StaffTypeOK, Founded, Target
<1> QED BY <1>1, <1>2 DEF Onboarding

(* So does every answer to an invitation.                                  *)
LEMMA InvitingGrounded ==
  ASSUME Grounded, NEW i \in Invitations, Inviting(i) PROVE Grounded'
<1> USE NobodyAssumption DEF Grounded
<1>1. \A j \in Invitations : invitations[j] # Nobody => invitations[j] \in Invitation
  BY DEF StaffTypeOK
<1>2. ASSUME NEW status \in {"EXPIRED", "ACCEPTED", "REVOKED"}, invitations[i] # Nobody,
             invitations' = [invitations EXCEPT ![i].status = status]
      PROVE  /\ invitations' \in [Invitations -> Invitation \cup {Nobody}]
             /\ \A j \in Invitations : /\ invitations[j] # Nobody
                                       /\ invitations[j].status # "READ"
                                       => /\ invitations'[j] # Nobody
                                          /\ invitations'[j].status # "READ"
  <2>1. [invitations[i] EXCEPT !.status = status] \in Invitation
    BY <1>1, <1>2 DEF Invitation
  <2>2. invitations'[i] = [invitations[i] EXCEPT !.status = status]
    BY <1>2 DEF StaffTypeOK
  <2>3. invitations'[i].status = status
    BY <1>1, <1>2, <2>2 DEF Invitation
  <2> QED BY <1>2, <2>1, <2>2, <2>3 DEF StaffTypeOK
<1>3. CASE Invite(i)
  <2>1. \A j \in OpenFor(i) : [invitations[j] EXCEPT !.status = "REVOKED"] \in Invitation
    BY <1>1 DEF OpenFor, SameInvited, Invitation
  <2>2. [invitations[i] EXCEPT !.status = "OPEN"] \in Invitation
    BY <1>1, <1>3 DEF Invite, Invitation
  <2>3. invitations' \in [Invitations -> Invitation \cup {Nobody}]
    BY <1>3, <2>1, <2>2 DEF Invite, MakeInvitation, StaffTypeOK
  <2>4. ASSUME NEW j \in revoking
        PROVE  invitations'[j] # Nobody /\ invitations'[j].status # "READ"
    <3>1. j \in Invitations /\ j # i
      BY <1>3 DEF StaffTypeOK, Founded, Invite
    <3>2. CASE j \in OpenFor(i)
      <4>1. invitations'[j] = [invitations[j] EXCEPT !.status = "REVOKED"]
        BY <1>3, <3>1, <3>2 DEF Invite, MakeInvitation
      <4> QED BY <1>1, <2>1, <2>4, <3>1, <3>2, <4>1 DEF Founded, Invitation
    <3>3. CASE j \notin OpenFor(i)
      BY <1>3, <2>4, <3>1, <3>3 DEF Invite, MakeInvitation, Founded
    <3> QED BY <3>2, <3>3
  <2> QED BY <1>3, <2>3, <2>4 DEF Invite, StaffTypeOK, Founded, Target
<1>4. CASE InviteRefused(i)
  BY <1>4 DEF InviteRefused, StaffTypeOK, Founded, Target
<1>5. CASE InvitationExpires(i)
  BY <1>2, <1>5 DEF InvitationExpires, StaffTypeOK, Founded, Target
<1>6. CASE Revoke(i)
  <2>1. invitations[i] # Nobody
    BY <1>6 DEF Revoke, Founded
  <2> QED BY <1>2, <1>6, <2>1 DEF Revoke, StaffTypeOK, Founded, Target
<1>7. CASE RevokeRefused(i)
  BY <1>7 DEF RevokeRefused, StaffTypeOK, Founded, Target
<1>8. CASE AcceptInvitation(i)
  <2> DEFINE a == invitations[i].address
  <2>1. /\ a \in Addresses /\ invitations[i].restaurant \in Restaurants
        /\ invitations[i].role \in Roles
    BY <1>1, <1>8 DEF AcceptInvitation, Invitation
  <2>2. /\ users' \in [Addresses -> Account \cup {Nobody}]
        /\ users'[a] # Nobody
        /\ \A b \in Addresses : users[b] # Nobody => users'[b] = users[b]
    BY <1>8, <2>1, JoinKeeps DEF AcceptInvitation
  <2>3. StaffTypeOK'
    BY <1>2, <1>8, <2>1, <2>2 DEF AcceptInvitation, SignedIn, StaffTypeOK
  <2>4. \A u \in Updates : updates[u] # Nobody => Target(u) \in Addresses
    BY DEF StaffTypeOK, Update, Target
  <2> QED
    BY <1>2, <1>8, <2>1, <2>2, <2>3, <2>4
    DEF AcceptInvitation, SignedIn, StaffTypeOK, Founded, Target
<1> QED BY <1>3, <1>4, <1>5, <1>6, <1>7, <1>8 DEF Inviting

(* So does every step of an update of the staff.                           *)
LEMMA UpdatingGrounded ==
  ASSUME Grounded, NEW u \in Updates, Updating(u) PROVE Grounded'
<1> USE NobodyAssumption DEF Grounded
<1>1. \A v \in Updates : updates[v] # Nobody => updates[v] \in Update /\ Target(v) \in Addresses
  BY DEF StaffTypeOK, Update, Target
<1>2. CASE CountOwners(u)
  <2>1. updates[u] # Nobody
    BY <1>2 DEF CountOwners, Stage
  <2>2. /\ [updates[u] EXCEPT !.step = "COUNTED"] \in Update
        /\ [updates[u] EXCEPT !.step = "COUNTED"].target = updates[u].target
    BY <1>1, <2>1 DEF Update
  <2>3. StaffTypeOK'
    BY <1>2, <2>2 DEF CountOwners, StaffTypeOK
  <2>4. \A v \in Updates : updates'[v] # Nobody => updates[v] # Nobody /\ Target(v)' = Target(v)
    BY <1>2, <2>1, <2>2 DEF CountOwners, StaffTypeOK, Target
  <2> QED BY <1>1, <1>2, <2>3, <2>4 DEF CountOwners, Founded
<1>3. CASE CommitUpdate(u)
  <2>1. updates[u] # Nobody
    BY <1>3 DEF CommitUpdate, Stage
  <2>2. /\ users' \in [Addresses -> Account \cup {Nobody}]
        /\ \A b \in Addresses : users[b] # Nobody => users'[b] # Nobody
    BY <1>3, <2>1, UpdateKeeps DEF CommitUpdate
  <2>3. StaffTypeOK'
    BY <1>3, <2>2 DEF CommitUpdate, StaffTypeOK
  <2> QED BY <1>1, <1>3, <2>2, <2>3 DEF CommitUpdate, StaffTypeOK, Founded, Target
<1>4. CASE LoseUpdate(u)
  BY <1>4 DEF LoseUpdate, StaffTypeOK, Founded, Target
<1> QED BY <1>2, <1>3, <1>4 DEF Updating

(* So does asking for one.                                                 *)
LEMMA AskingGrounded ==
  ASSUME Grounded, NEW actor \in Addresses, Asking(actor) PROVE Grounded'
<1> USE NobodyAssumption DEF Grounded
<1>1. CASE SignIn(actor)
  <2>1. users[actor].role \in Roles
    BY <1>1 DEF SignIn, StaffTypeOK, Account
  <2> QED BY <1>1, <2>1 DEF SignIn, SignedIn, StaffTypeOK, Founded, Target
<1>2. CASE TokenExpires(actor)
  BY <1>2 DEF TokenExpires, StaffTypeOK, Founded, Target
<1>3. ASSUME NEW a \in Addresses, NEW role \in Roles, CreateStaff(actor, a, role)
      PROVE  Grounded'
  <2>1. Home(actor) \in Restaurants
    BY <1>3, ManagerHasHome DEF CreateStaff, MayAssign
  <2>2. /\ users' \in [Addresses -> Account \cup {Nobody}]
        /\ \A b \in Addresses : users[b] # Nobody => users'[b] = users[b]
    BY <1>3, <2>1, JoinKeeps DEF CreateStaff
  <2>3. \A u \in Updates : updates[u] # Nobody => Target(u) \in Addresses
    BY DEF StaffTypeOK, Update, Target
  <2> QED BY <1>3, <2>2, <2>3 DEF CreateStaff, StaffTypeOK, Founded, Target
<1>4. ASSUME NEW a \in Addresses, NEW role \in Roles, NEW i \in Invitations,
             ReadInvited(actor, i, a, role)
      PROVE  Grounded'
  <2>1. Home(actor) \in Restaurants
    BY <1>4, ManagerHasHome DEF ReadInvited, MayAssign
  <2>2. [restaurant |-> Home(actor), address |-> a, role |-> role, status |-> "READ"]
          \in Invitation
    BY <2>1 DEF Invitation
  <2> QED BY <1>4, <2>2 DEF ReadInvited, StaffTypeOK, Founded, Target
<1>5. ASSUME NEW i \in Invitations, ReadForRevoke(actor, i) PROVE Grounded'
  BY <1>5 DEF ReadForRevoke, Unanswered, StaffTypeOK, Founded, Target
<1>6. ASSUME NEW u \in Updates, NEW a \in Addresses, NEW role \in Roles \cup {Nobody},
             NEW active \in BOOLEAN \cup {Nobody}, LockTarget(u, actor, a, role, active)
      PROVE  Grounded'
  <2> DEFINE new == [target |-> a, role |-> role, active |-> active, step |-> "TARGET"]
  <2>1. new \in Update /\ new.target = a
    BY DEF Update
  <2>2. StaffTypeOK'
    BY <1>6, <2>1 DEF LockTarget, StaffTypeOK
  <2>3. \A v \in Updates : updates'[v] # Nobody =>
          users[Target(v)'] # Nobody
    BY <1>6, <2>1 DEF LockTarget, Allowed, StaffTypeOK, Founded, Target
  <2> QED BY <1>6, <2>2, <2>3 DEF LockTarget, Founded, Target
<1> QED BY <1>1, <1>2, <1>3, <1>4, <1>5, <1>6 DEF Asking

(* So does every step.                                                     *)
LEMMA StepGrounded == Grounded /\ [StaffStep]_staffVars => Grounded'
<1> SUFFICES ASSUME Grounded, [StaffStep]_staffVars PROVE Grounded'
  OBVIOUS
<1>1. CASE StaffStep
  BY <1>1, OnboardingGrounded, InvitingGrounded, UpdatingGrounded, AskingGrounded DEF StaffStep
<1>2. CASE UNCHANGED staffVars
  BY <1>2 DEF staffVars, Grounded, StaffTypeOK, Founded, Target
<1> QED BY <1>1, <1>2

(* Accounts, links and updates are grounded in every reachable state.      *)
LEMMA StaffGrounded == StaffSpec => []Grounded
<1>1. StaffInit => Grounded
  BY DEF StaffInit, Grounded, StaffTypeOK, Founded
<1> QED BY <1>1, StepGrounded, PTL DEF StaffSpec

(* Accounts, tokens, invitations and updates keep their types.             *)
THEOREM StaffType == StaffSpec => []StaffTypeOK
<1>1. Grounded => StaffTypeOK
  BY DEF Grounded
<1> QED BY <1>1, StaffGrounded, PTL
-----------------------------------------------------------------------------
(* The last owner.  A transaction that takes an owner away holds the row   *)
(* of the restaurant once it has counted, so it is the only one there, and *)
(* what it counted stays true until it commits.                            *)

OneCounts ==
  \A u, v \in Updates :
    /\ Stage(u, "COUNTED") /\ Stage(v, "COUNTED")
    /\ Home(Target(u)) = Home(Target(v))
    => u = v

CountHolds == \A u \in Updates : Stage(u, "COUNTED") => OwnerRemains(u)

OwnersKept == LastOwnerStays /\ OneCounts /\ CountHolds

SameHomes ==
  \A a \in Addresses : users[a] # Nobody =>
    users'[a] # Nobody /\ users'[a].restaurant = users[a].restaurant

(* A step that takes no owner away and counts none.                        *)
LEMMA NoOwnerLeaves ==
  ASSUME Grounded, OwnersKept, SameHomes,
         \A a \in Addresses : users[a] # Nobody /\ users[a].role = "OWNER" /\ users[a].active
            => users'[a].role = "OWNER" /\ users'[a].active,
         \A u \in Updates : Stage(u, "COUNTED")' =>
            Stage(u, "COUNTED") /\ Target(u)' = Target(u),
         restaurants' \subseteq restaurants
  PROVE  OwnersKept'
<1>1. \A r : \A a \in Addresses : ActiveOwner(a, r) => ActiveOwner(a, r)'
  BY DEF SameHomes, ActiveOwner, Works
<1>2. LastOwnerStays'
  BY <1>1 DEF OwnersKept, LastOwnerStays
<1>3. \A u \in Updates : Stage(u, "COUNTED")' =>
         Target(u) \in Addresses /\ Home(Target(u))' = Home(Target(u))
  BY NobodyAssumption DEF Grounded, StaffTypeOK, Founded, Update, Target, Stage, Home, SameHomes
<1>4. OneCounts'
  BY <1>3 DEF OwnersKept, OneCounts
<1>5. CountHolds'
  BY <1>1, <1>3 DEF OwnersKept, CountHolds, OwnerRemains
<1> QED BY <1>2, <1>4, <1>5 DEF OwnersKept

(* A new account takes no owner away; with its restaurant, it is its owner.*)
LEMMA JoinKeepsOwners ==
  ASSUME Grounded, OwnersKept, UNCHANGED updates,
         NEW a \in Addresses, NEW r \in Restaurants, NEW role \in Roles,
         users[a] = Nobody, Join(a, r, role),
         restaurants' = restaurants \/ (role = "OWNER" /\ restaurants' = restaurants \cup {r})
  PROVE  OwnersKept'
<1>1. /\ users'[a] = [restaurant |-> r, role |-> role, active |-> TRUE]
      /\ users'[a] # Nobody
      /\ \A b \in Addresses : users[b] # Nobody => users'[b] = users[b]
  BY JoinKeeps
<1>2. \A q : \A b \in Addresses : ActiveOwner(b, q) => ActiveOwner(b, q)'
  BY <1>1 DEF ActiveOwner, Works
<1>3. role = "OWNER" => ActiveOwner(a, r)'
  BY <1>1 DEF ActiveOwner, Works
<1>4. LastOwnerStays'
  BY <1>2, <1>3 DEF OwnersKept, LastOwnerStays
<1>5. \A u \in Updates : Stage(u, "COUNTED")' =>
         /\ Stage(u, "COUNTED") /\ Target(u) \in Addresses /\ Target(u)' = Target(u)
         /\ Home(Target(u))' = Home(Target(u))
  BY <1>1, NobodyAssumption DEF Grounded, StaffTypeOK, Founded, Update, Target, Stage, Home
<1>6. OneCounts'
  BY <1>5 DEF OwnersKept, OneCounts
<1>7. CountHolds'
  BY <1>2, <1>5 DEF OwnersKept, CountHolds, OwnerRemains
<1> QED BY <1>4, <1>6, <1>7 DEF OwnersKept

(* An update that counts the owners holds their rows from then on.         *)
LEMMA CountKeepsOwners ==
  ASSUME Grounded, OwnersKept, NEW u \in Updates, CountOwners(u) PROVE OwnersKept'
<1>1. updates[u] \in Update /\ updates[u] # Nobody
  BY NobodyAssumption DEF CountOwners, Stage, Grounded, StaffTypeOK
<1>2. /\ [updates[u] EXCEPT !.step = "COUNTED"].target = updates[u].target
      /\ UNCHANGED users
  BY <1>1 DEF CountOwners, Update
<1>3. CASE ~OwnerRemains(u)
  <2>1. \A v \in Updates : Stage(v, "COUNTED")' => Stage(v, "COUNTED") /\ Target(v)' = Target(v)
    BY <1>3 DEF CountOwners, Stage, Target, Grounded, StaffTypeOK
  <2> QED BY <2>1, NoOwnerLeaves DEF CountOwners, SameHomes
<1>4. CASE OwnerRemains(u)
  <2>1. \A v \in Updates : Target(v)' = Target(v) /\ (v # u => Stage(v, "COUNTED")' = Stage(v, "COUNTED"))
    BY <1>2, <1>4 DEF CountOwners, Stage, Target, Grounded, StaffTypeOK
  <2>2. \A r : \A a \in Addresses : ActiveOwner(a, r)' = ActiveOwner(a, r)
    BY <1>2 DEF ActiveOwner, Works
  <2>3. LastOwnerStays'
    BY <2>2 DEF CountOwners, OwnersKept, LastOwnerStays
  <2>4. \A v \in Updates : Home(Target(v))' = Home(Target(v))
    BY <1>2, <2>1 DEF Home
  <2>5. OneCounts'
    BY <2>1, <2>4 DEF OwnersKept, OneCounts, CountOwners, RestaurantFree
  <2>6. CountHolds'
    BY <1>4, <2>1, <2>2, <2>4 DEF OwnersKept, CountHolds, OwnerRemains
  <2> QED BY <2>3, <2>5, <2>6 DEF OwnersKept
<1> QED BY <1>3, <1>4

(* An update that was allowed by its count leaves an owner.                *)
LEMMA CommitKeepsOwners ==
  ASSUME Grounded, OwnersKept, NEW u \in Updates, CommitUpdate(u) PROVE OwnersKept'
<1> DEFINE t == Target(u)
<1>1. updates[u] # Nobody
  BY DEF CommitUpdate, Stage
<1>2. /\ t \in Addresses /\ users[t] # Nobody
      /\ users'[t] = Updated(u) /\ Updated(u) # Nobody
      /\ Updated(u).restaurant = Home(t)
      /\ \A b \in Addresses : b # t => users'[b] = users[b]
  BY <1>1, UpdateKeeps DEF CommitUpdate
<1>3. SameHomes
  BY <1>2 DEF SameHomes, Home
<1>4. \A v \in Updates : Stage(v, "COUNTED")' =>
         v # u /\ Stage(v, "COUNTED") /\ Target(v)' = Target(v)
  BY DEF CommitUpdate, Stage, Target, Grounded, StaffTypeOK
<1>5. CASE ~LeavingOwner(u)
  <2>1. users[t] \in Account /\ updates[u] \in Update
    BY <1>1, <1>2, NobodyAssumption DEF Grounded, StaffTypeOK
  <2>2. users[t].role = "OWNER" /\ users[t].active =>
          Updated(u).role = "OWNER" /\ Updated(u).active
    BY <1>5, <2>1, StaffAssumption DEF LeavingOwner, Updated, Account, Update
  <2>3. \A a \in Addresses : users[a] # Nobody /\ users[a].role = "OWNER" /\ users[a].active
            => users'[a].role = "OWNER" /\ users'[a].active
    BY <1>2, <2>2
  <2> QED BY <1>3, <1>4, <2>3, NoOwnerLeaves DEF CommitUpdate
<1>6. CASE Stage(u, "COUNTED")
  <2>1. \A r : \A b \in Addresses : ActiveOwner(b, r) /\ (b # t \/ r # Home(t)) => ActiveOwner(b, r)'
    BY <1>2 DEF ActiveOwner, Works, Home
  <2>2. \E b \in Addresses \ {t} : ActiveOwner(b, Home(t))
    BY <1>6 DEF OwnersKept, CountHolds, OwnerRemains
  <2>3. LastOwnerStays'
    BY <2>1, <2>2 DEF OwnersKept, LastOwnerStays, CommitUpdate
  <2>4. \A v \in Updates : Stage(v, "COUNTED")' =>
          Target(v) \in Addresses /\ Home(Target(v))' = Home(Target(v))
    BY <1>3, <1>4, NobodyAssumption
    DEF Grounded, StaffTypeOK, Founded, Update, Target, Stage, Home, SameHomes
  <2>5. OneCounts'
    BY <1>4, <2>4 DEF OwnersKept, OneCounts
  <2>6. ASSUME NEW v \in Updates, Stage(v, "COUNTED")' PROVE OwnerRemains(v)'
    <3>1. v # u /\ Stage(v, "COUNTED") /\ Target(v)' = Target(v)
          /\ Home(Target(v))' = Home(Target(v))
      BY <1>4, <2>4, <2>6
    <3>2. Home(Target(v)) # Home(t)
      BY <1>6, <3>1 DEF OwnersKept, OneCounts
    <3> QED BY <2>1, <3>1, <3>2 DEF OwnersKept, CountHolds, OwnerRemains
  <2>7. CountHolds'
    BY <2>6 DEF CountHolds
  <2> QED BY <2>3, <2>5, <2>7 DEF OwnersKept
<1> QED BY <1>5, <1>6 DEF CommitUpdate

(* Rule 3 of staff.js: a restaurant keeps an active owner, for any number  *)
(* of owners that remove each other at once (assertOwnerRemains).          *)
THEOREM OwnerStays == StaffSpec => []LastOwnerStays
<1>1. StaffInit => OwnersKept
  BY DEF StaffInit, OwnersKept, LastOwnerStays, OneCounts, CountHolds, Stage
<1>2. Grounded /\ OwnersKept /\ [StaffStep]_staffVars => OwnersKept'
  <2> SUFFICES ASSUME Grounded, OwnersKept, [StaffStep]_staffVars PROVE OwnersKept'
    OBVIOUS
  <2>1. ASSUME UNCHANGED <<restaurants, users, updates>> PROVE OwnersKept'
    BY <2>1, NoOwnerLeaves DEF SameHomes, Stage, Target
  <2>2. ASSUME NEW l \in Leads, VerifySignup(l) PROVE OwnersKept'
    <3>1. LeadOf[l].restaurant \in Restaurants /\ LeadOf[l].address \in Addresses
          /\ "OWNER" \in Roles
      BY StaffAssumption
    <3> QED BY <2>2, <3>1, JoinKeepsOwners DEF VerifySignup
  <2>3. ASSUME NEW i \in Invitations, AcceptInvitation(i) PROVE OwnersKept'
    <3>1. invitations[i] \in Invitation
      BY <2>3 DEF AcceptInvitation, Grounded, StaffTypeOK
    <3>2. /\ invitations[i].restaurant \in Restaurants
          /\ invitations[i].address \in Addresses /\ invitations[i].role \in Roles
      BY <3>1 DEF Invitation
    <3> QED BY <2>3, <3>2, JoinKeepsOwners DEF AcceptInvitation
  <2>4. ASSUME NEW actor \in Addresses, NEW a \in Addresses, NEW role \in Roles,
               CreateStaff(actor, a, role)
        PROVE  OwnersKept'
    <3>1. Home(actor) \in Restaurants
      BY <2>4, ManagerHasHome DEF CreateStaff, MayAssign
    <3> QED BY <2>4, <3>1, JoinKeepsOwners DEF CreateStaff
  <2>5. ASSUME NEW u \in Updates,
               LoseUpdate(u) \/ \E actor, a \in Addresses, role \in Roles \cup {Nobody},
                                 active \in BOOLEAN \cup {Nobody} :
                                   LockTarget(u, actor, a, role, active)
        PROVE  OwnersKept'
    <3>1. /\ \A v \in Updates : Stage(v, "COUNTED")' =>
                Stage(v, "COUNTED") /\ Target(v)' = Target(v)
          /\ UNCHANGED <<restaurants, users>>
      BY <2>5 DEF LoseUpdate, LockTarget, Stage, Target, Grounded, StaffTypeOK
    <3> QED BY <3>1, NoOwnerLeaves DEF SameHomes
  <2>6. CASE UNCHANGED staffVars
    BY <2>1, <2>6 DEF staffVars
  <2>7. ASSUME NEW l \in Leads, Onboarding(l) PROVE OwnersKept'
    BY <2>1, <2>2, <2>7 DEF Onboarding, SubmitLead, InviteLead, LinkExpires
  <2>8. ASSUME NEW i \in Invitations, Inviting(i) PROVE OwnersKept'
    BY <2>1, <2>3, <2>8
    DEF Inviting, Invite, InviteRefused, InvitationExpires, Revoke, RevokeRefused
  <2>9. ASSUME NEW u \in Updates, Updating(u) PROVE OwnersKept'
    BY <2>5, <2>9, CountKeepsOwners, CommitKeepsOwners DEF Updating
  <2>10. ASSUME NEW actor \in Addresses, Asking(actor) PROVE OwnersKept'
    BY <2>1, <2>4, <2>5, <2>10
    DEF Asking, SignIn, TokenExpires, ReadInvited, ReadForRevoke
  <2> QED BY <2>6, <2>7, <2>8, <2>9, <2>10 DEF StaffStep
<1>3. OwnersKept => LastOwnerStays
  BY DEF OwnersKept
<1> QED BY <1>1, <1>2, <1>3, StaffGrounded, PTL DEF StaffSpec
-----------------------------------------------------------------------------
(* Invitations.  What a status change of one invitation does to the rows.  *)
LEMMA StatusChange ==
  ASSUME Grounded, NEW i \in Invitations, invitations[i] # Nobody, NEW status,
         invitations' = [invitations EXCEPT ![i].status = status]
  PROVE  /\ invitations'[i].status = status
         /\ invitations'[i].restaurant = invitations[i].restaurant
         /\ invitations'[i].address = invitations[i].address
         /\ invitations[i].status = status => invitations'[i] = invitations[i]
         /\ \A j \in Invitations : j # i => invitations'[j] = invitations[j]
<1>1. invitations[i] \in Invitation
  BY NobodyAssumption DEF Grounded, StaffTypeOK
<1>2. invitations'[i] = [invitations[i] EXCEPT !.status = status]
  BY DEF Grounded, StaffTypeOK
<1> QED BY <1>1, <1>2 DEF Invitation, Grounded, StaffTypeOK

(* What Invite leaves of each invitation.                                  *)
LEMMA InviteChange ==
  ASSUME Grounded, NEW i \in Invitations, Invite(i)
  PROVE  /\ invitations'[i].status = "OPEN"
         /\ \A j \in Invitations : invitations[j] # Nobody =>
              /\ invitations'[j] # Nobody
              /\ invitations'[j].restaurant = invitations[j].restaurant
              /\ invitations'[j].address = invitations[j].address
         /\ \A j \in Invitations \ {i} :
              IF j \in OpenFor(i) THEN invitations'[j].status = "REVOKED"
              ELSE invitations'[j] = invitations[j]
<1>1. \A j \in Invitations : invitations[j] # Nobody => invitations[j] \in Invitation
  BY DEF Grounded, StaffTypeOK
<1>2. \A j \in Invitations : invitations'[j] = MakeInvitation(i)[j]
  BY DEF Invite
<1>3. \A j \in Invitations : invitations[j] # Nobody => \A s \in {"OPEN", "REVOKED"} :
         /\ [invitations[j] EXCEPT !.status = s] \in Invitation
         /\ [invitations[j] EXCEPT !.status = s].status = s
         /\ [invitations[j] EXCEPT !.status = s].restaurant = invitations[j].restaurant
         /\ [invitations[j] EXCEPT !.status = s].address = invitations[j].address
  BY <1>1 DEF Invitation
<1> QED BY <1>2, <1>3, NobodyAssumption DEF Invite, MakeInvitation, OpenFor, SameInvited

(* One open invitation for an address and a restaurant, however many       *)
(* managers invite it at once (the partial index of migration 048).        *)
THEOREM OneInvitation == StaffSpec => []OneOpenInvitation
<1>1. StaffInit => OneOpenInvitation
  BY DEF StaffInit, OneOpenInvitation
<1>2. Grounded /\ OneOpenInvitation /\ [StaffStep]_staffVars => OneOpenInvitation'
  <2> SUFFICES ASSUME Grounded, OneOpenInvitation, [StaffStep]_staffVars
               PROVE  OneOpenInvitation'
    OBVIOUS
  <2> USE DEF OneOpenInvitation, OpenFor, SameInvited, Unanswered
  <2>1. ASSUME \A i \in Invitations :
                 invitations'[i] # Nobody /\ invitations'[i].status \in Unanswered =>
                   /\ invitations[i] # Nobody /\ invitations[i].status \in Unanswered
                   /\ invitations'[i].restaurant = invitations[i].restaurant
                   /\ invitations'[i].address = invitations[i].address
        PROVE  OneOpenInvitation'
    BY <2>1
  <2>2. ASSUME NEW i \in Invitations, invitations[i] # Nobody,
               \E s \in {"ACCEPTED", "REVOKED"} :
                 invitations' = [invitations EXCEPT ![i].status = s]
        PROVE  OneOpenInvitation'
    BY <2>1, <2>2, StatusChange
  <2>3. ASSUME NEW i \in Invitations, InvitationExpires(i) PROVE OneOpenInvitation'
    BY <2>1, <2>3, StatusChange DEF InvitationExpires
  <2>4. ASSUME NEW i \in Invitations, Invite(i) PROVE OneOpenInvitation'
    <3>1. \A j \in Invitations \ {i} :
            invitations'[j] # Nobody /\ invitations'[j].status \in Unanswered =>
              invitations'[j] = invitations[j] /\ j \notin OpenFor(i)
      BY <2>4, InviteChange
    <3>2. /\ invitations[i] # Nobody
          /\ invitations'[i].restaurant = invitations[i].restaurant
          /\ invitations'[i].address = invitations[i].address
      BY <2>4, InviteChange DEF Invite
    <3> QED BY <3>1, <3>2
  <2>5. ASSUME NEW i \in Invitations, Inviting(i) PROVE OneOpenInvitation'
    <3>1. CASE InviteRefused(i)
      BY <2>1, <3>1 DEF InviteRefused, Grounded, StaffTypeOK
    <3>2. CASE Revoke(i)
      BY <2>2, <3>2 DEF Revoke, Grounded, Founded
    <3>3. CASE AcceptInvitation(i)
      BY <2>2, <3>3 DEF AcceptInvitation
    <3>4. CASE RevokeRefused(i)
      BY <2>1, <3>4 DEF RevokeRefused
    <3> QED BY <2>3, <2>4, <2>5, <3>1, <3>2, <3>3, <3>4 DEF Inviting
  <2>6. ASSUME NEW actor \in Addresses, Asking(actor) PROVE OneOpenInvitation'
    <3>1. ASSUME NEW a \in Addresses, NEW role \in Roles, NEW i \in Invitations,
                 ReadInvited(actor, i, a, role)
          PROVE  OneOpenInvitation'
      BY <2>1, <3>1 DEF ReadInvited, Grounded, StaffTypeOK
    <3>2. CASE UNCHANGED invitations
      BY <2>1, <3>2
    <3> QED BY <2>6, <3>1, <3>2
        DEF Asking, SignIn, TokenExpires, CreateStaff, ReadForRevoke, LockTarget
  <2>7. CASE UNCHANGED invitations
    BY <2>1, <2>7
  <2> QED
    BY <2>5, <2>6, <2>7
    DEF StaffStep, Onboarding, SubmitLead, InviteLead, LinkExpires, VerifySignup,
        Updating, CountOwners, CommitUpdate, LoseUpdate, staffVars
<1> QED BY <1>1, <1>2, StaffGrounded, PTL DEF StaffSpec

(* An invitation is answered once, whatever a revocation read of it before *)
(* (invitation_outcome_check).                                             *)
THEOREM InvitationAnsweredOnce == StaffSpec => AnsweredOnce
<1> DEFINE Resolved(i) ==
      invitations[i] # Nobody /\ invitations[i].status \in {"ACCEPTED", "REVOKED"}
<1>1. Grounded /\ [StaffStep]_staffVars =>
        [\A i \in Invitations : Resolved(i) => invitations'[i] = invitations[i]]_staffVars
  <2> SUFFICES ASSUME Grounded, StaffStep, NEW i \in Invitations, Resolved(i)
               PROVE  invitations'[i] = invitations[i]
    OBVIOUS
  <2>1. ASSUME NEW k \in Invitations, Inviting(k) PROVE invitations'[i] = invitations[i]
    <3>1. CASE Invite(k)
      <4>1. i # k /\ i \notin OpenFor(k)
        BY <3>1 DEF Invite, OpenFor, Unanswered
      <4> QED BY <3>1, <4>1, InviteChange
    <3>2. CASE InviteRefused(k)
      BY <3>2 DEF InviteRefused, Grounded, StaffTypeOK
    <3>3. CASE InvitationExpires(k) \/ AcceptInvitation(k)
      BY <3>3, StatusChange DEF InvitationExpires, AcceptInvitation
    <3>4. CASE Revoke(k)
      <4>1. invitations[k] # Nobody /\ invitations[k].status # "ACCEPTED"
        BY <3>4 DEF Revoke, Revocable, Grounded, Founded
      <4> QED BY <3>4, <4>1, StatusChange DEF Revoke
    <3>5. CASE RevokeRefused(k)
      BY <3>5 DEF RevokeRefused
    <3> QED BY <2>1, <3>1, <3>2, <3>3, <3>4, <3>5 DEF Inviting
  <2>2. ASSUME NEW actor \in Addresses, Asking(actor) PROVE invitations'[i] = invitations[i]
    <3>1. ASSUME NEW a \in Addresses, NEW role \in Roles, NEW j \in Invitations,
                 ReadInvited(actor, j, a, role)
          PROVE  invitations'[i] = invitations[i]
      BY <3>1 DEF ReadInvited, Grounded, StaffTypeOK
    <3> QED BY <2>2, <3>1
        DEF Asking, SignIn, TokenExpires, CreateStaff, ReadForRevoke, LockTarget
  <2> QED
    BY <2>1, <2>2
    DEF StaffStep, Onboarding, SubmitLead, InviteLead, LinkExpires, VerifySignup,
        Updating, CountOwners, CommitUpdate, LoseUpdate
<1> QED BY <1>1, StaffGrounded, PTL DEF StaffSpec, AnsweredOnce

-----------------------------------------------------------------------------
(* The idempotency key.                                                    *)

(* The request that works under the key stands on a live row, claimed for  *)
(* its own use and not answered yet, but by itself on its way to an error. *)
OwnerHoldsRow ==
  \A r \in Requests : requests[r].at \in Owning =>
    /\ row # None /\ ~ expired /\ row.hash = requests[r].hash
    /\ row.response = None \/ (requests[r].at = "THROWING" /\ row.response = r)

(* Payment rows are never written but by the one request that finds none,  *)
(* and a request past that point has one.                                  *)
PaidByOne ==
  /\ paid = {} \/ \E r \in Requests : paid = {r}
  /\ \A r \in paid : requests[r].at # "NEW"
  /\ \A r \in Requests : requests[r].at \in {"PAID", "RETURNED"} => r \in paid

(* What is stored is the answer of a request that paid, for the use the    *)
(* row was claimed for.                                                    *)
StoredIsPaid ==
  row # None /\ row.response # None
    => row.response \in paid /\ requests[row.response].hash = row.hash

(* A request past its arrival knows what the key is for.                   *)
Arrived == \A r \in Requests : requests[r].at # "NEW" => requests[r].hash \in Hashes

IInv == TypeOK /\ Arrived /\ (expired => row # None) /\ OneOwner /\ OwnerHoldsRow
          /\ PaidByOne /\ StoredIsPaid /\ ReplayIsTheOutcome
-----------------------------------------------------------------------------
(* No request is under way at first.                                       *)
LEMMA InvInit == Init => IInv
<1> SUFFICES ASSUME Init PROVE IInv
  OBVIOUS
<1>1. TypeOK
  <2>1. requests \in [Requests -> [at : Place, hash : Hashes \cup {None},
                       attempt : 1 .. MaxClaimAttempts, answer : Requests \cup {None}]]
    BY DEF Init, Place, MaxClaimAttempts
  <2> QED BY <2>1 DEF Init, TypeOK
<1>2. \A r \in Requests : requests[r].at = "NEW"
  BY DEF Init
<1>3. Arrived /\ OneOwner /\ OwnerHoldsRow /\ ReplayIsTheOutcome
  BY <1>2 DEF Arrived, OneOwner, OwnerHoldsRow, ReplayIsTheOutcome, Owning, At
<1>4. PaidByOne /\ StoredIsPaid /\ ~ expired
  BY <1>2 DEF Init, PaidByOne, StoredIsPaid
<1> QED BY <1>1, <1>3, <1>4 DEF IInv

(* The type: every step of a request moves that request and leaves the     *)
(* row empty, as it was, or as another row of its type.                    *)
LEMMA TypeStep == IInv /\ [Next]_vars => TypeOK'
<1> SUFFICES ASSUME IInv, [Next]_vars PROVE TypeOK'
  OBVIOUS
<1> USE IdempotencyAssumption DEF IInv, TypeOK, Row, MaxClaimAttempts, Place
<1>1. CASE UNCHANGED vars
  BY <1>1 DEF vars
<1>2. ASSUME NEW r \in Requests, NEW hash \in Hashes, Arrive(r, hash) PROVE TypeOK'
  BY <1>2 DEF Arrive, At
<1>3. ASSUME NEW r \in Requests, Step(r) \/ Crash(r) PROVE TypeOK'
  <2>1. CASE ClearExpired(r)
    BY <2>1 DEF ClearExpired, At, Goes
  <2>2. CASE Claim(r)
    <3>1. requests[r].hash \in Hashes
      BY <2>2 DEF Claim, At, Arrived
    <3> QED BY <2>2, <3>1 DEF Claim, Goes
  <2>3. CASE FindTaken(r)
    BY <2>3 DEF FindTaken, At, Goes
  <2>4. CASE FindVanished(r)
    <3>1. requests[r].attempt \in {1, 2}
      OBVIOUS
    <3>2. CASE requests[r].attempt = MaxClaimAttempts
      BY <2>4, <3>2 DEF FindVanished, At, Goes
    <3>3. CASE requests[r].attempt = 1
      BY <2>4, <3>3 DEF FindVanished, At, Goes
    <3> QED BY <3>1, <3>2, <3>3
  <2>5. CASE RefuseOtherUse(r)
    BY <2>5 DEF RefuseOtherUse, At, Goes
  <2>6. CASE Replay(r)
    <3>1. row.response \in Requests
      BY <2>6 DEF Replay
    <3>2. PICK q \in Requests : q = row.response
      BY <3>1
    <3>3. requests' = [requests EXCEPT ![r].at = "REPLAYED", ![r].answer = q]
      BY <2>6, <3>2 DEF Replay, Answers
    <3>4. UNCHANGED <<row, expired, paid>>
      BY <2>6 DEF Replay
    <3> QED BY <3>3, <3>4
  <2>7. CASE FindBusy(r)
    BY <2>7 DEF FindBusy, At, Goes
  <2>8. CASE Pay(r)
    BY <2>8 DEF Pay, At, Goes
  <2>9. CASE Refuse(r)
    BY <2>9 DEF Refuse, At, Goes
  <2>10. CASE Return(r)
    BY <2>10 DEF Return, At, Answers
  <2>11. CASE PayThrows(r)
    BY <2>11 DEF PayThrows, At, Goes
  <2>12. CASE Complete(r)
    BY <2>12 DEF Complete, Stored, At, Answers
  <2>13. CASE CompleteThrows(r)
    BY <2>13 DEF CompleteThrows, Stored, At, Goes
  <2>14. CASE Abort(r)
    BY <2>14 DEF Abort, At, Goes, Released
  <2>15. CASE AbortFails(r)
    BY <2>15 DEF AbortFails, At, Goes
  <2>16. CASE Crash(r)
    BY <2>16 DEF Crash, Goes
  <2> QED BY <1>3, <2>1, <2>2, <2>3, <2>4, <2>5, <2>6, <2>7, <2>8, <2>9, <2>10, <2>11, <2>12, <2>13, <2>14, <2>15, <2>16 DEF Step
<1>4. CASE Expire \/ Purge
  BY <1>4 DEF Expire, Purge
<1> QED BY <1>1, <1>2, <1>3, <1>4 DEF Next
-----------------------------------------------------------------------------
(* Every step keeps the owner of a key, its payment and its answer         *)
(* together.                                                               *)
LEMMA InvStep == IInv /\ [Next]_vars => IInv'
<1> SUFFICES ASSUME IInv, [Next]_vars PROVE IInv'
  OBVIOUS
<1>0. TypeOK'
  BY TypeStep
<1> DEFINE J == Arrived /\ (expired => row # None) /\ OneOwner /\ OwnerHoldsRow /\ PaidByOne /\ StoredIsPaid /\ ReplayIsTheOutcome
<1> USE IdempotencyAssumption DEF IInv, Arrived, OneOwner, OwnerHoldsRow, PaidByOne, StoredIsPaid, ReplayIsTheOutcome, TypeOK, Row, Owning, Place
<1>1. CASE UNCHANGED vars
  BY <1>1 DEF vars, At
<1>2. ASSUME NEW r \in Requests, NEW hash \in Hashes, Arrive(r, hash) PROVE J'
  BY <1>2 DEF Arrive, At
<1>3. ASSUME NEW r \in Requests, Step(r) \/ Crash(r) PROVE J'
  <2>1. CASE ClearExpired(r)
    BY <2>1 DEF ClearExpired, At, Goes
  <2>2. CASE Claim(r)
    <3>1. /\ row = None /\ requests[r].hash \in Hashes
          /\ row' = [hash |-> requests[r].hash, response |-> None]
          /\ UNCHANGED <<expired, paid>>
      BY <2>2 DEF Claim, At
    <3>2. row' \in Row /\ row' # None
      BY <3>1
    <3> QED BY <2>2, <3>1, <3>2 DEF Claim, At, Goes
  <2>3. CASE FindTaken(r)
    BY <2>3 DEF FindTaken, At, Goes
  <2>4. CASE FindVanished(r)
    BY <2>4 DEF FindVanished, At, Goes
  <2>5. CASE RefuseOtherUse(r)
    BY <2>5 DEF RefuseOtherUse, At, Goes
  <2>6. CASE Replay(r)
    BY <2>6 DEF Replay, At, Answers, SameUse
  <2>7. CASE FindBusy(r)
    BY <2>7 DEF FindBusy, At, Goes
  <2>8. CASE Pay(r)
    BY <2>8 DEF Pay, At, Goes, KeyUnpaid
  <2>9. CASE Refuse(r)
    BY <2>9 DEF Refuse, At, Goes
  <2>10. CASE Return(r)
    BY <2>10 DEF Return, At, Answers
  <2>11. CASE PayThrows(r)
    BY <2>11 DEF PayThrows, At, Goes
  <2>12. CASE Complete(r)
    BY <2>12 DEF Complete, Stored, At, Answers
  <2>13. CASE CompleteThrows(r)
    BY <2>13 DEF CompleteThrows, Stored, At, Goes
  <2>14. CASE Abort(r)
    BY <2>14 DEF Abort, At, Goes, Released
  <2>15. CASE AbortFails(r)
    BY <2>15 DEF AbortFails, At, Goes
  <2>16. CASE Crash(r)
    BY <2>16 DEF Crash, At, Goes
  <2> QED BY <1>3, <2>1, <2>2, <2>3, <2>4, <2>5, <2>6, <2>7, <2>8, <2>9, <2>10, <2>11, <2>12, <2>13, <2>14, <2>15, <2>16 DEF Step
<1>4. CASE Expire \/ Purge
  BY <1>4 DEF Expire, Purge, At
<1> QED BY <1>0, <1>1, <1>2, <1>3, <1>4 DEF Next

(* The inductive invariant of the idempotency keys.                        *)
LEMMA InvSafe == Spec => []IInv
BY InvInit, InvStep, PTL DEF Spec
-----------------------------------------------------------------------------
(* idempotency_keys never hands one key to two requests at a time, the     *)
(* ones that lost their claim to a vanishing row included.                 *)
THEOREM OneOwnerHolds == Spec => []OneOwner
<1>1. IInv => OneOwner
  BY DEF IInv
<1> QED BY <1>1, InvSafe, PTL

(* begin replays only the answer of a request that paid for the same use.  *)
THEOREM ReplayHolds == Spec => []ReplayIsTheOutcome
<1>1. IInv => ReplayIsTheOutcome
  BY DEF IInv
<1> QED BY <1>1, InvSafe, PTL

(* No step, abort and a late complete included, removes or overwrites a    *)
(* response that is stored and not expired.                                *)
THEOREM ResponseKeptHolds == Spec => ResponseKept
<1> DEFINE Keeps == row # None /\ row.response # None /\ ~ expired => row' = row
<1>1. IInv /\ [Next]_vars => Keeps
  <2> SUFFICES ASSUME IInv, [Next]_vars, row # None, row.response # None, ~ expired
               PROVE  row' = row
    OBVIOUS
  <2>1. CASE UNCHANGED vars
    BY <2>1 DEF vars
  <2>2. ASSUME NEW r \in Requests, \/ \E hash \in Hashes : Arrive(r, hash)
                                   \/ Step(r) \/ Crash(r)
        PROVE  row' = row
    <3>1. requests[r].at \notin {"OWNER", "PAID", "RETURNED"}
      BY DEF IInv, OwnerHoldsRow, Owning
    <3>2. ~ Claim(r) /\ ~ Complete(r) /\ ~ CompleteThrows(r)
      BY <3>1 DEF Claim, Complete, CompleteThrows, At
    <3> QED BY <2>2, <3>2 DEF Step, Arrive, Crash, ClearExpired, FindTaken, FindVanished,
              RefuseOtherUse, Replay, FindBusy, Pay, Refuse, Return, PayThrows,
              Abort, AbortFails, Released
  <2>3. CASE Expire \/ Purge
    BY <2>3 DEF Expire, Purge
  <2> QED BY <2>1, <2>2, <2>3 DEF Next
<1> QED BY <1>1, InvSafe, PTL DEF Spec, ResponseKept
-----------------------------------------------------------------------------
(* What the staff read of the money.                                       *)

PaymentRow == [status : {"NONE", "PENDING", "SUCCEEDED"}, declared : Moments, settled : Moments]
Transaction == [to : {"PENDING", "SUCCEEDED"}, at : Moments]
Feed == [since : Moments \cup {NoOne}, rows : SUBSET Payments, step : {"IDLE", "READ"}]

(* Payments that begin and commit keep the types.                          *)
LEMMA PaymentsTyped ==
  ASSUME ReportsTypeOK, NEW p \in Payments,
         Commit(p) \/ \E to \in {"PENDING", "SUCCEEDED"} : Begin(p, to)
  PROVE  ReportsTypeOK'
<1>1. ASSUME NEW to \in {"PENDING", "SUCCEEDED"}, Begin(p, to) PROVE ReportsTypeOK'
  <2>1. [to |-> to, at |-> clock] \in Transaction
    BY DEF ReportsTypeOK, Transaction
  <2>2. writing' \in [Payments -> Transaction \cup {NoOne}]
    BY <1>1, <2>1 DEF Begin, ReportsTypeOK, Transaction
  <2> QED BY <1>1, <2>2 DEF Begin, ReportsTypeOK, Transaction, serving, reading, polling
<1>2. CASE Commit(p)
  <2> DEFINE d == IF writing[p].to = "PENDING" THEN writing[p].at ELSE payment[p].declared
             s == IF writing[p].to = "SUCCEEDED" THEN writing[p].at ELSE payment[p].settled
  <2>1. writing[p] \in Transaction /\ payment[p] \in PaymentRow
    BY <1>2 DEF Commit, ReportsTypeOK, Transaction, PaymentRow
  <2>2. d \in Moments /\ s \in Moments /\ writing[p].to \in {"PENDING", "SUCCEEDED"}
    BY <2>1 DEF Transaction, PaymentRow
  <2>3. \A x \in PaymentRow, to \in {"PENDING", "SUCCEEDED"}, e, f \in Moments :
          [x EXCEPT !.status = to, !.declared = e, !.settled = f] \in PaymentRow
    BY DEF PaymentRow
  <2>4. payment' = [payment EXCEPT ![p] = [payment[p] EXCEPT !.status = writing[p].to,
                                                             !.declared = d, !.settled = s]]
    BY <1>2 DEF Commit, ReportsTypeOK
  <2>5. [payment[p] EXCEPT !.status = writing[p].to, !.declared = d, !.settled = s] \in PaymentRow
    <3> HIDE DEF d, s
    <3> QED BY <2>1, <2>2, <2>3
  <2>6. payment' \in [Payments -> PaymentRow]
    <3> HIDE DEF d, s
    <3> QED BY <2>4, <2>5 DEF ReportsTypeOK, PaymentRow
  <2> QED BY <1>2, <2>6 DEF Commit, ReportsTypeOK, PaymentRow, serving, reading, polling
<1> QED BY <1>1, <1>2

(* So does who serves which bill.                                          *)
LEMMA ServingTyped == ASSUME ReportsTypeOK, Serving PROVE ReportsTypeOK'
<1> USE DEF ReportsTypeOK, money, reading, polling
<1>1. ASSUME NEW q \in Patches, NEW by \in Staff, NEW to \in Staff \cup {NoOne}, NEW b \in Bills,
             AskServer(q, by, to, b)
      PROVE  ReportsTypeOK'
  <2>1. [by |-> by, to |-> to, bill |-> b, step |-> "CHECKED"] \in Patch
    BY DEF Patch
  <2> QED BY <1>1, <2>1 DEF AskServer
<1>2. ASSUME NEW q \in Patches, ReadServer(q) PROVE ReportsTypeOK'
  <2>1. patches[q] \in Patch
    BY <1>2 DEF ReadServer, Idle
  <2>2. [patches[q] EXCEPT !.step = "LOCKED"] \in Patch
    BY <2>1 DEF Patch
  <2>3. patches' = [patches EXCEPT ![q] = IF MayTake(q) THEN [patches[q] EXCEPT !.step = "LOCKED"] ELSE Idle]
    BY <1>2 DEF ReadServer
  <2> QED BY <1>2, <2>2, <2>3 DEF ReadServer
<1>3. ASSUME NEW q \in Patches, WriteServer(q) PROVE ReportsTypeOK'
  <2>1. patches[q].to \in Staff \cup {NoOne}
    BY <1>3 DEF WriteServer, Idle, Patch
  <2> QED BY <1>3, <2>1 DEF WriteServer
<1> QED BY <1>1, <1>2, <1>3 DEF Serving

(* So do attendance and the reports of tips.                               *)
LEMMA TipsTyped == ASSUME ReportsTypeOK, Tips PROVE ReportsTypeOK'
<1> USE DEF ReportsTypeOK, money, serving, polling
<1>1. ASSUME NEW w \in Shifts, ReadMethods(w) PROVE ReportsTypeOK'
  <2>1. [shift |-> w, total |-> Within(w), byServer |-> {}, step |-> "METHODS"] \in ReportRead
    BY DEF ReportRead, Within
  <2> QED BY <1>1, <2>1 DEF ReadMethods
<1>2. CASE ReadServers
  <2>1. report \in ReportRead /\ Within(report.shift) \in SUBSET Payments
    BY <1>2 DEF ReadServers, Idle, Within
  <2>2. report' \in ReportRead
    BY <1>2, <2>1 DEF ReadServers, ReportRead
  <2> QED BY <1>2, <2>2 DEF ReadServers
<1>3. CASE Hand
  <2>1. report \in ReportRead
    BY <1>3 DEF Hand, Idle
  <2>2. report.shift \in Shifts /\ report.total \in SUBSET Payments /\ report.byServer \in SUBSET Payments
    BY <2>1 DEF ReportRead
  <2> QED BY <1>3, <2>2 DEF Hand
<1> QED BY <1>1, <1>2, <1>3 DEF Tips

(* So does the feed of the dashboard.                                      *)
LEMMA WatchingTyped == ASSUME ReportsTypeOK, Watching PROVE ReportsTypeOK'
<1> USE DEF ReportsTypeOK, money, serving, reading
<1>1. feed \in Feed
  BY DEF Feed
<1>2. CASE Poll
  <2>1. PICK T \in Page(Entries(feed.since), feed.since = NoOne) :
          feed' = [feed EXCEPT !.rows = Settled(T), !.step = "READ"]
    BY <1>2 DEF Poll
  <2>2. Settled(T) \in SUBSET Payments /\ Settled(Entries(feed.since)) \in SUBSET Payments
    BY DEF Page, Entries, Settled
  <2>3. feed' \in Feed
    BY <1>1, <2>1, <2>2 DEF Feed
  <2> QED BY <1>2, <2>2, <2>3 DEF Poll, Feed
<1>3. CASE AnswerPoll
  <2>1. feed' \in Feed /\ feed.rows \in SUBSET Payments
    BY <1>1, <1>3 DEF AnswerPoll, Feed
  <2> QED BY <1>3, <2>1 DEF AnswerPoll, Feed
<1> QED BY <1>2, <1>3 DEF Watching

(* Payments, requests, reports and the feed stay what they are.            *)
THEOREM ReportsType == ReportsSpec => []ReportsTypeOK
<1>1. ReportsInit => ReportsTypeOK
  <2> SUFFICES ASSUME ReportsInit PROVE ReportsTypeOK
    OBVIOUS
  <2>1. 0 \in Moments /\ Waiters \subseteq Staff
    BY ReportsAssumption DEF Moments, Staff
  <2>2. payment \in [Payments -> PaymentRow] /\ feed \in Feed
    BY <2>1 DEF ReportsInit, PaymentRow, Feed
  <2> QED BY <2>1, <2>2 DEF ReportsInit, ReportsTypeOK, PaymentRow, Feed
<1>2. ReportsTypeOK /\ [ReportsStep]_reportVars => ReportsTypeOK'
  <2> SUFFICES ASSUME ReportsTypeOK, [ReportsStep]_reportVars PROVE ReportsTypeOK'
    OBVIOUS
  <2>1. CASE Pass
    <3>1. clock' \in Moments
      BY <2>1, ReportsAssumption DEF Pass, ReportsTypeOK, Moments
    <3> QED BY <2>1, <3>1 DEF Pass, ReportsTypeOK, money, serving, reading, polling
  <2>2. CASE UNCHANGED reportVars
    BY <2>2 DEF reportVars, ReportsTypeOK, money, serving, reading, polling
  <2> QED BY <2>1, <2>2, PaymentsTyped, ServingTyped, TipsTyped, WatchingTyped
      DEF ReportsStep, Paying
<1> QED BY <1>1, <1>2, PTL DEF ReportsSpec

(* A payment that has settled stays as it is: what a report or the reports *)
(* of a shift have added up has settled in that shift.                     *)
SettledIn(p, w) == payment[p].status = "SUCCEEDED" /\ payment[p].settled = w

TipsInTheirShift ==
  /\ \A p \in Payments : writing[p] # NoOne => payment[p].status # "SUCCEEDED"
  /\ \A w \in Shifts : \A p \in counted[w] : SettledIn(p, w)
  /\ report # Idle => \A p \in report.total \cup report.byServer : SettledIn(p, report.shift)

(* What is within a shift settled in it.                                   *)
LEMMA WithinShift ==
  ASSUME ReportsTypeOK, NEW w \in Shifts PROVE \A p \in Within(w) : p \in Payments /\ SettledIn(p, w)
<1> SUFFICES ASSUME NEW p \in Within(w) PROVE p \in Payments /\ SettledIn(p, w)
  OBVIOUS
<1>1. p \in Payments /\ payment[p].status = "SUCCEEDED" /\ w <= payment[p].settled /\ payment[p].settled < w + 1
  BY DEF Within
<1>2. payment[p].settled \in Int /\ w \in Int
  BY <1>1 DEF ReportsTypeOK, Moments, Shifts
<1> QED BY <1>1, <1>2 DEF SettledIn

(* No tip is handed out with two shifts, however many payments settle      *)
(* while the reports are read (tips.js).                                   *)
THEOREM TipsAreCountedOnce == ReportsSpec => []TipsCountedOnce
<1>1. ReportsInit => TipsInTheirShift
  BY DEF ReportsInit, TipsInTheirShift
<1>2. ReportsTypeOK /\ TipsInTheirShift /\ [ReportsStep]_reportVars => TipsInTheirShift'
  <2> SUFFICES ASSUME ReportsTypeOK, TipsInTheirShift, [ReportsStep]_reportVars
               PROVE  TipsInTheirShift'
    OBVIOUS
  <2> USE DEF money, serving, reading, polling
  <2>1. ASSUME NEW p \in Payments, Commit(p) PROVE TipsInTheirShift'
    <3>1. payment[p].status # "SUCCEEDED" /\ writing' = [writing EXCEPT ![p] = NoOne]
          /\ \A x \in Payments \ {p} : payment'[x] = payment[x]
      BY <2>1 DEF Commit, TipsInTheirShift, ReportsTypeOK
    <3>2. writing'[p] = NoOne /\ \A x \in Payments \ {p} : writing'[x] = writing[x]
      BY <3>1 DEF ReportsTypeOK
    <3>3. \A x, w : SettledIn(x, w) /\ x \in Payments => SettledIn(x, w)'
      BY <3>1 DEF SettledIn
    <3>4. \A w \in Shifts : counted[w] \subseteq Payments
      BY DEF ReportsTypeOK
    <3>5. report # Idle => report.total \cup report.byServer \subseteq Payments
      BY DEF ReportsTypeOK, ReportRead
    <3>6. UNCHANGED <<counted, report>>
      BY <2>1 DEF Commit
    <3> QED BY <3>1, <3>2, <3>3, <3>4, <3>5, <3>6 DEF TipsInTheirShift
  <2>2. ASSUME NEW p \in Payments, NEW to \in {"PENDING", "SUCCEEDED"}, Begin(p, to)
        PROVE  TipsInTheirShift'
    <3>1. /\ payment[p].status # "SUCCEEDED" /\ UNCHANGED <<payment, counted, report>>
          /\ \A x \in Payments \ {p} : writing'[x] = writing[x]
      BY <2>2 DEF Begin, ReportsTypeOK
    <3> QED BY <3>1 DEF TipsInTheirShift, SettledIn
  <2>3. ASSUME NEW w \in Shifts, ReadMethods(w) PROVE TipsInTheirShift'
    <3>1. report'.total = Within(w) /\ report'.byServer = {} /\ report'.shift = w
          /\ UNCHANGED <<payment, writing, counted>>
      BY <2>3 DEF ReadMethods
    <3> QED BY <3>1, WithinShift DEF TipsInTheirShift, SettledIn
  <2>4. CASE ReadServers
    <3>1. report \in ReportRead
      BY <2>4 DEF ReadServers, ReportsTypeOK, Idle
    <3>2. /\ report'.total = report.total /\ report'.byServer = Within(report.shift)
          /\ report'.shift = report.shift /\ UNCHANGED <<payment, writing, counted>>
      BY <2>4, <3>1 DEF ReadServers, ReportRead
    <3>3. report # Idle /\ report.shift \in Shifts
      BY <2>4, <3>1 DEF ReadServers, ReportRead, Idle
    <3> QED BY <3>2, <3>3, WithinShift DEF TipsInTheirShift, SettledIn
  <2>5. CASE Hand
    <3>1. report \in ReportRead /\ report # Idle
      BY <2>5 DEF Hand, ReportsTypeOK, Idle
    <3>2. report.shift \in Shifts
      BY <3>1 DEF ReportRead
    <3>3. /\ counted'[report.shift] = counted[report.shift] \cup report.total \cup report.byServer
          /\ \A w \in Shifts \ {report.shift} : counted'[w] = counted[w]
          /\ report' = Idle /\ UNCHANGED <<payment, writing>>
      BY <2>5, <3>2 DEF Hand, ReportsTypeOK
    <3> QED BY <3>1, <3>3 DEF TipsInTheirShift, SettledIn
  <2>6. CASE UNCHANGED <<payment, writing, counted, report>>
    BY <2>6 DEF TipsInTheirShift, SettledIn
  <2> QED BY <2>1, <2>2, <2>3, <2>4, <2>5, <2>6
      DEF ReportsStep, reportVars, Pass, Paying, Serving, Tips, Watching, AskServer, ReadServer,
          WriteServer, Poll, AnswerPoll
<1>3. ReportsTypeOK /\ TipsInTheirShift => TipsCountedOnce
  <2> SUFFICES ASSUME TipsInTheirShift, NEW p \in Payments
               PROVE  Cardinality({w \in Shifts : p \in counted[w]}) <= 1
    BY DEF TipsCountedOnce
  <2> DEFINE S == {w \in Shifts : p \in counted[w]}
  <2>1. S \subseteq {payment[p].settled}
    BY DEF TipsInTheirShift, SettledIn
  <2>2. S = {} \/ S = {payment[p].settled}
    BY <2>1
  <2>3. Cardinality({}) = 0 /\ Cardinality({payment[p].settled}) = 1
    BY FS_EmptySet, FS_Singleton
  <2> HIDE DEF S
  <2>4. Cardinality(S) <= 1
    BY <2>2, <2>3
  <2> QED BY <2>4 DEF S
<1> QED BY <1>1, <1>2, <1>3, ReportsType, PTL DEF ReportsSpec

(* Who holds a bill is a waiter who takes it for themselves, and it is     *)
(* nobody's or theirs for as long as they hold it.                         *)
HeldByOne ==
  /\ \A q \in Patches : patches[q].step = "LOCKED" =>
       /\ patches[q].by \in Waiters /\ patches[q].to = patches[q].by
       /\ served[patches[q].bill] \in {NoOne, patches[q].by}
  /\ \A q, x \in Patches : LockedBy(q, patches[x].bill) /\ patches[x].step = "LOCKED" => q = x

(* A bill under a lock is held by one request.                             *)
LEMMA HeldByOneStep ==
  ASSUME ReportsTypeOK, HeldByOne, [ReportsStep]_reportVars PROVE HeldByOne'
<1> USE DEF money, serving, reading, polling
<1>1. ASSUME NEW q \in Patches, ReadServer(q) PROVE HeldByOne'
  <2>1. patches[q] \in Patch
    BY <1>1 DEF ReadServer, Idle, ReportsTypeOK
  <2>2. /\ \/ patches'[q] = Idle
           \/ /\ patches'[q].step = "LOCKED" /\ patches'[q].by = patches[q].by
              /\ patches'[q].to = patches[q].to /\ patches'[q].bill = patches[q].bill
              /\ MayTake(q)
        /\ \A x \in Patches \ {q} : patches'[x] = patches[x]
        /\ served' = served
    <3>1. patches' = [patches EXCEPT ![q] = IF MayTake(q) THEN [patches[q] EXCEPT !.step = "LOCKED"]
                                            ELSE Idle]
      BY <1>1 DEF ReadServer, ReportsTypeOK
    <3>2. CASE MayTake(q)
      BY <1>1, <2>1, <3>1, <3>2 DEF ReadServer, ReportsTypeOK, Patch
    <3>3. CASE ~MayTake(q)
      BY <1>1, <3>1, <3>3 DEF ReadServer, ReportsTypeOK
    <3> QED BY <3>2, <3>3
  <2>3. \A x \in Patches : ~LockedBy(x, patches[q].bill)
    BY <1>1 DEF ReadServer, BillFree
  <2> QED BY <1>1, <2>2, <2>3 DEF HeldByOne, LockedBy, MayTake, ReadServer, ForThemselves, Idle
<1>2. ASSUME NEW q \in Patches, WriteServer(q) PROVE HeldByOne'
  <2>1. /\ patches'[q] = Idle /\ \A x \in Patches \ {q} : patches'[x] = patches[x]
        /\ served' = [served EXCEPT ![patches[q].bill] = patches[q].to]
    BY <1>2 DEF WriteServer, ReportsTypeOK
  <2>2. \A x \in Patches \ {q} : ~LockedBy(x, patches[q].bill)
    <3>1. CASE patches[q].step = "LOCKED"
      BY <3>1 DEF HeldByOne
    <3>2. CASE patches[q].step # "LOCKED"
      BY <1>2, <3>2 DEF WriteServer, BillFree
    <3> QED BY <3>1, <3>2
  <2>3. \A x \in Patches \ {q} : patches[x].step = "LOCKED" =>
          served'[patches[x].bill] = served[patches[x].bill]
    <3> SUFFICES ASSUME NEW x \in Patches \ {q}, patches[x].step = "LOCKED"
                 PROVE  served'[patches[x].bill] = served[patches[x].bill]
      OBVIOUS
    <3>1. patches[x] \in Patch
      BY DEF ReportsTypeOK, Idle
    <3>2. patches[x].bill \in Bills /\ patches[x].bill # patches[q].bill
      BY <2>2, <3>1 DEF Patch, LockedBy
    <3> QED BY <2>1, <3>2 DEF ReportsTypeOK
  <2> QED BY <2>1, <2>3 DEF HeldByOne, LockedBy, Idle
<1>3. ASSUME NEW q \in Patches, NEW by \in Staff, NEW to \in Staff \cup {NoOne}, NEW b \in Bills,
             AskServer(q, by, to, b)
      PROVE  HeldByOne'
  <2>1. /\ patches'[q].step = "CHECKED" /\ \A x \in Patches \ {q} : patches'[x] = patches[x]
        /\ served' = served
    BY <1>3 DEF AskServer, ReportsTypeOK
  <2> QED BY <2>1 DEF HeldByOne, LockedBy
<1>4. CASE UNCHANGED <<served, patches>>
  BY <1>4 DEF HeldByOne, LockedBy
<1> QED BY <1>1, <1>2, <1>3, <1>4
    DEF ReportsStep, reportVars, Pass, Paying, Serving, Tips, Watching, Begin, Commit,
        ReadMethods, ReadServers, Hand, Poll, AnswerPoll

(* No waiter takes the bill of a colleague, however many ask for it at     *)
(* once (PATCH /bills/:id/server).                                         *)
THEOREM NobodyLosesABill == ReportsSpec => ClaimTakesFromNobody
<1> DEFINE Kept == \A b \in Bills : served'[b] # served[b] /\ served[b] # NoOne =>
             \E q \in Patches : patches[q] # Idle /\ patches'[q] = Idle
                                /\ patches[q].bill = b /\ patches[q].by \in Managers
<1>1. ReportsInit => HeldByOne
  BY DEF ReportsInit, HeldByOne, Idle
<1>2. ReportsTypeOK /\ HeldByOne /\ [ReportsStep]_reportVars => HeldByOne'
  BY HeldByOneStep
<1>3. ReportsTypeOK /\ HeldByOne /\ [ReportsStep]_reportVars => [Kept]_reportVars
  <2> SUFFICES ASSUME ReportsTypeOK, HeldByOne, ReportsStep,
                      NEW b \in Bills, served'[b] # served[b], served[b] # NoOne
               PROVE  \E q \in Patches : patches[q] # Idle /\ patches'[q] = Idle
                                         /\ patches[q].bill = b /\ patches[q].by \in Managers
    OBVIOUS
  <2>1. PICK q \in Patches : WriteServer(q)
    BY DEF ReportsStep, Pass, Paying, Serving, Tips, Watching, Begin, Commit, AskServer,
           ReadServer, ReadMethods, ReadServers, Hand, Poll, AnswerPoll, serving
  <2>2. /\ patches[q] # Idle /\ patches[q] \in Patch
        /\ patches'[q] = Idle
        /\ served' = [served EXCEPT ![patches[q].bill] = patches[q].to]
    BY <2>1 DEF WriteServer, ReportsTypeOK, Idle
  <2>3. patches[q].bill = b /\ served'[b] = patches[q].to
    BY <2>2 DEF ReportsTypeOK
  <2>4. patches[q].by \in Managers
    <3>1. CASE patches[q].step = "LOCKED"
      BY <2>3, <3>1 DEF HeldByOne
    <3>2. CASE patches[q].step # "LOCKED"
      BY <2>1, <2>2, <3>2 DEF WriteServer, ForThemselves, Patch, Staff
    <3> QED BY <3>1, <3>2
  <2> QED BY <2>2, <2>3, <2>4
<1> QED BY <1>1, <1>2, <1>3, ReportsType, PTL DEF ReportsSpec, ClaimTakesFromNobody, Kept
-----------------------------------------------------------------------------
(* Declared payments and the movements of the bank.                        *)

(* What the rules of Matching return: among any movements, the least bad   *)
(* of the candidates is one of them, and a match is exact.                 *)
LEMMA DisagreementsCounted ==
  ASSUME NEW x, NEW y PROVE Cardinality(Disagreements(x, y)) \in Nat
<1>1. Disagreements(x, y) \subseteq {"amount", "bank", "phone", "id"}
  BY DEF Disagreements
<1>2. IsFiniteSet({"amount", "bank", "phone", "id"})
  <2>1. IsFiniteSet({"amount"}) /\ IsFiniteSet({"bank"}) /\ IsFiniteSet({"phone"}) /\ IsFiniteSet({"id"})
    BY FS_Singleton
  <2>2. IsFiniteSet({"amount"} \cup {"bank"}) /\ IsFiniteSet({"phone"} \cup {"id"})
    BY <2>1, FS_Union
  <2>3. IsFiniteSet(({"amount"} \cup {"bank"}) \cup ({"phone"} \cup {"id"}))
    BY <2>2, FS_Union
  <2>4. ({"amount"} \cup {"bank"}) \cup ({"phone"} \cup {"id"}) = {"amount", "bank", "phone", "id"}
    OBVIOUS
  <2> QED BY <2>3, <2>4
<1> QED BY <1>1, <1>2, FS_Subset, FS_CardinalityType

(* A set of natural numbers that is not empty has a least one.             *)
LEMMA Least ==
  ASSUME NEW S \in SUBSET Nat, S # {}
  PROVE  \E x \in S : \A y \in S : x <= y
<1> DEFINE R == OpToRel(<, Nat)
<1>1. IsWellFoundedOn(R, Nat)
  BY NatLessThanWellFounded
<1>2. \A x, y \in Nat : y < x => <<y, x>> \in R
  BY DEF OpToRel
<1> HIDE DEF R
<1>3. PICK x \in S : \A y \in S : ~ (<<y, x>> \in R)
  BY <1>1, WFMin
<1>4. x \in Nat /\ \A y \in S : y \in Nat
  OBVIOUS
<1>5. \A y \in S : ~(y < x)
  BY <1>2, <1>3, <1>4, Zenon
<1> QED BY <1>4, <1>5

(* The closest movement is one of those looked at.                         *)
LEMMA ClosestIsCandidate ==
  ASSUME NEW x, NEW told, Candidates(x, told) # {}
  PROVE  Closest(x, told) \in Candidates(x, told)
<1> DEFINE Bad(m) == Cardinality(Disagreements(x, told[m]))
           Counts == {Bad(m) : m \in Candidates(x, told)}
<1>1. Counts \subseteq Nat /\ Counts # {}
  BY DisagreementsCounted
<1> HIDE DEF Counts
<1>3. PICK n \in Counts : \A k \in Counts : n <= k
  BY <1>1, Least
<1>4. PICK m \in Candidates(x, told) : n = Bad(m)
  BY <1>3 DEF Counts
<1>5. \A o \in Candidates(x, told) : Bad(m) <= Bad(o)
  BY <1>3, <1>4 DEF Counts
<1>6. \E c \in Candidates(x, told) : \A o \in Candidates(x, told) : Bad(c) <= Bad(o)
  BY <1>4, <1>5
<1> QED BY <1>6 DEF Closest

Verdicts(S) == [outcome : Outcomes, movement : S \cup {NoMovement}]

(* A match agrees in every field the code compares.                        *)
LEMMA MatchIsExact ==
  ASSUME NEW x, NEW told
  PROVE  /\ MatchClaim(x, told) \in Verdicts(DOMAIN told)
         /\ MatchClaim(x, told).outcome = "MATCHED" => MatchClaim(x, told).movement \in Exact(x, told)
<1> DEFINE exact == Exact(x, told)
           v == MatchClaim(x, told)
<1>1. exact \subseteq Candidates(x, told) /\ Candidates(x, told) \subseteq DOMAIN told
  BY DEF Exact, Candidates
<1>2. Cardinality({}) = 0
  BY FS_EmptySet
<1>3. CASE Candidates(x, told) = {}
  <2>1. exact = {}
    BY <1>1, <1>3
  <2>2. Cardinality(exact) = 0
    BY <1>2, <2>1
  <2>3. v = Verdict("NOT_FOUND", NoMovement)
    BY <1>3, <2>2 DEF MatchClaim
  <2> QED BY <2>3 DEF Verdict, Verdicts, Outcomes
<1>4. CASE Candidates(x, told) # {} /\ Cardinality(exact) > 1
  <2>1. ~(Cardinality(exact) = 1)
    BY <1>4
  <2>2. v = Verdict("AMBIGUOUS", NoMovement)
    BY <1>4, <2>1 DEF MatchClaim
  <2> QED BY <2>2 DEF Verdict, Verdicts, Outcomes
<1>5. CASE Candidates(x, told) # {} /\ Cardinality(exact) = 1
  <2>1. ~(Cardinality(exact) > 1) /\ exact # {}
    BY <1>2, <1>5
  <2>2. v = Verdict("MATCHED", CHOOSE m \in exact : TRUE)
    BY <1>5, <2>1 DEF MatchClaim
  <2>3. (CHOOSE m \in exact : TRUE) \in exact
    BY <2>1
  <2> QED BY <1>1, <2>2, <2>3 DEF Verdict, Verdicts, Outcomes
<1>6. CASE Candidates(x, told) # {} /\ ~(Cardinality(exact) > 1) /\ Cardinality(exact) # 1
  <2>1. v = Verdict("MISMATCH", Closest(x, told))
    BY <1>6 DEF MatchClaim
  <2>2. Closest(x, told) \in DOMAIN told
    BY <1>1, <1>6, ClosestIsCandidate
  <2> QED BY <2>1, <2>2 DEF Verdict, Verdicts, Outcomes
<1> QED BY <1>3, <1>4, <1>5, <1>6

(* What pays a claim says the same in every field.                         *)
Sound(c, m) ==
  /\ m \in Movements
  /\ ReferenceAgrees(Declares[c].reference, Reports[m].reference)
  /\ Disagreements(Declares[c], Reports[m]) = {}

(* What is decided of a set of claims and movements is sound for each.     *)
LEMMA DecidedIsSound ==
  ASSUME NEW C \in SUBSET Claims, NEW M \in SUBSET Movements, NEW c \in C
  PROVE  /\ DOMAIN Decided(C, M) = C /\ Decided(C, M)[c] \in MatchRow
         /\ Decided(C, M)[c].outcome = "MATCHED" => Sound(c, Decided(C, M)[c].movement)
<1> DEFINE told == [m \in M |-> Reports[m]]
           said == [d \in C |-> Declares[d]]
           v == MatchClaim(Declares[c], told)
<1>1. DOMAIN told = M /\ \A m \in M : told[m] = Reports[m]
  OBVIOUS
<1>2. v \in Verdicts(M) /\ (v.outcome = "MATCHED" => v.movement \in Exact(Declares[c], told))
  BY <1>1, MatchIsExact
<1>3. v.outcome = "MATCHED" => Sound(c, v.movement)
  <2> HIDE DEF told
  <2> QED BY <1>1, <1>2 DEF Exact, Candidates, Sound
<1>4. v \in MatchRow
  BY <1>2 DEF Verdicts, MatchRow
<1>5. /\ Decided(C, M)[c] = IF v.outcome = "MATCHED" /\ Wanting(said, told, v.movement) # {c}
                            THEN Verdict("AMBIGUOUS", NoMovement) ELSE v
      /\ DOMAIN Decided(C, M) = C
  BY DEF Decided, Decide
<1>6. Verdict("AMBIGUOUS", NoMovement) \in MatchRow
  BY DEF Verdict, MatchRow, Outcomes
<1> HIDE DEF v
<1> QED BY <1>3, <1>4, <1>5, <1>6 DEF Verdict

(* What a process has decided to confirm is matched, and with a movement   *)
(* that pays it.                                                           *)
SoundWork(w) ==
  \A c \in Claims :
    /\ w.decided[c].outcome = "MATCHED" => Sound(c, w.decided[c].movement)
    /\ c \in w.confirm => w.decided[c].outcome = "MATCHED"

GoodWork == {w \in Work : SoundWork(w)}

(* Work that rests, reads or stores knows nothing yet.                     *)
LEMMA RestingWork ==
  /\ AtRest \in GoodWork /\ AtRest.step = "IDLE"
  /\ Reading \in GoodWork /\ Reading.step = "READ" /\ Reading.reads = {"claims", "movements"}
  /\ \A S \in SUBSET Movements : Storing(S) \in GoodWork /\ Storing(S).step = "STORE"
<1>1. [c \in Claims |-> NotChecked] \in [Claims -> MatchRow]
  BY DEF NotChecked, MatchRow, Outcomes
<1>2. AtRest \in Work
  BY <1>1 DEF AtRest, Work
<1>3. SoundWork(AtRest)
  BY DEF AtRest, SoundWork, NotChecked
<1>4. Reading \in Work /\ Reading.decided = AtRest.decided /\ Reading.confirm = AtRest.confirm
  BY <1>2 DEF Reading, Work
<1>5. \A S \in SUBSET Movements : /\ Storing(S) \in Work /\ Storing(S).decided = AtRest.decided
                                  /\ Storing(S).confirm = AtRest.confirm
  BY <1>2 DEF Storing, Work
<1>6. /\ AtRest.step = "IDLE" /\ Reading.step = "READ" /\ Reading.reads = {"claims", "movements"}
      /\ \A S \in SUBSET Movements : Storing(S).step = "STORE"
  BY <1>2 DEF AtRest, Reading, Storing, Work
<1> QED BY <1>2, <1>3, <1>4, <1>5, <1>6 DEF SoundWork, GoodWork

(* The decisions as a process takes them, with both answers.               *)
Decisions(w) ==
  [c \in Claims |-> IF c \in w.pending THEN Decided(w.pending, w.open)[c] ELSE NotChecked]
ToConfirm(w) ==
  {c \in w.pending : /\ Decided(w.pending, w.open)[c].outcome = "MATCHED"
                     /\ Decided(w.pending, w.open)[c].movement \in w.trusted}
Deciding(w) == [AtRest EXCEPT !.step = "WRITE", !.write = w.pending,
                              !.decided = Decisions(w), !.confirm = ToConfirm(w)]

(* What an answer of the database makes of the work that waited for it.    *)
LEMMA AnsweredWork ==
  ASSUME NEW w \in Work, NEW q
  PROVE  Answered(w, q) = IF w.reads \ {q} # {} THEN [w EXCEPT !.reads = w.reads \ {q}]
                          ELSE IF w.pending = {} THEN AtRest ELSE Deciding(w)
BY DEF Answered, Deciding, Decisions, ToConfirm

(* Work that decides knows what it decided.                                *)
LEMMA DecidingFields ==
  ASSUME NEW w
  PROVE  /\ Deciding(w).step = "WRITE" /\ Deciding(w).write = w.pending
         /\ Deciding(w).decided = Decisions(w) /\ Deciding(w).confirm = ToConfirm(w)
         /\ (w \in Work /\ Decisions(w) \in [Claims -> MatchRow] /\ ToConfirm(w) \in SUBSET Claims
              => Deciding(w) \in Work)
<1>1. /\ Deciding(w).step = "WRITE" /\ Deciding(w).write = w.pending
      /\ Deciding(w).decided = Decisions(w) /\ Deciding(w).confirm = ToConfirm(w)
  BY DEF Deciding, AtRest
<1>2. ASSUME w \in Work, Decisions(w) \in [Claims -> MatchRow], ToConfirm(w) \in SUBSET Claims
      PROVE  Deciding(w) \in Work
  <2>1. AtRest \in Work /\ w.pending \in SUBSET Claims
    BY <1>2, RestingWork DEF GoodWork, Work
  <2> QED BY <1>2, <2>1 DEF Deciding, Work
<1> QED BY <1>1, <1>2

(* Whatever it decides is sound.                                           *)
LEMMA DecidingIsGood ==
  ASSUME NEW w \in Work PROVE Deciding(w) \in GoodWork
<1> DEFINE d == Decided(w.pending, w.open)
           dd == [c \in Claims |-> IF c \in w.pending THEN d[c] ELSE NotChecked]
           cc == {c \in w.pending : d[c].outcome = "MATCHED" /\ d[c].movement \in w.trusted}
<1>1. w.pending \in SUBSET Claims /\ w.open \in SUBSET Movements
  BY DEF Work
<1>2. \A c \in w.pending : /\ DOMAIN d = w.pending /\ d[c] \in MatchRow
                           /\ d[c].outcome = "MATCHED" => Sound(c, d[c].movement)
  BY <1>1, DecidedIsSound
<1>3. DOMAIN d = w.pending
  BY DEF Decided, Decide
<1>6. NotChecked \in MatchRow /\ NotChecked.outcome # "MATCHED"
  BY DEF NotChecked, MatchRow, Outcomes
<1>7. dd \in [Claims -> MatchRow] /\ cc \in SUBSET Claims
  <2> HIDE DEF d
  <2> QED BY <1>1, <1>2, <1>6
<1>8. \A c \in Claims : /\ dd[c].outcome = "MATCHED" => Sound(c, dd[c].movement)
                        /\ c \in cc => dd[c].outcome = "MATCHED"
  <2> HIDE DEF d
  <2> QED BY <1>2, <1>6
<1>9. dd = Decisions(w) /\ cc = ToConfirm(w)
  BY DEF Decisions, ToConfirm
<1> HIDE DEF dd, cc
<1>10. Deciding(w) \in Work
  BY <1>7, <1>9, DecidingFields
<1> QED BY <1>8, <1>9, <1>10, DecidingFields DEF GoodWork, SoundWork

(* Work that is answered stays sound.                                      *)
LEMMA AnsweredIsGood ==
  ASSUME NEW w \in GoodWork, NEW q PROVE Answered(w, q) \in GoodWork
<1>1. w \in Work /\ SoundWork(w)
  BY DEF GoodWork
<1>2. CASE w.reads \ {q} # {}
  <2> DEFINE x == [w EXCEPT !.reads = w.reads \ {q}]
  <2>1. x \in Work /\ x.decided = w.decided /\ x.confirm = w.confirm
    BY <1>1 DEF Work
  <2> HIDE DEF x
  <2>2. x \in GoodWork
    BY <1>1, <2>1 DEF GoodWork, SoundWork
  <2> QED BY <1>1, <1>2, <2>2, AnsweredWork DEF x
<1>3. CASE w.reads \ {q} = {}
  BY <1>1, <1>3, AnsweredWork, RestingWork, DecidingIsGood
<1> QED BY <1>2, <1>3

(* So does work that ends.                                                 *)
LEMMA RestIsGood ==
  ASSUME NEW w \in GoodWork PROVE Rest(w) \in GoodWork
<1>1. w \in Work /\ SoundWork(w)
  BY DEF GoodWork
<1> DEFINE x == [w EXCEPT !.step = "CONFIRM"]
<1>2. x \in Work /\ x.decided = w.decided /\ x.confirm = w.confirm
  BY <1>1 DEF Work
<1> HIDE DEF x
<1>3. x \in GoodWork
  BY <1>1, <1>2 DEF GoodWork, SoundWork
<1> QED BY <1>3, RestingWork DEF Rest, x

(* The steps of a process keep its work good.                              *)
LEMMA WorkParts ==
  ASSUME NEW w \in GoodWork
  PROVE  /\ \A S \in SUBSET Claims : [w EXCEPT !.pending = S] \in GoodWork
         /\ \A S, T \in SUBSET Movements : [w EXCEPT !.open = S, !.trusted = T] \in GoodWork
         /\ \A c \in Claims : /\ [w EXCEPT !.write = @ \ {c}] \in GoodWork
                              /\ [w EXCEPT !.confirm = @ \ {c}] \in GoodWork
         /\ \A m \in Movements : [w EXCEPT !.rows = @ \ {m}] \in GoodWork
<1>1. w \in Work /\ SoundWork(w)
  BY DEF GoodWork
<1>2. ASSUME NEW x \in Work, x.decided = w.decided, x.confirm \subseteq w.confirm PROVE x \in GoodWork
  BY <1>1, <1>2 DEF GoodWork, SoundWork
<1>3. ASSUME NEW S \in SUBSET Claims PROVE [w EXCEPT !.pending = S] \in GoodWork
  <2>1. /\ [w EXCEPT !.pending = S] \in Work /\ [w EXCEPT !.pending = S].decided = w.decided
        /\ [w EXCEPT !.pending = S].confirm = w.confirm
    BY <1>1 DEF Work
  <2> QED BY <1>2, <2>1
<1>4. ASSUME NEW S \in SUBSET Movements, NEW T \in SUBSET Movements
      PROVE  [w EXCEPT !.open = S, !.trusted = T] \in GoodWork
  <2> DEFINE x == [w EXCEPT !.open = S, !.trusted = T]
  <2>1. x \in Work /\ x.decided = w.decided /\ x.confirm = w.confirm
    BY <1>1 DEF Work
  <2> HIDE DEF x
  <2>2. x \in GoodWork
    BY <1>2, <2>1
  <2> QED BY <2>2 DEF x
<1>5. ASSUME NEW c \in Claims
      PROVE  [w EXCEPT !.write = @ \ {c}] \in GoodWork /\ [w EXCEPT !.confirm = @ \ {c}] \in GoodWork
  <2> DEFINE x == [w EXCEPT !.write = @ \ {c}]
             y == [w EXCEPT !.confirm = @ \ {c}]
  <2>1. x \in Work /\ x.decided = w.decided /\ x.confirm = w.confirm
    BY <1>1 DEF Work
  <2>2. y \in Work /\ y.decided = w.decided /\ y.confirm = w.confirm \ {c}
    BY <1>1 DEF Work
  <2> HIDE DEF x, y
  <2>3. x \in GoodWork /\ y \in GoodWork
    BY <1>2, <2>1, <2>2
  <2> QED BY <2>3 DEF x, y
<1>6. ASSUME NEW m \in Movements PROVE [w EXCEPT !.rows = @ \ {m}] \in GoodWork
  <2> DEFINE x == [w EXCEPT !.rows = @ \ {m}]
  <2>1. x \in Work /\ x.decided = w.decided /\ x.confirm = w.confirm
    BY <1>1 DEF Work
  <2> HIDE DEF x
  <2>2. x \in GoodWork
    BY <1>2, <2>1
  <2> QED BY <2>2 DEF x
<1> QED BY <1>3, <1>4, <1>5, <1>6

(* What the bank confirmed is paid by a movement that backs it, and a      *)
(* movement backs nothing but a claim that was confirmed.                  *)
Backed ==
  /\ \A c \in Claims : claims[c].via = "BANK" =>
       \E m \in Movements : movements[m].backs = c /\ Sound(c, m)
  /\ \A m \in Movements : movements[m].backs # NoMovement =>
       movements[m].backs \in Claims /\ claims[movements[m].backs].status = "SUCCEEDED"

ClaimsOK == ClaimsTypeOK /\ (\A r \in Reconcilers : SoundWork(work[r])) /\ Backed

(* All work under way is sound.                                            *)
LEMMA WorkIsGood == ASSUME ClaimsOK, NEW r \in Reconcilers PROVE work[r] \in GoodWork
BY DEF ClaimsOK, ClaimsTypeOK, GoodWork

(* Replacing the work of one reconciliation by sound work keeps all        *)
(* sound.                                                                  *)
LEMMA NewWork ==
  ASSUME ClaimsOK, NEW r \in Reconcilers, NEW g \in GoodWork, work' = [work EXCEPT ![r] = g]
  PROVE  /\ work' \in [Reconcilers -> Work] /\ \A x \in Reconcilers : SoundWork(work'[x])
         /\ work'[r] = g /\ \A x \in Reconcilers \ {r} : work'[x] = work[x]
BY DEF ClaimsOK, ClaimsTypeOK, GoodWork

(* A step of a process that settles nothing.                               *)
LEMMA OnlyWork ==
  ASSUME ClaimsOK, NEW r \in Reconcilers, NEW g \in GoodWork, work' = [work EXCEPT ![r] = g],
         UNCHANGED <<claims, movements, paidVes>>, verdicts' \in [Claims -> MatchRow],
         trust' \in [Connections -> [active : BOOLEAN, auto : BOOLEAN]]
  PROVE  ClaimsOK'
<1>1. ClaimsTypeOK'
  BY NewWork DEF ClaimsOK, ClaimsTypeOK
<1>2. Backed'
  BY DEF ClaimsOK, Backed
<1>3. (\A x \in Reconcilers : SoundWork(work[x]))'
  BY NewWork
<1> QED BY <1>1, <1>2, <1>3 DEF ClaimsOK

(* A claim that is settled was pending, and the bill took it.              *)
LEMMA SettledClaim ==
  ASSUME ClaimsOK, NEW c \in Claims, NEW via \in {"STAFF", "BANK"}, Settle(c, via)
  PROVE  /\ claims' \in [Claims -> ClaimRow] /\ paidVes' \in 0 .. BillDue
         /\ claims[c].status = "PENDING"
         /\ claims'[c] = [status |-> "SUCCEEDED", via |-> via]
         /\ \A d \in Claims \ {c} : claims'[d] = claims[d]
<1>1. [status |-> "SUCCEEDED", via |-> via] \in ClaimRow
  BY DEF ClaimRow, ClaimStatus
<1>2. paidVes + Share[c] \in 0 .. BillDue
  <2>1. paidVes + Share[c] <= BillDue
    BY DEF Settle, BillTakes
  <2>2. paidVes \in Nat /\ Share[c] \in Nat /\ BillDue \in Nat
    BY ClaimMatchingAssumption DEF ClaimsOK, ClaimsTypeOK
  <2> QED BY <2>1, <2>2
<1> QED BY <1>1, <1>2 DEF Settle, ClaimsOK, ClaimsTypeOK

(* A confirmation by hand keeps the invariant.                             *)
LEMMA ByHandOK == ASSUME ClaimsOK, NEW c \in Claims, ConfirmByHand(c) PROVE ClaimsOK'
<1>1. /\ claims' \in [Claims -> ClaimRow] /\ paidVes' \in 0 .. BillDue
      /\ claims[c].status = "PENDING"
      /\ claims'[c] = [status |-> "SUCCEEDED", via |-> "STAFF"]
      /\ \A d \in Claims \ {c} : claims'[d] = claims[d]
  BY SettledClaim DEF ConfirmByHand
<1>2. \A m \in Movements : /\ movements[m] \in Movement
                           /\ m \in Suggested(c) => movements[m].backs = NoMovement
  BY DEF ClaimsOK, ClaimsTypeOK, Suggested
<1>3. \A m \in Movements : /\ movements'[m] \in Movement
                           /\ movements'[m].backs = IF m \in Suggested(c) THEN c ELSE movements[m].backs
  BY <1>2 DEF ConfirmByHand, Movement
<1>4. movements' \in [Movements -> Movement]
  BY <1>3 DEF ConfirmByHand
<1>5. ClaimsTypeOK'
  BY <1>1, <1>4 DEF ConfirmByHand, ClaimsOK, ClaimsTypeOK
<1>6. Backed'
  <2>1. ASSUME NEW d \in Claims, claims'[d].via = "BANK"
        PROVE  \E m \in Movements : movements'[m].backs = d /\ Sound(d, m)
    <3>1. claims[d].via = "BANK"
      BY <1>1, <2>1
    <3>2. PICK m \in Movements : movements[m].backs = d /\ Sound(d, m)
      BY <3>1 DEF ClaimsOK, Backed
    <3>3. m \notin Suggested(c)
      BY <1>2, <3>2, ClaimMatchingAssumption
    <3> QED BY <1>3, <3>2, <3>3
  <2>2. ASSUME NEW m \in Movements, movements'[m].backs # NoMovement
        PROVE  movements'[m].backs \in Claims /\ claims'[movements'[m].backs].status = "SUCCEEDED"
    <3>1. CASE m \in Suggested(c)
      BY <1>1, <1>3, <3>1
    <3>2. CASE m \notin Suggested(c)
      <4>1. /\ movements'[m].backs = movements[m].backs /\ movements[m].backs \in Claims
            /\ claims[movements[m].backs].status = "SUCCEEDED"
        BY <1>3, <2>2, <3>2 DEF ClaimsOK, Backed
      <4> QED BY <1>1, <4>1
    <3> QED BY <3>1, <3>2
  <2> QED BY <2>1, <2>2 DEF Backed
<1>7. work' = work
  BY DEF ConfirmByHand
<1> QED BY <1>5, <1>6, <1>7 DEF ClaimsOK, SoundWork

(* A confirmation by the bank spends the movement that backs it, or is     *)
(* rolled back.                                                            *)
LEMMA ByBankOK ==
  ASSUME ClaimsOK, NEW r \in Reconcilers, NEW c \in Claims, ConfirmByBank(r, c) PROVE ClaimsOK'
<1> DEFINE m == work[r].decided[c].movement
<1>1. /\ claims' \in [Claims -> ClaimRow] /\ paidVes' \in 0 .. BillDue
      /\ claims[c].status = "PENDING"
      /\ claims'[c] = [status |-> "SUCCEEDED", via |-> "BANK"]
      /\ \A d \in Claims \ {c} : claims'[d] = claims[d]
  BY SettledClaim DEF ConfirmByBank
<1>2. work[r] \in GoodWork /\ c \in work[r].confirm
  BY WorkIsGood DEF ConfirmByBank
<1>3. Sound(c, m) /\ m \in Movements
  BY <1>2 DEF GoodWork, SoundWork, Sound
<1>4. movements[m].backs = NoMovement /\ movements[m] \in Movement
      /\ movements' = [movements EXCEPT ![m].backs = c]
  BY <1>3 DEF ConfirmByBank, Free, ClaimsOK, ClaimsTypeOK
<1>5. PICK g \in GoodWork : work' = [work EXCEPT ![r] = g]
  <2>1. [work[r] EXCEPT !.confirm = @ \ {c}] \in GoodWork
    BY <1>2, WorkParts
  <2>2. Rest([work[r] EXCEPT !.confirm = @ \ {c}]) \in GoodWork
    BY <2>1, RestIsGood
  <2>3. work' = [work EXCEPT ![r] = Rest([work[r] EXCEPT !.confirm = @ \ {c}])]
    BY DEF ConfirmByBank
  <2> QED BY <2>2, <2>3
<1> HIDE DEF m
<1>6. /\ movements' \in [Movements -> Movement] /\ movements'[m].backs = c
      /\ \A o \in Movements \ {m} : movements'[o] = movements[o]
  <2>1. [movements[m] EXCEPT !.backs = c] \in Movement /\ [movements[m] EXCEPT !.backs = c].backs = c
    BY <1>4 DEF Movement
  <2>2. movements' = [movements EXCEPT ![m] = [movements[m] EXCEPT !.backs = c]]
    BY <1>3, <1>4 DEF ClaimsOK, ClaimsTypeOK
  <2> QED BY <1>3, <2>1, <2>2 DEF ClaimsOK, ClaimsTypeOK
<1>7. ClaimsTypeOK'
  BY <1>1, <1>5, <1>6, NewWork DEF ConfirmByBank, ClaimsOK, ClaimsTypeOK
<1>8. Backed'
  <2>1. ASSUME NEW d \in Claims, claims'[d].via = "BANK"
        PROVE  \E o \in Movements : movements'[o].backs = d /\ Sound(d, o)
    <3>1. CASE d = c
      BY <1>3, <1>6, <3>1
    <3>2. CASE d # c
      <4>1. claims[d].via = "BANK"
        BY <1>1, <2>1, <3>2
      <4>2. PICK o \in Movements : movements[o].backs = d /\ Sound(d, o)
        BY <4>1 DEF ClaimsOK, Backed
      <4>3. o # m
        BY <1>4, <4>2, ClaimMatchingAssumption
      <4> QED BY <1>6, <4>2, <4>3
    <3> QED BY <3>1, <3>2
  <2>2. ASSUME NEW o \in Movements, movements'[o].backs # NoMovement
        PROVE  movements'[o].backs \in Claims /\ claims'[movements'[o].backs].status = "SUCCEEDED"
    <3>1. CASE o = m
      BY <1>1, <1>6, <3>1
    <3>2. CASE o # m
      <4>1. /\ movements'[o].backs = movements[o].backs /\ movements[o].backs \in Claims
            /\ claims[movements[o].backs].status = "SUCCEEDED"
        BY <1>6, <2>2, <3>2 DEF ClaimsOK, Backed
      <4> QED BY <1>1, <4>1
    <3> QED BY <3>1, <3>2
  <2> QED BY <2>1, <2>2 DEF Backed
<1>9. (\A x \in Reconcilers : SoundWork(work[x]))'
  BY <1>5, NewWork
<1> QED BY <1>7, <1>8, <1>9 DEF ClaimsOK

(* A claim that is declared keeps the invariant.                           *)
LEMMA DeclareOK == ASSUME ClaimsOK, NEW c \in Claims, NEW r \in Reconcilers, Declare(c, r) PROVE ClaimsOK'
<1>1. claims[c] \in ClaimRow /\ claims[c].status = "NONE"
  BY DEF Declare, MayDeclare, ClaimsOK, ClaimsTypeOK
<1>2. /\ claims' \in [Claims -> ClaimRow] /\ claims'[c].status = "PENDING" /\ claims'[c].via = claims[c].via
      /\ \A d \in Claims \ {c} : claims'[d] = claims[d]
  <2>1. /\ [claims[c] EXCEPT !.status = "PENDING"] \in ClaimRow
        /\ [claims[c] EXCEPT !.status = "PENDING"].via = claims[c].via
        /\ [claims[c] EXCEPT !.status = "PENDING"].status = "PENDING"
    BY <1>1 DEF ClaimRow, ClaimStatus
  <2>2. claims' = [claims EXCEPT ![c] = [claims[c] EXCEPT !.status = "PENDING"]]
    BY DEF Declare, ClaimsOK, ClaimsTypeOK
  <2> QED BY <2>1, <2>2 DEF ClaimsOK, ClaimsTypeOK
<1>3. PICK g \in GoodWork : work' = [work EXCEPT ![r] = g]
  <2>1. AfterClaim(r) \in GoodWork
    BY WorkIsGood, RestingWork DEF AfterClaim
  <2> QED BY <2>1 DEF Declare
<1>4. ClaimsTypeOK'
  BY <1>2, <1>3, NewWork DEF Declare, ClaimsOK, ClaimsTypeOK
<1>5. Backed'
  <2>1. \A d \in Claims : claims'[d].via = claims[d].via
    BY <1>2
  <2>2. \A m \in Movements : movements[m].backs # NoMovement => movements[m].backs # c
    BY <1>1 DEF ClaimsOK, Backed
  <2> QED BY <1>2, <2>1, <2>2 DEF Declare, ClaimsOK, Backed
<1>6. (\A x \in Reconcilers : SoundWork(work[x]))'
  BY <1>3, NewWork
<1> QED BY <1>4, <1>5, <1>6 DEF ClaimsOK

(* A claim that is rejected keeps the invariant.                           *)
LEMMA RejectOK == ASSUME ClaimsOK, NEW c \in Claims, Reject(c) PROVE ClaimsOK'
<1>1. claims[c] \in ClaimRow /\ claims[c].status = "PENDING"
  BY DEF Reject, ClaimsOK, ClaimsTypeOK
<1>2. /\ claims' \in [Claims -> ClaimRow] /\ claims'[c].via = claims[c].via
      /\ \A d \in Claims \ {c} : claims'[d] = claims[d]
  <2>1. /\ [claims[c] EXCEPT !.status = "FAILED"] \in ClaimRow
        /\ [claims[c] EXCEPT !.status = "FAILED"].via = claims[c].via
    BY <1>1 DEF ClaimRow, ClaimStatus
  <2>2. claims' = [claims EXCEPT ![c] = [claims[c] EXCEPT !.status = "FAILED"]]
    BY DEF Reject, ClaimsOK, ClaimsTypeOK
  <2> QED BY <2>1, <2>2 DEF ClaimsOK, ClaimsTypeOK
<1>3. ClaimsTypeOK'
  BY <1>2 DEF Reject, ClaimsOK, ClaimsTypeOK
<1>4. Backed'
  <2>1. \A d \in Claims : claims'[d].via = claims[d].via
    BY <1>2
  <2>2. \A m \in Movements : movements[m].backs # NoMovement => movements[m].backs # c
    BY <1>1 DEF ClaimsOK, Backed
  <2> QED BY <1>2, <2>1, <2>2 DEF Reject, ClaimsOK, Backed
<1>5. work' = work
  BY DEF Reject
<1> QED BY <1>3, <1>4, <1>5 DEF ClaimsOK, SoundWork

(* A movement is stored, or grows old: it backs what it backed.            *)
LEMMA MovementOK ==
  ASSUME ClaimsOK, NEW m \in Movements, NEW new \in Movement, new.backs = movements[m].backs,
         movements' = [movements EXCEPT ![m] = new], UNCHANGED <<claims, verdicts, trust, paidVes>>,
         \/ work' = work
         \/ \E r \in Reconcilers, g \in GoodWork : work' = [work EXCEPT ![r] = g]
  PROVE  ClaimsOK'
<1>1. movements' \in [Movements -> Movement] /\ \A o \in Movements : movements'[o].backs = movements[o].backs
  BY DEF ClaimsOK, ClaimsTypeOK
<1>2. work' \in [Reconcilers -> Work] /\ \A x \in Reconcilers : SoundWork(work'[x])
  BY NewWork DEF ClaimsOK, ClaimsTypeOK
<1>3. ClaimsTypeOK'
  BY <1>1, <1>2 DEF ClaimsOK, ClaimsTypeOK
<1>4. Backed'
  BY <1>1 DEF ClaimsOK, Backed
<1> QED BY <1>2, <1>3, <1>4 DEF ClaimsOK

(* A movement that is stored backs nothing yet.                            *)
LEMMA StoreRowOK ==
  ASSUME ClaimsOK, NEW r \in Reconcilers, NEW m \in Movements, StoreRow(r, m) PROVE ClaimsOK'
<1> DEFINE new == [movements[m] EXCEPT !.stored = movements[m].stored \/ ~Known(m)]
           g == IF work[r].rows = {m} THEN Reading ELSE [work[r] EXCEPT !.rows = @ \ {m}]
<1>1. movements[m] \in Movement
  BY DEF ClaimsOK, ClaimsTypeOK
<1>2. new \in Movement /\ new.backs = movements[m].backs
  <2>1. (movements[m].stored \/ ~Known(m)) \in BOOLEAN
    BY DEF Known
  <2> QED BY <1>1, <2>1 DEF Movement
<1>3. movements' = [movements EXCEPT ![m] = new] /\ work' = [work EXCEPT ![r] = g]
  BY DEF StoreRow, ClaimsOK, ClaimsTypeOK
<1>4. g \in GoodWork
  BY WorkIsGood, WorkParts, RestingWork
<1>5. UNCHANGED <<claims, verdicts, trust, paidVes>>
  BY DEF StoreRow
<1> HIDE DEF new, g
<1> QED BY <1>2, <1>3, <1>4, <1>5, MovementOK

(* Reading and writing verdicts keep the invariant.                        *)
LEMMA ReconcilingOK ==
  ASSUME ClaimsOK, NEW r \in Reconcilers,
         \/ ReadClaims(r) \/ ReadMovements(r)
         \/ \E c \in Claims : WriteVerdict(r, c) \/ SkipClaim(r, c)
  PROVE  ClaimsOK'
<1>1. work[r] \in GoodWork
  BY WorkIsGood
<1> USE DEF ClaimsOK, ClaimsTypeOK
<1>2. CASE ReadClaims(r)
  <2>1. [work[r] EXCEPT !.pending = Pending] \in GoodWork
    BY <1>1, WorkParts DEF Pending
  <2>2. Answered([work[r] EXCEPT !.pending = Pending], "claims") \in GoodWork
    BY <2>1, AnsweredIsGood
  <2> QED BY <1>2, <2>2, OnlyWork DEF ReadClaims
<1>3. CASE ReadMovements(r)
  <2>1. [work[r] EXCEPT !.open = OpenMovements, !.trusted = Trusted(OpenMovements)] \in GoodWork
    BY <1>1, WorkParts DEF OpenMovements, Trusted
  <2>2. Answered([work[r] EXCEPT !.open = OpenMovements, !.trusted = Trusted(OpenMovements)], "movements")
          \in GoodWork
    BY <2>1, AnsweredIsGood
  <2> QED BY <1>3, <2>2, OnlyWork DEF ReadMovements
<1>4. ASSUME NEW c \in Claims, WriteVerdict(r, c) PROVE ClaimsOK'
  <2>1. [work[r] EXCEPT !.write = @ \ {c}] \in GoodWork
    BY <1>1, WorkParts
  <2>2. Rest([work[r] EXCEPT !.write = @ \ {c}]) \in GoodWork
    BY <2>1, RestIsGood
  <2>3. work[r].decided[c] \in MatchRow
    BY DEF Work
  <2>4. verdicts' \in [Claims -> MatchRow]
    BY <1>4, <2>3 DEF WriteVerdict
  <2> QED BY <1>4, <2>2, <2>4, OnlyWork DEF WriteVerdict
<1>5. ASSUME NEW c \in Claims, SkipClaim(r, c) PROVE ClaimsOK'
  <2>1. [work[r] EXCEPT !.confirm = @ \ {c}] \in GoodWork
    BY <1>1, WorkParts
  <2>2. Rest([work[r] EXCEPT !.confirm = @ \ {c}]) \in GoodWork
    BY <2>1, RestIsGood
  <2> QED BY <1>5, <2>2, OnlyWork DEF SkipClaim
<1> QED BY <1>2, <1>3, <1>4, <1>5

(* What arrives from a bank, and a switch of a connection, keep the        *)
(* invariant.                                                              *)
LEMMA ReceivingOK ==
  ASSUME ClaimsOK, NEW r \in Reconcilers, NEW k \in Connections,
         \/ \E S \in SUBSET Movements : ReceiveRows(r, k, S)
         \/ \E m \in Movements : MercantilInbound(r, k, m)
         \/ \E auto \in BOOLEAN : SetAuto(k, r, auto)
  PROVE  ClaimsOK'
<1> USE DEF ClaimsOK, ClaimsTypeOK
<1>1. ASSUME NEW S \in SUBSET Movements, Receive(r, k, S) PROVE ClaimsOK'
  BY <1>1, RestingWork, OnlyWork DEF Receive
<1>2. ASSUME NEW auto \in BOOLEAN, SetAuto(k, r, auto) PROVE ClaimsOK'
  <2>1. PICK g \in GoodWork : work' = [work EXCEPT ![r] = g]
    BY <1>2, RestingWork, WorkIsGood DEF SetAuto
  <2>2. trust' \in [Connections -> [active : BOOLEAN, auto : BOOLEAN]]
    <3>1. [trust[k] EXCEPT !.auto = auto] \in [active : BOOLEAN, auto : BOOLEAN]
      OBVIOUS
    <3>2. trust' = [trust EXCEPT ![k] = [trust[k] EXCEPT !.auto = auto]]
      BY <1>2 DEF SetAuto
    <3> QED BY <3>1, <3>2
  <2> QED BY <1>2, <2>1, <2>2, OnlyWork DEF SetAuto
<1> QED BY <1>1, <1>2 DEF ReceiveRows, MercantilInbound

(* Every step keeps the invariant.                                         *)
LEMMA ClaimsStepOK == ASSUME ClaimsOK, [ClaimsStep]_claimVars PROVE ClaimsOK'
<1>1. CASE PayAtTill
  <2>1. paidVes' \in 0 .. BillDue
    BY <1>1, ClaimMatchingAssumption DEF PayAtTill
  <2> QED BY <1>1, <2>1 DEF PayAtTill, ClaimsOK, ClaimsTypeOK, Backed, SoundWork
<1>2. ASSUME NEW k \in Connections, Remove(k) PROVE ClaimsOK'
  <2>1. trust' \in [Connections -> [active : BOOLEAN, auto : BOOLEAN]]
    BY <1>2 DEF Remove, ClaimsOK, ClaimsTypeOK
  <2> QED BY <1>2, <2>1 DEF Remove, ClaimsOK, ClaimsTypeOK, Backed, SoundWork
<1>3. ASSUME NEW m \in Movements, Age(m) PROVE ClaimsOK'
  <2> DEFINE new == [movements[m] EXCEPT !.recent = FALSE]
  <2>1. new \in Movement /\ new.backs = movements[m].backs
    BY DEF ClaimsOK, ClaimsTypeOK, Movement
  <2>2. movements' = [movements EXCEPT ![m] = new]
    BY <1>3 DEF Age, ClaimsOK, ClaimsTypeOK
  <2>3. UNCHANGED <<claims, verdicts, trust, paidVes, work>>
    BY <1>3 DEF Age
  <2> HIDE DEF new
  <2> QED BY <2>1, <2>2, <2>3, MovementOK
<1>4. CASE UNCHANGED claimVars
  BY <1>4 DEF claimVars, ClaimsOK, ClaimsTypeOK, Backed, SoundWork
<1> QED BY <1>1, <1>2, <1>3, <1>4, ByHandOK, ByBankOK, DeclareOK, RejectOK, StoreRowOK,
           ReconcilingOK, ReceivingOK DEF ClaimsStep

(* The inductive invariant: work under way is sound and what the bank      *)
(* confirmed is backed.                                                    *)
THEOREM ClaimsAreOK == ClaimsSpec => []ClaimsOK
<1>1. ClaimsInit => ClaimsOK
  <2> SUFFICES ASSUME ClaimsInit PROVE ClaimsOK
    OBVIOUS
  <2>1. AtRest \in Work /\ SoundWork(AtRest)
    BY RestingWork DEF GoodWork
  <2>2. /\ [status |-> "NONE", via |-> "NOBODY"] \in ClaimRow
        /\ [stored |-> FALSE, recent |-> TRUE, backs |-> NoMovement] \in Movement
        /\ NotChecked \in MatchRow
    BY DEF ClaimRow, ClaimStatus, Movement, NotChecked, MatchRow, Outcomes
  <2>3. paidVes \in 0 .. BillDue
    BY ClaimMatchingAssumption DEF ClaimsInit
  <2>4. ClaimsTypeOK
    BY <2>1, <2>2, <2>3 DEF ClaimsInit, ClaimsTypeOK
  <2> QED BY <2>1, <2>4 DEF ClaimsInit, ClaimsOK, Backed
<1>2. ClaimsOK /\ [ClaimsStep]_claimVars => ClaimsOK'
  BY ClaimsStepOK
<1> QED BY <1>1, <1>2, PTL DEF ClaimsSpec

(* Claims, movements, connections and what each process is at stay what    *)
(* they are (bankReconciliation.js, paymentClaims.js).                     *)
THEOREM ClaimsType == ClaimsSpec => []ClaimsTypeOK
BY ClaimsAreOK, PTL DEF ClaimsOK

(* What the bank confirms, a movement backs that says the same in every    *)
(* field and backs nothing else, however many processes decide from what   *)
(* they read before (confirmClaim).                                        *)
THEOREM BankConfirmsWhatItSaw == ClaimsSpec => []BankConfirmsWithItsMovement
<1>1. ClaimsOK => BankConfirmsWithItsMovement
  BY DEF ClaimsOK, Backed, BankConfirmsWithItsMovement, Sound
<1> QED BY <1>1, ClaimsAreOK, PTL

(* Nothing has settled a doubt without anybody looking again.              *)
Undisturbed ==
  /\ \A c \in Claims : claims[c].status \in {"NONE", "PENDING"}
  /\ \A m \in Movements : movements[m].recent
  /\ \A k \in Connections : trust[k].active

(* A process will come to confirm the claim: what it has read is what      *)
(* there is, and the rest it has yet to read.                              *)
WillSee(w, c) ==
  \/ w.step = "STORE"
  \/ /\ w.step = "READ"
     /\ "claims" \in w.reads \/ w.pending = Pending
     /\ \/ "movements" \in w.reads
        \/ w.open = OpenMovements /\ Trusted(OpenMovements) \subseteq w.trusted
  \/ w.step \in {"WRITE", "CONFIRM"} /\ c \in w.confirm

Looked == Undisturbed => \A c \in Overlooked : \E r \in Reconcilers : WillSee(work[r], c)

(* Work that has read nothing yet will see every claim.                    *)
LEMMA FreshSees ==
  \A c : WillSee(Reading, c)' /\ \A S \in SUBSET Movements : WillSee(Storing(S), c)'
<1>1. /\ Reading.step = "READ" /\ Reading.reads = {"claims", "movements"}
      /\ \A S \in SUBSET Movements : Storing(S).step = "STORE"
  BY RestingWork
<1> QED BY <1>1 DEF WillSee

(* What is known of a claim that would be matched now.                     *)
LEMMA OverlookedClaim ==
  ASSUME NEW c \in Overlooked
  PROVE  /\ c \in Claims /\ claims[c].status = "PENDING" /\ BillTakes(c)
         /\ Decided(Pending, OpenMovements)[c].outcome = "MATCHED"
         /\ Decided(Pending, OpenMovements)[c].movement \in Trusted(OpenMovements)
         /\ Pending \in SUBSET Claims /\ OpenMovements \in SUBSET Movements /\ c \in Pending
BY DEF Overlooked, Pending, OpenMovements

(* Where only a process goes on, what is overlooked stays as it was.       *)
LEMMA SameViews ==
  ASSUME UNCHANGED <<claims, movements, trust, paidVes>>
  PROVE  /\ Undisturbed' = Undisturbed /\ Overlooked' = Overlooked
         /\ \A w, c : WillSee(w, c)' = WillSee(w, c)
<1>1. /\ Pending' = Pending /\ OpenMovements' = OpenMovements
      /\ Trusted(OpenMovements)' = Trusted(OpenMovements)
      /\ \A c : BillTakes(c)' = BillTakes(c)
  BY DEF Pending, OpenMovements, Trusted, BillTakes
<1>2. Decided(Pending, OpenMovements)' = Decided(Pending, OpenMovements)
  BY <1>1 DEF Decided
<1> QED BY <1>1, <1>2 DEF Undisturbed, Overlooked, WillSee

(* When nothing it decides from changes, work that goes on has only to     *)
(* see what it would have seen.                                            *)
LEMMA GoesOn ==
  ASSUME ClaimsOK, Looked, UNCHANGED <<claims, movements, trust, paidVes>>,
         NEW r \in Reconcilers, NEW g, work' = [work EXCEPT ![r] = g],
         Undisturbed => \A c \in Overlooked : WillSee(work[r], c) => WillSee(g, c)
  PROVE  Looked'
<1> SUFFICES ASSUME Undisturbed', NEW c \in Overlooked'
             PROVE  \E x \in Reconcilers : WillSee(work[x], c)'
  BY DEF Looked
<1>1. Undisturbed /\ c \in Overlooked
  BY SameViews
<1>2. PICK x \in Reconcilers : WillSee(work[x], c)
  BY <1>1 DEF Looked
<1>3. work'[r] = g /\ \A y \in Reconcilers \ {r} : work'[y] = work[y]
  BY DEF ClaimsOK, ClaimsTypeOK
<1>4. WillSee(work'[x], c)
  BY <1>1, <1>2, <1>3
<1>5. /\ Pending' = Pending /\ OpenMovements' = OpenMovements
      /\ Trusted(OpenMovements)' = Trusted(OpenMovements)
  BY DEF Pending, OpenMovements, Trusted
<1>6. WillSee(work[x], c)'
  BY <1>4, <1>5 DEF WillSee
<1> QED BY <1>6

(* Whoever has both answers decides what anybody would decide now.         *)
LEMMA DecidesForAll ==
  ASSUME NEW w \in Work, w.pending = Pending, w.open = OpenMovements,
         Trusted(OpenMovements) \subseteq w.trusted, NEW c \in Overlooked
  PROVE  WillSee(Deciding(w), c) /\ w.pending # {}
<1>1. c \in Pending /\ Decided(Pending, OpenMovements)[c].outcome = "MATCHED"
      /\ Decided(Pending, OpenMovements)[c].movement \in Trusted(OpenMovements)
  BY OverlookedClaim
<1>2. c \in ToConfirm(w)
  BY <1>1 DEF ToConfirm
<1> QED BY <1>1, <1>2, DecidingFields DEF WillSee

(* Reading claims and movements loses sight of none.                       *)
LEMMA ReadsGoOn ==
  ASSUME ClaimsOK, Looked, NEW r \in Reconcilers, ReadClaims(r) \/ ReadMovements(r) PROVE Looked'
<1>1. work[r] \in Work /\ work[r].step = "READ"
  BY DEF ClaimsOK, ClaimsTypeOK, ReadClaims, ReadMovements
<1>2. CASE ReadClaims(r)
  <2> DEFINE w == [work[r] EXCEPT !.pending = Pending]
  <2>1. /\ w \in Work /\ w.pending = Pending /\ w.open = work[r].open /\ w.trusted = work[r].trusted
        /\ w.reads = work[r].reads /\ w.step = "READ"
    BY <1>1 DEF Work, Pending
  <2>2. work' = [work EXCEPT ![r] = Answered(w, "claims")]
        /\ UNCHANGED <<claims, movements, trust, paidVes>>
    BY <1>2 DEF ReadClaims
  <2> HIDE DEF w
  <2>3. ASSUME NEW c \in Overlooked, WillSee(work[r], c) PROVE WillSee(Answered(w, "claims"), c)
    <3>1. "movements" \in w.reads \/ (w.open = OpenMovements /\ Trusted(OpenMovements) \subseteq w.trusted)
      BY <1>1, <2>1, <2>3 DEF WillSee
    <3>2. CASE w.reads \ {"claims"} # {}
      <4> DEFINE x == [w EXCEPT !.reads = w.reads \ {"claims"}]
      <4>1. /\ x.step = "READ" /\ x.pending = Pending /\ x.open = w.open /\ x.trusted = w.trusted
            /\ x.reads = w.reads \ {"claims"}
        BY <2>1 DEF Work
      <4>2. Answered(w, "claims") = x
        BY <2>1, <3>2, AnsweredWork
      <4> HIDE DEF x
      <4> QED BY <3>1, <4>1, <4>2 DEF WillSee
    <3>3. CASE w.reads \ {"claims"} = {}
      <4>1. WillSee(Deciding(w), c) /\ w.pending # {}
        BY <2>1, <3>1, <3>3, DecidesForAll
      <4> QED BY <2>1, <3>3, <4>1, AnsweredWork
    <3> QED BY <3>2, <3>3
  <2> QED BY <2>2, <2>3, GoesOn
<1>3. CASE ReadMovements(r)
  <2> DEFINE w == [work[r] EXCEPT !.open = OpenMovements, !.trusted = Trusted(OpenMovements)]
  <2>1. /\ w \in Work /\ w.pending = work[r].pending /\ w.open = OpenMovements
        /\ w.trusted = Trusted(OpenMovements) /\ w.reads = work[r].reads /\ w.step = "READ"
    BY <1>1 DEF Work, OpenMovements, Trusted
  <2>2. work' = [work EXCEPT ![r] = Answered(w, "movements")]
        /\ UNCHANGED <<claims, movements, trust, paidVes>>
    BY <1>3 DEF ReadMovements
  <2> HIDE DEF w
  <2>3. ASSUME NEW c \in Overlooked, WillSee(work[r], c) PROVE WillSee(Answered(w, "movements"), c)
    <3>1. "claims" \in w.reads \/ w.pending = Pending
      BY <1>1, <2>1, <2>3 DEF WillSee
    <3>2. CASE w.reads \ {"movements"} # {}
      <4> DEFINE x == [w EXCEPT !.reads = w.reads \ {"movements"}]
      <4>1. /\ x.step = "READ" /\ x.pending = w.pending /\ x.open = w.open /\ x.trusted = w.trusted
            /\ x.reads = w.reads \ {"movements"}
        BY <2>1 DEF Work
      <4>2. Answered(w, "movements") = x
        BY <2>1, <3>2, AnsweredWork
      <4> HIDE DEF x
      <4> QED BY <2>1, <3>1, <4>1, <4>2 DEF WillSee
    <3>3. CASE w.reads \ {"movements"} = {}
      <4>1. WillSee(Deciding(w), c) /\ w.pending # {}
        BY <2>1, <3>1, <3>3, DecidesForAll
      <4> QED BY <2>1, <3>3, <4>1, AnsweredWork
    <3> QED BY <3>2, <3>3
  <2> QED BY <2>2, <2>3, GoesOn
<1> QED BY <1>2, <1>3

(* Writing one verdict loses sight of no other.                            *)
LEMMA LoopGoesOn ==
  ASSUME ClaimsOK, Looked, NEW r \in Reconcilers, NEW d \in Claims, WriteVerdict(r, d) \/ SkipClaim(r, d)
  PROVE  Looked'
<1>1. work[r] \in Work /\ SoundWork(work[r])
  BY DEF ClaimsOK, ClaimsTypeOK
<1>2. ASSUME NEW w, NEW c, w.step \in {"WRITE", "CONFIRM"}, c \in w.confirm, w \in Work
      PROVE  WillSee(Rest(w), c)
  <2> DEFINE x == [w EXCEPT !.step = "CONFIRM"]
  <2>1. x.step = "CONFIRM" /\ x.confirm = w.confirm
    BY <1>2 DEF Work
  <2>2. Rest(w) = w \/ Rest(w) = x
    BY <1>2 DEF Rest
  <2> HIDE DEF x
  <2> QED BY <1>2, <2>1, <2>2 DEF WillSee
<1>3. CASE WriteVerdict(r, d)
  <2> DEFINE w == [work[r] EXCEPT !.write = @ \ {d}]
  <2>1. w \in Work /\ w.step = "WRITE" /\ w.confirm = work[r].confirm /\ work[r].step = "WRITE"
    BY <1>1, <1>3 DEF WriteVerdict, Work
  <2>2. work' = [work EXCEPT ![r] = Rest(w)] /\ UNCHANGED <<claims, movements, trust, paidVes>>
    BY <1>3 DEF WriteVerdict
  <2> HIDE DEF w
  <2>3. ASSUME NEW c \in Overlooked, WillSee(work[r], c) PROVE WillSee(Rest(w), c)
    BY <1>2, <2>1, <2>3 DEF WillSee
  <2> QED BY <2>2, <2>3, GoesOn
<1>4. CASE SkipClaim(r, d)
  <2> DEFINE w == [work[r] EXCEPT !.confirm = @ \ {d}]
             m == work[r].decided[d].movement
  <2>1. w \in Work /\ w.step = "CONFIRM" /\ w.confirm = work[r].confirm \ {d} /\ work[r].step = "CONFIRM"
    BY <1>1, <1>4 DEF SkipClaim, Work
  <2>2. work' = [work EXCEPT ![r] = Rest(w)] /\ UNCHANGED <<claims, movements, trust, paidVes>>
    BY <1>4 DEF SkipClaim
  <2>3. claims[d].status # "PENDING" \/ ~BillTakes(d) \/ movements[m].backs # NoMovement
    BY <1>4 DEF SkipClaim, Free
  <2>4. m \in Movements
    BY <1>1, <1>4 DEF SkipClaim, SoundWork, Sound
  <2> HIDE DEF w, m
  <2>5. ASSUME Undisturbed, NEW c \in Overlooked, WillSee(work[r], c) PROVE WillSee(Rest(w), c)
    <3>1. c \in work[r].confirm
      BY <2>1, <2>5 DEF WillSee
    <3>2. c # d
      <4>1. claims[c].status = "PENDING" /\ BillTakes(c)
        BY OverlookedClaim
      <4>2. movements[m].backs = NoMovement
        BY <2>4, <2>5 DEF Undisturbed, ClaimsOK, Backed
      <4> QED BY <2>3, <4>1, <4>2
    <3> QED BY <1>2, <2>1, <3>1, <3>2
  <2> QED BY <2>2, <2>5, GoesOn
<1> QED BY <1>3, <1>4

(* Whoever changes what may be matched looks at all of it, from the start. *)
LEMMA ChangersLook ==
  ASSUME ClaimsOK, Looked, NEW r \in Reconcilers,
         \/ \E c \in Claims : Declare(c, r)
         \/ \E m \in Movements : StoreRow(r, m)
         \/ \E k \in Connections :
              \/ \E S \in SUBSET Movements : ReceiveRows(r, k, S)
              \/ \E m \in Movements : MercantilInbound(r, k, m)
              \/ SetAuto(k, r, TRUE)
  PROVE  Looked'
<1> SUFFICES ASSUME Undisturbed', NEW c \in Overlooked'
             PROVE  \E x \in Reconcilers : WillSee(work[x], c)'
  BY DEF Looked
<1>1. ASSUME work' = [work EXCEPT ![r] = Reading] PROVE WillSee(work[r], c)'
  <2>1. work'[r] = Reading
    BY <1>1 DEF ClaimsOK, ClaimsTypeOK
  <2>2. /\ Reading.step = "READ" /\ Reading.reads = {"claims", "movements"}
    BY RestingWork
  <2> QED BY <2>1, <2>2 DEF WillSee
<1>2. ASSUME work'[r].step = "STORE" PROVE WillSee(work[r], c)'
  BY <1>2 DEF WillSee
<1>3. ASSUME NEW S \in SUBSET Movements, NEW k \in Connections, Receive(r, k, S) PROVE WillSee(work[r], c)'
  <2>1. work'[r] = Storing(S)
    BY <1>3 DEF Receive, ClaimsOK, ClaimsTypeOK
  <2> QED BY <1>2, <2>1, RestingWork
<1>4. ASSUME NEW m \in Movements, StoreRow(r, m) PROVE WillSee(work[r], c)'
  <2>1. CASE work[r].rows = {m}
    BY <1>1, <1>4, <2>1 DEF StoreRow
  <2>2. CASE work[r].rows # {m}
    <3> DEFINE x == [work[r] EXCEPT !.rows = @ \ {m}]
    <3>1. x.step = "STORE"
      BY <1>4 DEF StoreRow, ClaimsOK, ClaimsTypeOK, Work
    <3>2. work'[r] = x
      BY <1>4, <2>2 DEF StoreRow, ClaimsOK, ClaimsTypeOK
    <3> HIDE DEF x
    <3> QED BY <1>2, <3>1, <3>2
  <2> QED BY <2>1, <2>2
<1>5. ASSUME NEW d \in Claims, Declare(d, r) PROVE WillSee(work[r], c)'
  <2>1. Overlooked' # {} => OpenMovements' # {}
    BY DEF Overlooked, Trusted
  <2>2. \E k \in Connections : trust[k].active
    <3>1. PICK m \in OpenMovements' : TRUE
      BY <2>1
    <3>2. m \in Movements /\ trust'[Source[m]].active
      BY <3>1 DEF OpenMovements
    <3>3. Source[m] \in Connections /\ trust' = trust
      BY <1>5, <3>2, ClaimMatchingAssumption DEF Declare
    <3> QED BY <3>2, <3>3
  <2>3. AfterClaim(r) = Reading
    BY <2>2 DEF AfterClaim
  <2> QED BY <1>1, <1>5, <2>3 DEF Declare
<1>6. ASSUME NEW k \in Connections, SetAuto(k, r, TRUE) PROVE WillSee(work[r], c)'
  BY <1>1, <1>6 DEF SetAuto
<1> QED BY <1>3, <1>4, <1>5, <1>6 DEF ReceiveRows, MercantilInbound

(* Every step leaves somebody who will see each claim that would be        *)
(* matched.                                                                *)
LEMMA NobodyOverlooks == ASSUME ClaimsOK, Looked, [ClaimsStep]_claimVars PROVE Looked'
<1>1. CASE PayAtTill
  <2>1. \A c \in Claims : ~BillTakes(c)'
    <3>1. paidVes' = BillDue /\ BillDue \in Nat
      BY <1>1, ClaimMatchingAssumption DEF PayAtTill
    <3> QED BY <3>1 DEF BillTakes
  <2>2. Overlooked' = {}
    BY <2>1 DEF Overlooked, Pending
  <2> QED BY <2>2 DEF Looked
<1>2. ASSUME NEW c \in Claims, ConfirmByHand(c) \/ Reject(c) \/ \E r \in Reconcilers : ConfirmByBank(r, c)
      PROVE  Looked'
  <2>1. claims'[c].status \in {"SUCCEEDED", "FAILED"}
    <3>1. CASE Reject(c)
      <4>1. claims[c] \in ClaimRow
        BY DEF ClaimsOK, ClaimsTypeOK
      <4>2. [claims[c] EXCEPT !.status = "FAILED"].status = "FAILED"
        BY <4>1 DEF ClaimRow
      <4>3. claims'[c] = [claims[c] EXCEPT !.status = "FAILED"]
        BY <3>1 DEF Reject, ClaimsOK, ClaimsTypeOK
      <4> QED BY <4>2, <4>3
    <3>2. ASSUME NEW via \in {"STAFF", "BANK"}, Settle(c, via) PROVE claims'[c].status = "SUCCEEDED"
      BY <3>2, SettledClaim
    <3> QED BY <1>2, <3>1, <3>2 DEF ConfirmByHand, ConfirmByBank
  <2>2. ~Undisturbed'
    BY <2>1 DEF Undisturbed
  <2> QED BY <2>2 DEF Looked
<1>3. ASSUME NEW m \in Movements, Age(m) PROVE Looked'
  <2>1. movements'[m].recent = FALSE
    <3>1. movements[m] \in Movement
      BY DEF ClaimsOK, ClaimsTypeOK
    <3>2. [movements[m] EXCEPT !.recent = FALSE].recent = FALSE
      BY <3>1 DEF Movement
    <3> QED BY <1>3, <3>2 DEF Age, ClaimsOK, ClaimsTypeOK
  <2> QED BY <2>1 DEF Looked, Undisturbed
<1>4. ASSUME NEW k \in Connections, Remove(k) PROVE Looked'
  <2>1. ~trust'[k].active
    BY <1>4 DEF Remove, ClaimsOK, ClaimsTypeOK
  <2> QED BY <2>1 DEF Looked, Undisturbed
<1>5. ASSUME NEW r \in Reconcilers, NEW k \in Connections, SetAuto(k, r, FALSE) PROVE Looked'
  <2>1. /\ \A x \in Connections : trust'[x].active = trust[x].active
        /\ \A x \in Connections : trust'[x].auto => trust[x].auto
        /\ UNCHANGED <<claims, movements, paidVes>>
    <3>1. [trust[k] EXCEPT !.auto = FALSE].active = trust[k].active /\ ~[trust[k] EXCEPT !.auto = FALSE].auto
      BY DEF ClaimsOK, ClaimsTypeOK
    <3>2. trust' = [trust EXCEPT ![k] = [trust[k] EXCEPT !.auto = FALSE]]
      BY <1>5 DEF SetAuto, ClaimsOK, ClaimsTypeOK
    <3> QED BY <1>5, <3>1, <3>2 DEF SetAuto, ClaimsOK, ClaimsTypeOK
  <2>2. \A x \in Reconcilers : work'[x] = work[x]
    BY <1>5 DEF SetAuto, ClaimsOK, ClaimsTypeOK
  <2>3. Pending' = Pending /\ OpenMovements' = OpenMovements /\ \A c \in Claims : BillTakes(c)' = BillTakes(c)
    BY <2>1, ClaimMatchingAssumption DEF Pending, OpenMovements, BillTakes
  <2>4. Trusted(OpenMovements)' \subseteq Trusted(OpenMovements)
    BY <2>1, <2>3, ClaimMatchingAssumption DEF Trusted, OpenMovements
  <2>5. Decided(Pending, OpenMovements)' = Decided(Pending, OpenMovements)
    BY <2>3 DEF Decided
  <2>6. Overlooked' \subseteq Overlooked
    BY <2>3, <2>4, <2>5 DEF Overlooked, Pending
  <2>7. Undisturbed' = Undisturbed
    BY <2>1 DEF Undisturbed
  <2>8. ASSUME NEW c \in Overlooked, NEW x \in Reconcilers, WillSee(work[x], c) PROVE WillSee(work[x], c)'
    BY <2>2, <2>3, <2>4, <2>8 DEF WillSee
  <2> QED BY <2>6, <2>7, <2>8 DEF Looked
<1>6. CASE UNCHANGED claimVars
  <2>1. UNCHANGED <<claims, movements, trust, paidVes, work>>
    BY <1>6 DEF claimVars
  <2> QED BY <2>1, SameViews DEF Looked
<1> QED BY <1>1, <1>2, <1>3, <1>4, <1>5, <1>6, ChangersLook, ReadsGoOn, LoopGoesOn DEF ClaimsStep

(* A claim and the movement that pays it do not miss each other, however   *)
(* many processes reconcile and whatever order their queries are answered  *)
(* in (reconcileAfterClaim, ingest, updateConnection).                     *)
THEOREM NothingIsOverlooked == ClaimsSpec => []NothingOverlooked
<1>1. ClaimsInit => Looked
  BY DEF ClaimsInit, Looked, Overlooked, Pending
<1>2. ClaimsOK /\ Looked /\ [ClaimsStep]_claimVars => Looked'
  BY NobodyOverlooks
<1>3. Looked => NothingOverlooked
  <2> SUFFICES ASSUME Looked, Undisturbed, \A r \in Reconcilers : work[r] = AtRest, NEW c \in Overlooked
               PROVE  FALSE
    BY DEF NothingOverlooked, Undisturbed
  <2>1. PICK r \in Reconcilers : WillSee(AtRest, c)
    BY DEF Looked
  <2> QED BY <2>1, RestingWork DEF WillSee
<1> QED BY <1>1, <1>2, <1>3, ClaimsAreOK, PTL DEF ClaimsSpec
=============================================================================
