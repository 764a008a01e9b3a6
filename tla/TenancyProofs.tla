--------------------------- MODULE TenancyProofs ---------------------------
(***************************************************************************)
(* The keys, the accounts and the workspaces, for any users, requests,     *)
(* keys, prefixes and plans.                                               *)
(*                                                                         *)
(* KeysKept: a key never changes hands, a revoked one is never active      *)
(* again, and the keys of the configured administrators cannot be revoked. *)
(* Requests hold what they have read across transactions, so the invariant *)
(* KeyInv says what stays true of it: a key that a request was let in by,  *)
(* or has chosen to revoke, still exists and still belongs to whom it did. *)
(* The row a request may insert is not there before its last step.         *)
(*                                                                         *)
(* WorkspacesUsable and TenantsSeparate: TenantInv adds what the rows have *)
(* to do with each other and with the requests that are making them, in    *)
(* the second half of the module.                                          *)
(***************************************************************************)
EXTENDS Tenancy, TLAPS

Identity == [key : Keys \cup {None}, user : Users \cup {None},
             workspace : Workspaces \cup {None}]

(* The steps at which args names a user.                                   *)
Naming == {"register.user", "register.workspace", "register.owner", "register.key",
           "login.workspaces", "login.key"}

(* The key k exists, and is the user's.                                    *)
Exists(k) == k \in Keys /\ keys[k] # None

(* What a request holds.                                                   *)
Local(r) ==
  /\ id[r] \in Identity
  /\ id[r].user # None => Exists(id[r].key) /\ keys[id[r].key].user = id[r].user
  /\ pc[r] # "done" => keys[r] = None
  /\ pc[r] \in Naming => args[r].user \in Users
  /\ pc[r] = "login.key" => args[r].workspace \in Workspaces
  /\ pc[r] = "revoke.write" => id[r].user # None /\ Exists(args[r].key)
  /\ pc[r] = "admin_revoke.write" => args[r].key \notin AdminKeys /\ Exists(args[r].key)

Shapes == DOMAIN pc = Requests /\ DOMAIN id = Requests /\ DOMAIN args = Requests

Rooted == \A k \in Roots : keys[k] # None /\ keys[k].user = None

KeyInv ==
  /\ keys \in [Keys -> APIKeyRecord \cup {None}]
  /\ Shapes /\ Rooted /\ AdminKeysStayValid
  /\ \A r \in Requests : Local(r)

(* What a step may do to the keys; only request r adds one, its own.       *)
KeyMove(r) ==
  /\ keys' \in [Keys -> APIKeyRecord \cup {None}]
  /\ \A k \in Keys : (keys[k] # None) =>
       \/ keys'[k] = keys[k]
       \/ k \notin AdminKeys /\ keys'[k] = [keys[k] EXCEPT !.status = "revoked"]
  /\ \A k \in Keys \ {r} : keys[k] = None => keys'[k] = None

(* What a step of r leaves alone.                                          *)
Frame(r) ==
  /\ DOMAIN pc' = Requests /\ DOMAIN id' = Requests /\ DOMAIN args' = Requests
  /\ \A q \in Requests \ {r} : pc'[q] = pc[q] /\ id'[q] = id[q] /\ args'[q] = args[q]

-----------------------------------------------------------------------------
(* The three ways to write the keys.                                       *)

LEMMA SameKeys ==
  ASSUME KeyInv, NEW r \in Requests, keys' = keys
  PROVE  KeyMove(r)
BY DEF KeyInv, KeyMove

LEMMA CreatesKey ==
  ASSUME KeyInv, NEW r \in Requests, pc[r] # "done",
         NEW u \in Users \cup {None}, NEW w \in Workspaces \cup {None}, CreateKey(r, u, w)
  PROVE  KeyMove(r)
<1>1. keys[r] = None /\ r \in Keys
  BY DEF KeyInv, Local, Keys, Workspaces
<1>2. NewKey(u, w) \in APIKeyRecord
  BY DEF NewKey, APIKeyRecord
<1> QED
  BY <1>1, <1>2 DEF KeyInv, KeyMove, CreateKey

LEMMA RevokesKey ==
  ASSUME KeyInv, NEW r \in Requests, NEW k \in Keys \ AdminKeys, keys[k] # None,
         UpdateStatus(k, "revoked")
  PROVE  KeyMove(r)
<1>1. keys[k] \in APIKeyRecord /\ [keys[k] EXCEPT !.status = "revoked"] \in APIKeyRecord
  BY DEF KeyInv, APIKeyRecord
<1> QED
  BY <1>1 DEF KeyInv, KeyMove, UpdateStatus

(* A key that exists goes on to exist and to belong to whom it did.        *)
LEMMA KeyStays ==
  ASSUME KeyInv, NEW r \in Requests, KeyMove(r), NEW k, Exists(k)
  PROVE  Exists(k)' /\ keys'[k].user = keys[k].user
<1>1. keys[k] \in APIKeyRecord /\ [keys[k] EXCEPT !.status = "revoked"] \in APIKeyRecord
      /\ [keys[k] EXCEPT !.status = "revoked"].user = keys[k].user
  BY DEF KeyInv, Exists, APIKeyRecord
<1> QED
  BY <1>1, RowAssumption DEF KeyMove, Exists

(* What the other requests hold is true after a step of r.                 *)
LEMMA OthersKept ==
  ASSUME KeyInv, NEW r \in Requests, KeyMove(r), Frame(r), Local(r)'
  PROVE  KeyInv'
<1>1. ASSUME NEW q \in Requests \ {r} PROVE Local(q)'
  <2>1. Local(q) /\ pc'[q] = pc[q] /\ id'[q] = id[q] /\ args'[q] = args[q]
    BY DEF KeyInv, Frame
  <2>2. pc[q] # "done" => keys'[q] = None
    BY <2>1 DEF Local, KeyMove, Keys, Workspaces
  <2> QED
    BY <2>1, <2>2, KeyStays DEF Local
<1>2. Rooted'
  BY KeyStays DEF KeyInv, Rooted, Exists, Keys
<1>3. AdminKeysStayValid'
  BY AdminAssumption DEF KeyInv, AdminKeysStayValid, Validate, KeyMove, Keys
<1> QED
  BY <1>1, <1>2, <1>3 DEF KeyInv, KeyMove, Frame, Shapes

-----------------------------------------------------------------------------
(* The steps of a request.                                                 *)

(* A step that only moves its request, or answers it.                      *)
LEMMA Moves ==
  ASSUME KeyInv, NEW r \in Requests,
         \/ \E step, a : Goto(r, step, a)
         \/ \E code : Respond(r, code)
  PROVE  Frame(r)
BY DEF KeyInv, Shapes, Frame, Goto, Respond

LEMMA Answered ==
  ASSUME KeyInv, NEW r \in Requests, NEW code, Respond(r, code), KeyMove(r)
  PROVE  Local(r)'
BY DEF KeyInv, Shapes, Respond, Local, Naming, Identity, NoIdentity

(* A request goes on: what it holds next is true if args says so.          *)
LEMMA GoesOn ==
  ASSUME KeyInv, NEW r \in Requests, NEW step, NEW a, Goto(r, step, a), keys' = keys,
         pc[r] # "done",
         step \in Naming => a.user \in Users,
         step = "login.key" => a.workspace \in Workspaces,
         step = "revoke.write" => id[r].user # None /\ Exists(a.key),
         step = "admin_revoke.write" => a.key \notin AdminKeys /\ Exists(a.key)
  PROVE  Local(r)'
<1>1. pc'[r] = step /\ args'[r] = a /\ id' = id /\ Local(r)
  BY DEF KeyInv, Shapes, Goto
<1> QED
  BY <1>1 DEF Local, Exists

LEMMA AnswerStep ==
  ASSUME KeyInv, NEW r \in Requests, NEW code, Respond(r, code), KeyMove(r)
  PROVE  KeyInv'
BY Moves, Answered, OthersKept

LEMMA GotoStep ==
  ASSUME KeyInv, NEW r \in Requests, NEW step, NEW a, Goto(r, step, a), keys' = keys,
         pc[r] # "done",
         step \in Naming => a.user \in Users,
         step = "login.key" => a.workspace \in Workspaces,
         step = "revoke.write" => id[r].user # None /\ Exists(a.key),
         step = "admin_revoke.write" => a.key \notin AdminKeys /\ Exists(a.key)
  PROVE  KeyInv' /\ KeyMove(r)
BY SameKeys, Moves, GoesOn, OthersKept

(* The request is let in, and gets the identity of a valid key.            *)
LEMMA LetIn ==
  ASSUME KeyInv, NEW r \in Requests, RequireApiKey(r) \/ RequireAdminKey(r)
  PROVE  KeyInv' /\ KeyMove(r)
<1>1. keys' = keys /\ KeyMove(r)
  BY SameKeys DEF RequireApiKey, RequireAdminKey, Same, rows
<1>2. CASE \E code : Respond(r, code)
  BY <1>1, <1>2, AnswerStep
<1>3. ASSUME NEW k \in Keys, NEW op \in UserOps \cup AdminOps, Validate(k), pc[r] = "idle",
             pc' = [pc EXCEPT ![r] = op], UNCHANGED args,
             \/ id' = [id EXCEPT ![r] = [key |-> k, user |-> keys[k].user,
                                        workspace |-> keys[k].workspace]]
             \/ id' = [id EXCEPT ![r] = [NoIdentity EXCEPT !.key = k]]
      PROVE  KeyInv'
  <2>1. pc'[r] = op /\ Frame(r) /\ keys[r] = None
    BY <1>3 DEF KeyInv, Shapes, Frame, Local
  <2>2. keys[k] \in APIKeyRecord /\ Exists(k)
    BY <1>3 DEF KeyInv, Validate, Exists
  <2>3. /\ id'[r] \in Identity
        /\ id'[r].user # None => id'[r].key = k /\ id'[r].user = keys[k].user
    BY <1>3, <2>2 DEF KeyInv, Shapes, Identity, NoIdentity, APIKeyRecord
  <2>4. op \notin Naming \cup {"done", "login.key", "revoke.write", "admin_revoke.write"}
    BY DEF UserOps, AdminOps, Naming
  <2>5. Local(r)'
    BY <1>1, <2>1, <2>2, <2>3, <2>4 DEF Local, Exists
  <2> QED
    BY <1>1, <2>1, <2>5, OthersKept
<1>4. CASE RequireApiKey(r)
  BY <1>1, <1>2, <1>3, <1>4 DEF RequireApiKey, At, Raise
<1>5. CASE RequireAdminKey(r)
  BY <1>1, <1>2, <1>3, <1>5 DEF RequireAdminKey, At, Raise
<1> QED
  BY <1>4, <1>5

(* The prefix of a key finds a key that exists.                            *)
LEMMA Found ==
  ASSUME NEW p, NEW u
  PROVE  /\ LET k == FindHashByPrefix(p) IN k # None /\ k # "conflict" => Exists(k)
         /\ LET k == FindHashByPrefixForUser(p, u) IN k # None /\ k # "conflict" => Exists(k)
<1>1. Matches(p) # {} => (CHOOSE k \in Keys : k \in Matches(p)) \in Matches(p)
  BY DEF Matches
<1>2. MatchesForUser(p, u) # {} =>
        (CHOOSE k \in Keys : k \in MatchesForUser(p, u)) \in MatchesForUser(p, u)
  BY DEF MatchesForUser, Matches
<1> QED
  BY <1>1, <1>2 DEF FindHashByPrefix, FindHashByPrefixForUser, MatchesForUser, Matches, Exists

(* The steps that write a key.                                             *)
LEMMA KeySteps ==
  ASSUME KeyInv, NEW r \in Requests,
         \/ Logout(r) \/ CreateUserApiKey(r) \/ RevokeForUser(r)
         \/ AdminCreateKey(r) \/ AdminRevokeKey(r) \/ RegisterKey(r) \/ LoginKey(r)
  PROVE  KeyInv' /\ KeyMove(r)
<1> SUFFICES KeyMove(r)
  BY AnswerStep DEF Logout, CreateUserApiKey, RevokeForUser, AdminCreateKey,
     AdminRevokeKey, RegisterKey, LoginKey
<1>1. Local(r) /\ r \in Workspaces
  BY DEF KeyInv, Workspaces
<1>2. \A k \in Keys : keys[k].user # None => k \notin AdminKeys
  BY AdminAssumption DEF KeyInv, Rooted
<1>3. CASE keys' = keys
  BY <1>3, SameKeys
<1>4. CASE Logout(r) /\ keys' # keys
  <2>1. id[r].user # None /\ UpdateStatus(id[r].key, "revoked")
    BY <1>4 DEF Logout, UserBound
  <2> QED
    BY <1>1, <1>2, <2>1, RevokesKey DEF Local, Exists
<1>5. CASE RevokeForUser(r) /\ keys' # keys
  <2>1. /\ pc[r] = "revoke.write" /\ keys[args[r].key].user = id[r].user
        /\ UpdateStatus(args[r].key, "revoked")
    BY <1>5 DEF RevokeForUser, At
  <2> QED
    BY <1>1, <1>2, <2>1, RevokesKey DEF Local, Exists
<1>6. CASE AdminRevokeKey(r)
  BY <1>1, <1>6, RevokesKey DEF AdminRevokeKey, At, Local, Exists
<1>7. CASE CreateUserApiKey(r) /\ keys' # keys
  BY <1>1, <1>7, CreatesKey DEF CreateUserApiKey, At, Local, Identity
<1>8. CASE AdminCreateKey(r)
  BY <1>8, CreatesKey DEF AdminCreateKey, At
<1>9. CASE RegisterKey(r)
  BY <1>1, <1>9, CreatesKey DEF RegisterKey, At, Local, Naming
<1>10. CASE LoginKey(r)
  BY <1>1, <1>10, CreatesKey DEF LoginKey, At, Local, Naming
<1> QED
  BY <1>3, <1>4, <1>5, <1>6, <1>7, <1>8, <1>9, <1>10

(* The steps that choose the key to revoke.                                *)
LEMMA ChoiceSteps ==
  ASSUME KeyInv, NEW r \in Requests, FindForUser(r) \/ AdminFindKey(r)
  PROVE  KeyInv' /\ KeyMove(r)
<1>1. keys' = keys /\ KeyMove(r) /\ pc[r] # "done"
  BY SameKeys DEF FindForUser, AdminFindKey, At, Same, rows
<1>2. CASE \E code : Respond(r, code)
  BY <1>1, <1>2, AnswerStep
<1>3. ASSUME NEW k, Exists(k), id[r].user # None, Goto(r, "revoke.write", [key |-> k])
      PROVE  KeyInv'
  BY <1>1, <1>3, GotoStep DEF Naming
<1>4. ASSUME NEW k, Exists(k), k \notin AdminKeys, Goto(r, "admin_revoke.write", [key |-> k])
      PROVE  KeyInv'
  BY <1>1, <1>4, GotoStep DEF Naming
<1>5. CASE FindForUser(r)
  BY <1>1, <1>2, <1>3, <1>5, Found DEF FindForUser, Raise, UserBound
<1>6. CASE AdminFindKey(r)
  BY <1>1, <1>2, <1>4, <1>6, Found DEF AdminFindKey, Raise
<1> QED
  BY <1>5, <1>6

(* Registration and login up to the key.                                   *)
LEMMA AccountSteps ==
  ASSUME KeyInv, NEW r \in Requests,
         \/ RegisterCheck(r) \/ InsertUser(r) \/ RegisterWorkspace(r) \/ RegisterOwner(r)
         \/ LoginUser(r) \/ LoginWorkspaces(r)
  PROVE  KeyInv' /\ KeyMove(r)
<1>1. keys' = keys /\ KeyMove(r) /\ pc[r] # "done" /\ Local(r)
  BY SameKeys DEF RegisterCheck, InsertUser, RegisterWorkspace, RegisterOwner, LoginUser,
     LoginWorkspaces, At, Same, rows, KeyInv
<1>2. CASE \E code : Respond(r, code)
  BY <1>1, <1>2, AnswerStep
<1>3. ASSUME NEW step \in Naming, NEW a, a.user \in Users,
             step = "login.key" => a.workspace \in Workspaces, Goto(r, step, a)
      PROVE  KeyInv'
  BY <1>1, <1>3, GotoStep DEF Naming
<1>4. CASE RegisterCheck(r)
  BY <1>1, <1>2, <1>3, <1>4 DEF RegisterCheck, Raise, Naming
<1>5. CASE InsertUser(r) \/ RegisterWorkspace(r) \/ RegisterOwner(r)
  BY <1>1, <1>2, <1>3, <1>5 DEF InsertUser, RegisterWorkspace, RegisterOwner, At, Raise,
     Naming, Local
<1>6. CASE LoginUser(r)
  BY <1>1, <1>2, <1>3, <1>6 DEF LoginUser, Raise, Naming
<1>7. CASE LoginWorkspaces(r)
  <2>1. args[r].user \in Users
    BY <1>1, <1>7 DEF LoginWorkspaces, At, Local, Naming
  <2> QED
    BY <1>1, <1>2, <1>3, <1>7, <2>1 DEF LoginWorkspaces, WorkspacesOf, Naming
<1> QED
  BY <1>4, <1>5, <1>6, <1>7

(* Workspaces, members and subscriptions.                                  *)
LEMMA WorkspaceSteps ==
  ASSUME KeyInv, NEW r \in Requests,
         \/ CreateWorkspace(r) \/ CreateWorkspaceOwner(r)
         \/ AddMemberRequest(r) \/ FindTargetUser(r) \/ CountMembers(r) \/ AddMember(r)
         \/ ChangeRoleRequest(r) \/ RemoveMemberRequest(r) \/ CheckTarget(r)
         \/ UpdateMemberRole(r) \/ RemoveMember(r)
         \/ AssignSubscription(r) \/ AssignPlan(r)
  PROVE  KeyInv' /\ KeyMove(r)
<1>1. keys' = keys /\ pc[r] # "done"
  BY DEF CreateWorkspace, CreateWorkspaceOwner, AddMemberRequest, FindTargetUser,
     CountMembers, AddMember, ChangeRoleRequest, RemoveMemberRequest, CheckTarget,
     UpdateMemberRole, RemoveMember, AssignSubscription, AssignPlan, RequireMemberRole,
     At, Same, rows
<1>2. KeyMove(r)
  BY <1>1, SameKeys
<1>3. CASE \E code : Respond(r, code)
  BY <1>2, <1>3, AnswerStep
<1>4. ASSUME NEW a, NEW step \in {"new_workspace.owner", "add.find", "target", "add.count",
                                  "add.write", "target.write", "subscribe.write"},
             Goto(r, step, a)
      PROVE  KeyInv'
  BY <1>1, <1>4, GotoStep DEF Naming
<1>5. CASE CreateWorkspace(r) \/ CreateWorkspaceOwner(r)
  BY <1>2, <1>3, <1>4, <1>5 DEF CreateWorkspace, CreateWorkspaceOwner, Raise
<1>6. CASE AddMemberRequest(r) \/ ChangeRoleRequest(r) \/ RemoveMemberRequest(r)
  BY <1>2, <1>3, <1>4, <1>6 DEF AddMemberRequest, ChangeRoleRequest, RemoveMemberRequest,
     RequireMemberRole, Raise
<1>7. CASE FindTargetUser(r) \/ CountMembers(r) \/ AddMember(r)
  BY <1>2, <1>3, <1>4, <1>7 DEF FindTargetUser, CountMembers, AddMember, Raise
<1>8. CASE CheckTarget(r) \/ UpdateMemberRole(r) \/ RemoveMember(r)
  BY <1>2, <1>3, <1>4, <1>8 DEF CheckTarget, UpdateMemberRole, RemoveMember, Raise
<1>9. CASE AssignSubscription(r) \/ AssignPlan(r)
  BY <1>2, <1>3, <1>4, <1>9 DEF AssignSubscription, AssignPlan, CreateSubscription,
     UpdateSubscription, Raise
<1> QED
  BY <1>5, <1>6, <1>7, <1>8, <1>9

(* A request that is cut off holds nothing any more.                       *)
LEMMA InterruptStep ==
  ASSUME KeyInv, NEW r \in Requests, Interrupt(r)
  PROVE  KeyInv' /\ KeyMove(r)
<1>1. KeyMove(r)
  BY SameKeys DEF Interrupt, Same, rows
<1>2. Frame(r) /\ Local(r)'
  BY DEF KeyInv, Shapes, Interrupt, Frame, Local, Naming, Identity, NoIdentity
<1> QED
  BY <1>1, <1>2, OthersKept

(* A start changes no key: those of the settings are there.                *)
LEMMA BootstrapStep ==
  ASSUME KeyInv, BootstrapKeys
  PROVE  KeyInv' /\ keys' = keys
<1>1. \A k \in Keys : (IF k \in Roots THEN EnsureKey(k) ELSE keys[k]) = keys[k]
  BY DEF KeyInv, Rooted, EnsureKey
<1>2. keys' = keys
  BY <1>1 DEF KeyInv, BootstrapKeys
<1>3. ASSUME NEW r \in Requests PROVE Local(r)'
  BY <1>2, <1>3 DEF KeyInv, BootstrapKeys, Local, Naming, Identity, NoIdentity
<1> QED
  BY <1>2, <1>3 DEF KeyInv, BootstrapKeys, Shapes, Rooted, AdminKeysStayValid, Validate

-----------------------------------------------------------------------------
(* What holds of every run.                                                *)

LEMMA KeyInit == Init => KeyInv
<1> SUFFICES ASSUME Init PROVE KeyInv
  OBVIOUS
<1>1. keys \in [Keys -> APIKeyRecord \cup {None}]
  BY RegisteredAssumption DEF Init, APIKeyRecord, Keys, Workspaces
<1>2. \A k \in Roots : keys[k] = [user |-> None, workspace |-> None, status |-> "active"]
  BY NamesAssumption DEF Init, Keys, Workspaces
<1>3. Rooted /\ AdminKeysStayValid
  <2>1. [user |-> None, workspace |-> None, status |-> "active"] \in APIKeyRecord
    BY DEF APIKeyRecord
  <2> QED
    BY <1>2, <2>1, RowAssumption, AdminAssumption DEF Rooted, AdminKeysStayValid, Validate
<1>4. ASSUME NEW r \in Requests PROVE Local(r)
  BY <1>4, NamesAssumption DEF Init, Local, Naming, Identity, NoIdentity, Keys, Workspaces
<1> QED
  BY <1>1, <1>3, <1>4 DEF KeyInv, Shapes, Init

(* Every step of the system is one of a request, a start or a stutter.     *)
LEMMA KeyNext ==
  ASSUME KeyInv, [Next]_vars
  PROVE  KeyInv' /\ (keys' = keys \/ \E r \in Requests : KeyMove(r))
<1>1. ASSUME NEW r \in Requests, RequestStep(r) PROVE KeyInv' /\ KeyMove(r)
  BY <1>1, LetIn, KeySteps, ChoiceSteps, AccountSteps, WorkspaceSteps DEF RequestStep
<1>2. ASSUME NEW r \in Requests, Interrupt(r) PROVE KeyInv' /\ KeyMove(r)
  BY <1>2, InterruptStep
<1>3. CASE BootstrapKeys
  BY <1>3, BootstrapStep
<1>4. CASE UNCHANGED vars
  BY <1>4 DEF vars, rows, locals, KeyInv, Shapes, Rooted, AdminKeysStayValid, Validate,
     Local, Exists
<1> QED
  BY <1>1, <1>2, <1>3, <1>4 DEF Next

(* The invariant holds in every run.                                       *)
THEOREM KeyInvariant == Spec => []KeyInv
<1>1. KeyInv /\ [Next]_vars => KeyInv'
  BY KeyNext
<1> QED
  BY <1>1, KeyInit, PTL DEF Spec

(* A key never changes hands, a revoked key is never active again, and no  *)
(* sequence of calls, interruptions and starts takes the key of a          *)
(* configured administrator.                                               *)
THEOREM KeysAreKept == Spec => KeysKept
<1>1. ASSUME KeyInv, [Next]_vars
      PROVE  \A k \in Keys : (keys[k] # None) =>
               \/ keys'[k] = keys[k]
               \/ keys'[k] = [keys[k] EXCEPT !.status = "revoked"]
  BY <1>1, KeyNext DEF KeyMove
<1>2. KeyInv /\ [Next]_vars =>
        [\A k \in Keys : (keys[k] # None) =>
           \/ keys'[k] = keys[k]
           \/ keys'[k] = [keys[k] EXCEPT !.status = "revoked"]]_vars
  BY <1>1
<1>3. KeyInv => AdminKeysStayValid
  BY DEF KeyInv
<1> QED
  BY <1>2, <1>3, KeyInvariant, PTL DEF Spec, KeysKept, RevokedStaysRevoked

-----------------------------------------------------------------------------
(* Accounts, workspaces and members.  A workspace gets its owner in two    *)
(* transactions, and managers read and write in two as well: what keeps    *)
(* the owner is that nobody can be a member before the owner is, so that   *)
(* no request about members is under way until there is an owner's row,    *)
(* and that row is never written again.                                    *)

OwnerSteps == {"register.owner", "new_workspace.owner"}
Claiming   == {"register.workspace", "register.owner", "register.key"}
Managing   == {"add.find", "add.count", "add.write", "target", "target.write"}

OwnerIn(w) == creator[w] # None /\ members[w][creator[w]] = "owner"
Unowned(w) ==
  /\ w \in Requests /\ (Interrupted(w) \/ pc[w] \in OwnerSteps)
  /\ \A u \in Users : members[w][u] = None

RowTypes ==
  /\ users \subseteq Users /\ Registered \subseteq users
  /\ creator \in [Workspaces -> Users \cup {None}]
  /\ members \in [Workspaces -> [Users -> Roles \cup {None}]]
  /\ DOMAIN reply = Requests

RowInv ==
  /\ RowTypes
  /\ \A w \in Workspaces, u \in Users :
       /\ members[w][u] # None => <<w, u>> \in joined
       /\ <<w, u>> \in joined => creator[w] # None
       /\ members[w][u] = "owner" => creator[w] = u
  /\ \A w \in Workspaces : creator[w] # None => OwnerIn(w) \/ Unowned(w)

(* What request r holds of the accounts and workspaces.                    *)
Holds(r) ==
  /\ pc[r] # "done" => reply[r] = None
  /\ creator[r] # None => pc[r] \in OwnerSteps \cup {"register.key", "done"}
  /\ id[r].user # None =>
       id[r].workspace \in Workspaces /\ <<id[r].workspace, id[r].user>> \in joined
  /\ pc[r] = "login.key" => <<args[r].workspace, args[r].user>> \in joined
  /\ pc[r] \in {"register.owner", "register.key"} => creator[r] = args[r].user
  /\ pc[r] = "register.key" => <<r, args[r].user>> \in joined /\ OwnerIn(r)
  /\ pc[r] = "new_workspace.owner" => id[r].user # None /\ creator[r] = id[r].user
  /\ pc[r] \in Managing =>
       /\ args[r].workspace \in Workspaces /\ args[r].user \in Users
       /\ args[r].role \in Roles \cup {None} /\ OwnerIn(args[r].workspace)
  /\ pc[r] = "add.find" => args[r].role # None
  /\ pc[r] \in {"add.count", "add.write"} => args[r].role \in Roles \ {"owner"}
  /\ pc[r] = "target.write" =>
       args[r].role # "owner" /\ args[r].user # creator[args[r].workspace]

(* Request r is registering u, or has.                                     *)
Claims(r, u) ==
  \/ pc[r] \in Claiming /\ args[r].user = u
  \/ Registration(r) /\ keys[r].user = u

ClaimInv ==
  \A r \in Requests :
    /\ Registration(r) => creator[r] = keys[r].user
    /\ \A u \in Users : Claims(r, u) =>
         u \in users \ Registered /\ \A q \in Requests \ {r} : ~ Claims(q, u)

(* AccountsUsable, with the workspace that a user owns.                    *)
Settled(u) ==
  \/ \E w \in Workspaces : OwnerIn(w) /\ creator[w] = u
  \/ \E r \in Requests : pc[r] \in {"register.workspace", "register.owner"} /\ args[r].user = u
  \/ \E r \in Requests : Interrupted(r)

TenantInv ==
  /\ RowInv /\ ClaimInv /\ KeysStayInTenant
  /\ \A r \in Requests : Holds(r)
  /\ \A u \in users : Settled(u)

(* What a step of r leaves of the rows: nobody leaves, no workspace        *)
(* changes hands, and the row of an owner stays.                           *)
Grow(r) ==
  /\ RowTypes' /\ users \subseteq users' /\ joined \subseteq joined'
  /\ \A w \in Workspaces \ {r} : creator'[w] = creator[w]
  /\ creator[r] # None => creator'[r] = creator[r]
  /\ \A w \in Workspaces : OwnerIn(w) => OwnerIn(w)'
  /\ \A w \in Workspaces \ {r} : Unowned(w) => \A u \in Users : members'[w][u] = None
  /\ \A w \in Workspaces, u \in Users :
       /\ members'[w][u] # None => <<w, u>> \in joined'
       /\ <<w, u>> \in joined' => creator'[w] # None
       /\ members'[w][u] = "owner" => creator'[w] = u

Moved(r) ==
  /\ Frame(r) /\ DOMAIN reply' = Requests
  /\ \A q \in Requests \ {r} : reply'[q] = reply[q]

(* KeysStayInTenant of one key.                                            *)
InTenant(k) ==
  /\ keys[k].workspace = None <=> keys[k].user = None
  /\ keys[k].user # None => <<keys[k].workspace, keys[k].user>> \in joined

Founding == {"register.workspace", "register.owner"}

(* What has to be shown of r itself.                                       *)
Own(r) ==
  /\ Holds(r)'
  /\ creator'[r] # None => OwnerIn(r)' \/ Unowned(r)'
  /\ keys'[r] # None => InTenant(r)'
  /\ Registration(r)' => creator'[r] = keys'[r].user
  /\ \A u \in Users : Claims(r, u)' =>
       u \in users' \ Registered /\ (Claims(r, u) \/ u \notin users)
  /\ \A u \in users' :
       (u \notin users \/ (pc[r] \in Founding /\ args[r].user = u)) => Settled(u)'

(* A key other than r's own keeps what it opens and whose it is.           *)
LEMMA OthersKeys ==
  ASSUME KeyInv, NEW r \in Requests, KeyMove(r), NEW k \in Keys \ {r}
  PROVE  /\ keys'[k] = None <=> keys[k] = None
         /\ keys[k] # None => /\ keys'[k].user = keys[k].user
                              /\ keys'[k].workspace = keys[k].workspace
<1>1. CASE keys[k] = None
  BY <1>1 DEF KeyMove
<1>2. CASE keys[k] # None
  <2>1. /\ keys[k] \in APIKeyRecord /\ [keys[k] EXCEPT !.status = "revoked"] \in APIKeyRecord
        /\ [keys[k] EXCEPT !.status = "revoked"].user = keys[k].user
        /\ [keys[k] EXCEPT !.status = "revoked"].workspace = keys[k].workspace
    BY <1>2 DEF KeyInv, APIKeyRecord
  <2> QED
    BY <1>2, <2>1, RowAssumption DEF KeyMove
<1> QED
  BY <1>1, <1>2

(* What another request holds is true after a step of r.                   *)
LEMMA OthersHold ==
  ASSUME KeyInv, TenantInv, NEW r \in Requests, Moved(r), Grow(r), NEW q \in Requests \ {r}
  PROVE  Holds(q)'
<1>1. Holds(q) /\ q \in Workspaces /\ Local(q) /\ RowTypes
  BY DEF TenantInv, Workspaces, KeyInv, RowInv
<1>2. pc'[q] = pc[q] /\ id'[q] = id[q] /\ args'[q] = args[q] /\ reply'[q] = reply[q]
  BY DEF Moved, Frame
<1>3. creator'[q] = creator[q]
  BY <1>1 DEF Grow
<1>4. \A w \in Workspaces : OwnerIn(w) => OwnerIn(w)' /\ creator'[w] = creator[w]
  BY DEF Grow, OwnerIn
<1>5. joined \subseteq joined'
  BY DEF Grow
<1>6. pc[q] = "register.key" => OwnerIn(q)'
  BY <1>1, <1>4 DEF Holds
<1>7. pc[q] \in Managing => \E w \in Workspaces :
        w = args[q].workspace /\ w = args'[q].workspace /\ OwnerIn(w)' /\ creator'[w] = creator[w]
  BY <1>1, <1>2, <1>4 DEF Holds
<1>8. pc[q] \in Managing => OwnerIn(args[q].workspace)'
  BY <1>7 DEF OwnerIn
<1> QED
  BY <1>1, <1>2, <1>3, <1>5, <1>6, <1>7, <1>8 DEF Holds, Managing

(* A step of r keeps the invariant if it leaves the rows as it should and  *)
(* what it does to its own is right.                                       *)
LEMMA TenantStep ==
  ASSUME KeyInv, KeyInv', TenantInv, NEW r \in Requests, pc[r] # "done",
         KeyMove(r), Moved(r), Grow(r), Own(r)
  PROVE  TenantInv'
<1>1. r \in Workspaces /\ r \in Keys /\ Workspaces \subseteq Keys
  BY DEF Workspaces, Keys
<1>2. \A q \in Requests : Holds(q)'
  BY OthersHold DEF Own
<1>3. RowInv'
  <2>1. ASSUME NEW w \in Workspaces \ {r}, creator'[w] # None
        PROVE  OwnerIn(w)' \/ Unowned(w)'
    <3>1. creator[w] = creator'[w] /\ (OwnerIn(w) \/ Unowned(w))
      BY <2>1 DEF Grow, TenantInv, RowInv
    <3>2. CASE OwnerIn(w)
      BY <3>2 DEF Grow
    <3>3. CASE Unowned(w)
      BY <3>3, <2>1 DEF Grow, Unowned, Moved, Frame, Interrupted
    <3> QED
      BY <3>1, <3>2, <3>3
  <2> QED
    BY <1>1, <2>1 DEF RowInv, Grow, Own
<1>4. KeysStayInTenant'
  <2>1. ASSUME NEW k \in Keys \ {r}, keys'[k] # None PROVE InTenant(k)'
    BY <2>1, OthersKeys DEF TenantInv, KeysStayInTenant, InTenant, Grow
  <2> QED
    BY <2>1 DEF KeysStayInTenant, InTenant, Own
<1>5. ASSUME NEW q \in Requests \ {r}
      PROVE  /\ Registration(q)' <=> Registration(q)
             /\ Registration(q) => keys'[q].user = keys[q].user /\ creator'[q] = creator[q]
             /\ \A u \in Users : Claims(q, u)' <=> Claims(q, u)
  <2>1. q \in Keys \ {r} /\ q \in Workspaces \ {r}
    BY DEF Workspaces, Keys
  <2>2. Registration(q)' <=> Registration(q)
    BY <2>1, OthersKeys DEF Registration
  <2>3. Registration(q) => keys'[q].user = keys[q].user
    BY <2>1, OthersKeys DEF Registration
  <2> QED
    BY <2>1, <2>2, <2>3 DEF Claims, Grow, Moved, Frame
<1>6. ClaimInv'
  <2>1. ASSUME NEW q \in Requests PROVE (Registration(q) => creator[q] = keys[q].user)'
    BY <1>5 DEF Own, TenantInv, ClaimInv
  <2>2. ASSUME NEW q \in Requests, NEW u \in Users, Claims(q, u)'
        PROVE  u \in users' \ Registered
    BY <1>5, <2>2 DEF Own, TenantInv, ClaimInv, Grow
  <2>3. ASSUME NEW q \in Requests, NEW p \in Requests \ {q}, NEW u \in Users,
               Claims(q, u)', Claims(p, u)'
        PROVE  FALSE
    BY <1>5, <2>3 DEF Own, TenantInv, ClaimInv
  <2> QED
    BY <2>1, <2>2, <2>3 DEF ClaimInv
<1>7. ASSUME NEW u \in users' PROVE Settled(u)'
  <2>1. CASE u \notin users \/ (pc[r] \in Founding /\ args[r].user = u)
    BY <2>1 DEF Own
  <2>2. CASE u \in users /\ ~(pc[r] \in Founding /\ args[r].user = u)
    <3>1. Settled(u)
      BY <2>2 DEF TenantInv
    <3>2. ASSUME NEW w \in Workspaces, OwnerIn(w), creator[w] = u
          PROVE  OwnerIn(w)' /\ creator'[w] = u
      BY <3>2 DEF Grow, OwnerIn
    <3>3. ASSUME NEW q \in Requests, pc[q] \in Founding, args[q].user = u
          PROVE  pc'[q] \in Founding /\ args'[q].user = u
      BY <2>2, <3>3 DEF Moved, Frame
    <3>4. ASSUME NEW q \in Requests, Interrupted(q) PROVE Interrupted(q)'
      BY <3>4 DEF Moved, Frame, Interrupted
    <3> QED
      BY <3>1, <3>2, <3>3, <3>4 DEF Settled, Founding
  <2> QED
    BY <2>1, <2>2
<1> QED
  BY <1>2, <1>3, <1>4, <1>6, <1>7 DEF TenantInv

(* The rows are the same but for the keys.                                 *)
SameRows == UNCHANGED <<users, creator, members, joined>>

LEMMA RowsSame ==
  ASSUME TenantInv, NEW r \in Requests, SameRows, DOMAIN reply' = Requests
  PROVE  Grow(r)
BY DEF TenantInv, RowInv, RowTypes, SameRows, Grow, OwnerIn, Unowned

(* A step of a request that neither founds anything nor has founded        *)
(* anything yet.                                                           *)
LEMMA QuietStep ==
  ASSUME KeyInv, KeyInv', TenantInv, NEW r \in Requests, KeyMove(r), Moved(r), SameRows,
         pc[r] \notin OwnerSteps \cup Claiming \cup {"done"}, Holds(r)',
         pc'[r] \notin Claiming,
         keys'[r] # None => InTenant(r)' /\ keys'[r].workspace # r
  PROVE  TenantInv'
<1>1. Grow(r)
  BY RowsSame DEF Moved
<1>2. creator'[r] = None
  BY DEF TenantInv, Holds, SameRows, Claiming
<1>3. ~Registration(r)' /\ \A u \in Users : ~Claims(r, u)'
  BY DEF Registration, Claims
<1>4. Own(r)
  BY <1>2, <1>3 DEF Own, SameRows, Founding, OwnerSteps, Claiming
<1> QED
  BY <1>1, <1>4, TenantStep

-----------------------------------------------------------------------------
(* The steps that write no more than keys.                                 *)

Early == OwnerSteps \cup Claiming \cup {"done"}

LEMMA AnswerHolds ==
  ASSUME KeyInv, TenantInv, NEW r \in Requests, NEW code, Respond(r, code)
  PROVE  Holds(r)' /\ Moved(r) /\ pc'[r] = "done"
<1>1. pc'[r] = "done" /\ id'[r] = NoIdentity /\ Moved(r)
  BY Moves DEF KeyInv, Shapes, Respond, Moved, TenantInv, RowInv, RowTypes
<1> QED
  BY <1>1 DEF Holds, NoIdentity, OwnerSteps, Managing

LEMMA QuietAnswer ==
  ASSUME KeyInv, KeyInv', TenantInv, NEW r \in Requests, KeyMove(r), SameRows,
         NEW code, Respond(r, code), pc[r] \notin Early,
         keys'[r] # None => InTenant(r)' /\ keys'[r].workspace # r
  PROVE  TenantInv'
<1>1. Holds(r)' /\ Moved(r) /\ pc'[r] = "done"
  BY AnswerHolds
<1> QED
  BY <1>1, QuietStep DEF Early, Claiming

LEMMA GotoMoves ==
  ASSUME KeyInv, TenantInv, NEW r \in Requests, NEW step, NEW a, Goto(r, step, a)
  PROVE  /\ Moved(r) /\ pc'[r] = step /\ args'[r] = a
         /\ id'[r] = id[r] /\ reply'[r] = reply[r]
BY Moves DEF KeyInv, Shapes, Goto, Moved, TenantInv, RowInv, RowTypes

(* What a request about the members of a workspace holds.                  *)
Manages(step, a) ==
  /\ a.workspace \in Workspaces /\ a.user \in Users
  /\ a.role \in Roles \cup {None} /\ OwnerIn(a.workspace)
  /\ step = "add.find" => a.role # None
  /\ step \in {"add.count", "add.write"} => a.role \in Roles \ {"owner"}
  /\ step = "target.write" => a.role # "owner" /\ a.user # creator[a.workspace]

LEMMA QuietGoto ==
  ASSUME KeyInv, KeyInv', TenantInv, NEW r \in Requests, Same,
         NEW step, NEW a, Goto(r, step, a), pc[r] \notin Early, step \notin Early,
         step = "login.key" => <<a.workspace, a.user>> \in joined,
         step \in Managing => Manages(step, a)
  PROVE  TenantInv'
<1>1. Moved(r) /\ pc'[r] = step /\ args'[r] = a /\ id'[r] = id[r] /\ reply'[r] = reply[r]
  BY GotoMoves
<1>2. SameRows /\ keys' = keys /\ KeyMove(r)
  BY SameKeys DEF Same, rows, SameRows
<1>3. keys'[r] = None
  BY <1>2 DEF KeyInv, Local, Early
<1>4. Holds(r) /\ creator[r] = None
  BY DEF TenantInv, Holds, Early, Claiming
<1>5. step \in Managing => \E w \in Workspaces : w = a.workspace /\ OwnerIn(w)'
  BY <1>2 DEF Manages, OwnerIn, SameRows
<1>6. step \in Managing => OwnerIn(args[r].workspace)'
  BY <1>1, <1>5 DEF OwnerIn
<1>7. Holds(r)'
  BY <1>1, <1>2, <1>4, <1>6 DEF Holds, Manages, SameRows, Managing, Early, Claiming, OwnerSteps
<1> QED
  BY <1>1, <1>2, <1>3, <1>7, QuietStep DEF Early

(* A request is let in with the user and the workspace of a key.           *)
LEMMA TenantLetIn ==
  ASSUME KeyInv, KeyInv', TenantInv, NEW r \in Requests, RequireApiKey(r) \/ RequireAdminKey(r)
  PROVE  TenantInv'
<1>1. SameRows /\ keys' = keys /\ KeyMove(r) /\ pc[r] = "idle" /\ pc[r] \notin Early
  BY SameKeys DEF RequireApiKey, RequireAdminKey, Same, rows, SameRows, At, Early, OwnerSteps,
     Claiming
<1>2. keys'[r] = None
  BY <1>1 DEF KeyInv, Local
<1>3. ASSUME NEW code, Respond(r, code) PROVE TenantInv'
  BY <1>1, <1>2, <1>3, QuietAnswer
<1>4. ASSUME NEW k \in Keys, NEW op \in UserOps \cup AdminOps, Validate(k),
             pc' = [pc EXCEPT ![r] = op], UNCHANGED <<args, reply>>,
             \/ id' = [id EXCEPT ![r] = [key |-> k, user |-> keys[k].user,
                                        workspace |-> keys[k].workspace]]
             \/ id' = [id EXCEPT ![r] = [NoIdentity EXCEPT !.key = k]]
      PROVE  TenantInv'
  <2>1. pc'[r] = op /\ Moved(r) /\ reply'[r] = reply[r]
    BY <1>4 DEF KeyInv, Shapes, Frame, Moved, TenantInv, RowInv, RowTypes
  <2>2. keys[k] \in APIKeyRecord /\ InTenant(k)
    BY <1>4 DEF KeyInv, Validate, TenantInv, KeysStayInTenant, InTenant
  <2>3. id'[r].user # None =>
          id'[r].workspace \in Workspaces /\ <<id'[r].workspace, id'[r].user>> \in joined
    BY <1>4, <2>2 DEF KeyInv, Shapes, NoIdentity, APIKeyRecord, InTenant
  <2>4. op \notin Early \cup Managing \cup {"login.key"}
    BY DEF UserOps, AdminOps, Early, OwnerSteps, Claiming, Managing
  <2>5. Holds(r) /\ creator[r] = None
    BY <1>1 DEF TenantInv, Holds, OwnerSteps
  <2>6. Holds(r)'
    BY <1>1, <2>1, <2>3, <2>4, <2>5 DEF Holds, SameRows, Early, Claiming, OwnerSteps, Managing
  <2> QED
    BY <1>1, <1>2, <2>1, <2>4, <2>6, QuietStep DEF Early
<1>5. CASE RequireApiKey(r)
  BY <1>3, <1>4, <1>5 DEF RequireApiKey, Raise
<1>6. CASE RequireAdminKey(r)
  BY <1>3, <1>4, <1>6 DEF RequireAdminKey, Raise
<1> QED
  BY <1>5, <1>6

(* The steps that only read.                                               *)
LEMMA TenantReads ==
  ASSUME KeyInv, KeyInv', TenantInv, NEW r \in Requests,
         \/ FindForUser(r) \/ AdminFindKey(r) \/ RegisterCheck(r) \/ LoginUser(r)
         \/ LoginWorkspaces(r) \/ AssignSubscription(r)
  PROVE  TenantInv'
<1>1. Same /\ pc[r] \notin Early
  BY DEF FindForUser, AdminFindKey, RegisterCheck, LoginUser, LoginWorkspaces,
     AssignSubscription, At, Early, OwnerSteps, Claiming
<1>2. SameRows /\ KeyMove(r) /\ keys'[r] = None
  BY <1>1, SameKeys DEF Same, rows, SameRows, KeyInv, Local, Early
<1>3. ASSUME NEW code, Respond(r, code) PROVE TenantInv'
  BY <1>1, <1>2, <1>3, QuietAnswer
<1>4. ASSUME NEW a, NEW step \in {"revoke.write", "admin_revoke.write", "register.user",
                                  "login.workspaces", "subscribe.write"}, Goto(r, step, a)
      PROVE  TenantInv'
  BY <1>1, <1>4, QuietGoto DEF Early, OwnerSteps, Claiming, Managing
<1>5. CASE FindForUser(r) \/ AdminFindKey(r)
  BY <1>3, <1>4, <1>5 DEF FindForUser, AdminFindKey, Raise
<1>6. CASE RegisterCheck(r) \/ LoginUser(r) \/ AssignSubscription(r)
  BY <1>3, <1>4, <1>6 DEF RegisterCheck, LoginUser, AssignSubscription, Raise
<1>7. CASE LoginWorkspaces(r)
  <2>1. args[r].user \in Users
    BY <1>7 DEF LoginWorkspaces, At, KeyInv, Local, Naming
  <2>2. ASSUME NEW w \in WorkspacesOf(args[r].user),
               Goto(r, "login.key", [user |-> args[r].user, workspace |-> w])
        PROVE  TenantInv'
    <3>1. <<w, args[r].user>> \in joined
      BY <2>1 DEF WorkspacesOf, Member, TenantInv, RowInv
    <3> QED
      BY <1>1, <2>2, <3>1, QuietGoto DEF Early, OwnerSteps, Claiming, Managing
  <2> QED
    BY <1>3, <1>7, <2>2 DEF LoginWorkspaces
<1> QED
  BY <1>5, <1>6, <1>7

(* A member of a workspace cannot be there before its owner: the row of    *)
(* any member implies the row of the owner.                                *)
LEMMA OwnerFirst ==
  ASSUME TenantInv, NEW w \in Workspaces, NEW u \in Users, members[w][u] # None
  PROVE  OwnerIn(w)
BY DEF TenantInv, RowInv, Unowned

(* The steps about members up to the write.                                *)
LEMMA TenantChecks ==
  ASSUME KeyInv, KeyInv', TenantInv, NEW r \in Requests,
         \/ AddMemberRequest(r) \/ ChangeRoleRequest(r) \/ RemoveMemberRequest(r)
         \/ FindTargetUser(r) \/ CountMembers(r) \/ CheckTarget(r)
  PROVE  TenantInv'
<1>1. Same /\ pc[r] \notin Early
  BY DEF AddMemberRequest, ChangeRoleRequest, RemoveMemberRequest, FindTargetUser, CountMembers,
     CheckTarget, RequireMemberRole, At, Early, OwnerSteps, Claiming
<1>2. SameRows /\ KeyMove(r) /\ keys'[r] = None
  BY <1>1, SameKeys DEF Same, rows, SameRows, KeyInv, Local, Early
<1>3. ASSUME NEW code, Respond(r, code) PROVE TenantInv'
  BY <1>1, <1>2, <1>3, QuietAnswer
<1>4. ASSUME NEW a, NEW step \in Managing, Goto(r, step, a), Manages(step, a) PROVE TenantInv'
  BY <1>1, <1>4, QuietGoto DEF Early, OwnerSteps, Claiming, Managing
<1>5. ASSUME NEW w \in Workspaces, NEW u \in Users, NEW role \in Roles \cup {None},
             NEW op \in {"add", "change", "remove"}, op = "add" => role # None,
             RequireMemberRole(r, op, [workspace |-> w, user |-> u, role |-> role])
      PROVE  TenantInv'
  <2> DEFINE a == [workspace |-> w, user |-> u, role |-> role]
  <2>1. CASE members[w][id[r].user] \in Managers /\ UserBound(r)
    <3>1. id[r].user \in Users
      BY <2>1 DEF UserBound, KeyInv, Local, Identity
    <3>2. OwnerIn(w)
      BY <2>1, <3>1, OwnerFirst, NamesAssumption DEF Managers, Roles
    <3>3. Manages("target", a) /\ (op = "add" => Manages("add.find", a))
      BY <1>5, <3>2 DEF Manages
    <3>4. Goto(r, IF op = "add" THEN "add.find" ELSE "target", a)
      BY <1>5, <2>1 DEF RequireMemberRole
    <3> QED
      BY <3>3, <3>4, <1>4 DEF Managing
  <2>2. CASE ~(members[w][id[r].user] \in Managers /\ UserBound(r))
    BY <1>3, <1>5, <2>2 DEF RequireMemberRole, Raise
  <2> QED
    BY <2>1, <2>2
<1>6. CASE AddMemberRequest(r) \/ ChangeRoleRequest(r) \/ RemoveMemberRequest(r)
  BY <1>5, <1>6, InputAssumption, NamesAssumption
     DEF AddMemberRequest, ChangeRoleRequest, RemoveMemberRequest
<1>7. ASSUME pc[r] \in Managing PROVE Manages(pc[r], args[r])
  BY <1>7 DEF TenantInv, Holds, Manages
<1>8. CASE FindTargetUser(r) \/ CountMembers(r)
  <2>1. pc[r] \in Managing /\ Manages(pc[r], args[r])
    BY <1>7, <1>8 DEF FindTargetUser, CountMembers, At, Managing
  <2>2. CASE FindTargetUser(r)
    BY <1>3, <1>4, <2>1, <2>2 DEF FindTargetUser, At, Raise, Manages, Managing
  <2>3. CASE CountMembers(r)
    BY <1>3, <1>4, <2>1, <2>3 DEF CountMembers, At, Raise, Manages, Managing
  <2> QED
    BY <1>8, <2>2, <2>3
<1>9. CASE CheckTarget(r)
  <2>1. pc[r] \in Managing /\ Manages(pc[r], args[r])
    BY <1>7, <1>9 DEF CheckTarget, At, Managing
  <2>2. members[args[r].workspace][args[r].user] # "owner" =>
          args[r].user # creator[args[r].workspace]
    BY <2>1 DEF Manages, OwnerIn
  <2> QED
    BY <1>3, <1>4, <1>9, <2>1, <2>2 DEF CheckTarget, At, Raise, Manages, Managing
<1> QED
  BY <1>6, <1>8, <1>9

(* The steps that write a key, but for the one of a registration.          *)
LEMMA TenantKeys ==
  ASSUME KeyInv, KeyInv', TenantInv, NEW r \in Requests,
         \/ Logout(r) \/ CreateUserApiKey(r) \/ RevokeForUser(r)
         \/ AdminCreateKey(r) \/ AdminRevokeKey(r) \/ LoginKey(r)
  PROVE  TenantInv'
<1>1. SameRows /\ KeyMove(r) /\ pc[r] \notin Early /\ \E code : Respond(r, code)
  BY KeySteps DEF Logout, CreateUserApiKey, RevokeForUser, AdminCreateKey, AdminRevokeKey,
     LoginKey, At, SameRows, Early, OwnerSteps, Claiming
<1>2. Local(r) /\ Holds(r) /\ keys[r] = None /\ r \in Keys /\ creator[r] = None /\ r # None
  BY <1>1, NamesAssumption
     DEF KeyInv, TenantInv, Local, Holds, Early, Claiming, Keys, Workspaces
<1>3. DOMAIN keys = Keys
  BY DEF KeyInv
<1>4. ASSUME NEW u \in Users, NEW w \in Workspaces, CreateKey(r, u, w), <<w, u>> \in joined
      PROVE  TenantInv'
  <2>1. w # r
    BY <1>2, <1>4 DEF TenantInv, RowInv
  <2>2. keys'[r] = NewKey(u, w)
    BY <1>2, <1>3, <1>4 DEF CreateKey
  <2>3. InTenant(r)' /\ keys'[r].workspace # r
    BY <1>1, <1>4, <2>1, <2>2, NamesAssumption DEF InTenant, NewKey, SameRows
  <2> QED
    BY <1>1, <2>3, QuietAnswer
<1>5. CASE keys'[r] = None
  BY <1>1, <1>5, QuietAnswer
<1>6. CASE Logout(r) \/ RevokeForUser(r) \/ AdminRevokeKey(r)
  <2>1. ASSUME NEW k, Exists(k), UpdateStatus(k, "revoked") PROVE keys'[r] = None
    BY <1>2, <1>3, <2>1 DEF Exists, UpdateStatus
  <2>2. keys'[r] = None
    BY <1>2, <1>6, <2>1 DEF Logout, RevokeForUser, AdminRevokeKey, At, Local, UserBound
  <2> QED
    BY <1>5, <2>2
<1>7. CASE CreateUserApiKey(r)
  <2>1. CASE keys' = keys
    BY <1>2, <1>5, <2>1
  <2>2. CASE UserBound(r) /\ CreateKey(r, id[r].user, id[r].workspace)
    BY <1>2, <1>4, <2>2 DEF UserBound, Local, Identity, Holds
  <2> QED
    BY <1>7, <2>1, <2>2 DEF CreateUserApiKey
<1>8. CASE AdminCreateKey(r)
  <2>1. keys'[r] = NewKey(None, None)
    BY <1>2, <1>3, <1>8 DEF AdminCreateKey, CreateKey
  <2>2. InTenant(r)' /\ keys'[r].workspace # r
    BY <1>2, <2>1 DEF InTenant, NewKey
  <2> QED
    BY <1>1, <2>2, QuietAnswer
<1>9. CASE LoginKey(r)
  BY <1>2, <1>4, <1>9 DEF LoginKey, At, Local, Naming, Holds
<1> QED
  BY <1>6, <1>7, <1>8, <1>9

-----------------------------------------------------------------------------
(* The steps that write the rows of members.                               *)

LEMMA MemberRow ==
  ASSUME RowTypes, NEW w \in Workspaces, NEW u \in Users, NEW role \in Roles \cup {None},
         members' = [members EXCEPT ![w][u] = role]
  PROVE  /\ members' \in [Workspaces -> [Users -> Roles \cup {None}]]
         /\ \A x \in Workspaces, y \in Users :
              members'[x][y] = IF x = w /\ y = u THEN role ELSE members[x][y]
BY DEF RowTypes

(* The row of a member who is not the owner is written or deleted.         *)
LEMMA OrdinaryMember ==
  ASSUME TenantInv, NEW r \in Requests, DOMAIN reply' = Requests,
         UNCHANGED <<users, creator>>, NEW w \in Workspaces, NEW u \in Users, OwnerIn(w),
         u # creator[w], NEW role \in (Roles \cup {None}) \ {"owner"},
         members' = [members EXCEPT ![w][u] = role],
         joined \subseteq joined', joined' \subseteq joined \cup {<<w, u>>},
         role # None => <<w, u>> \in joined'
  PROVE  Grow(r)
<1>1. RowTypes /\ RowInv
  BY DEF TenantInv, RowInv
<1>2. /\ members' \in [Workspaces -> [Users -> Roles \cup {None}]]
      /\ \A x \in Workspaces, y \in Users :
           members'[x][y] = IF x = w /\ y = u THEN role ELSE members[x][y]
  BY <1>1, MemberRow
<1>3. RowTypes'
  BY <1>1, <1>2 DEF RowTypes
<1>4. ASSUME NEW x \in Workspaces, OwnerIn(x) PROVE OwnerIn(x)'
  <2>1. creator[x] \in Users
    BY <1>1, <1>4 DEF RowTypes, OwnerIn
  <2> QED
    BY <1>2, <1>4, <2>1 DEF OwnerIn
<1>5. ~Unowned(w)
  <2>1. creator[w] \in Users
    BY <1>1 DEF RowTypes, OwnerIn
  <2> QED
    BY <2>1, NamesAssumption DEF Unowned, OwnerIn, Roles
<1>6. \A x \in Workspaces : Unowned(x) => \A y \in Users : members'[x][y] = None
  BY <1>2, <1>5 DEF Unowned
<1>7. ASSUME NEW x \in Workspaces, NEW y \in Users
      PROVE  /\ members'[x][y] # None => <<x, y>> \in joined'
             /\ <<x, y>> \in joined' => creator'[x] # None
             /\ members'[x][y] = "owner" => creator'[x] = y
  BY <1>1, <1>2 DEF RowInv, OwnerIn
<1> QED
  BY <1>3, <1>4, <1>6, <1>7 DEF Grow

LEMMA MemberAnswer ==
  ASSUME KeyInv, KeyInv', TenantInv, NEW r \in Requests, pc[r] \notin Early,
         NEW code, Respond(r, code), UNCHANGED <<users, creator, keys>>, Grow(r)
  PROVE  TenantInv'
<1>1. Holds(r)' /\ Moved(r) /\ pc'[r] = "done" /\ KeyMove(r)
  BY AnswerHolds, SameKeys
<1>2. keys'[r] = None /\ creator'[r] = None
  BY DEF KeyInv, Local, TenantInv, Holds, Early, Claiming
<1>3. \A u \in Users : ~Claims(r, u)'
  BY <1>1, <1>2 DEF Claims, Registration, Claiming
<1>4. Own(r)
  BY <1>1, <1>2, <1>3 DEF Own, Registration, Founding, Early, OwnerSteps, Claiming
<1> QED
  BY <1>1, <1>4, TenantStep DEF Early

LEMMA TenantMembers ==
  ASSUME KeyInv, KeyInv', TenantInv, NEW r \in Requests,
         AddMember(r) \/ UpdateMemberRole(r) \/ RemoveMember(r)
  PROVE  TenantInv'
<1>1. /\ pc[r] \notin Early /\ UNCHANGED <<users, creator, keys>>
      /\ \E code : Respond(r, code)
  BY DEF AddMember, UpdateMemberRole, RemoveMember, At, Early, OwnerSteps, Claiming, Raise
<1>2. pc[r] \in {"add.write", "target.write"} /\ Manages(pc[r], args[r])
  BY DEF AddMember, UpdateMemberRole, RemoveMember, At, TenantInv, Holds, Manages, Managing
<1>3. PICK w \in Workspaces, u \in Users, role \in Roles \cup {None} :
        w = args[r].workspace /\ u = args[r].user /\ role = args[r].role
  BY <1>2 DEF Manages
<1>4. OwnerIn(w) /\ role # "owner"
  BY <1>2, <1>3 DEF Manages
<1>5. DOMAIN reply' = Requests
  BY <1>1, AnswerHolds DEF Moved
<1>6. CASE UNCHANGED <<members, joined>>
  BY <1>1, <1>5, <1>6, RowsSame, MemberAnswer DEF SameRows
<1>7. CASE AddMember(r) /\ ~Member(w, u)
  <2>1. InsertMember(w, u, role)
    BY <1>3, <1>7 DEF AddMember
  <2>2. u # creator[w]
    BY <1>4, <1>7, NamesAssumption DEF Member, OwnerIn, Roles
  <2>3. Grow(r)
    BY <1>1, <1>4, <1>5, <2>1, <2>2, OrdinaryMember DEF InsertMember
  <2> QED
    BY <1>1, <2>3, MemberAnswer
<1>8. CASE (UpdateMemberRole(r) \/ RemoveMember(r)) /\ Member(w, u)
  <2>1. pc[r] = "target.write"
    BY <1>8 DEF UpdateMemberRole, RemoveMember, At
  <2>2. u # creator[w]
    BY <1>2, <1>3, <2>1 DEF Manages
  <2>3. CASE UpdateMemberRole(r)
    <3>1. InsertMember(w, u, role)
      BY <1>3, <1>8, <2>3 DEF UpdateMemberRole
    <3>2. Grow(r)
      BY <1>1, <1>4, <1>5, <2>2, <3>1, OrdinaryMember DEF InsertMember
    <3> QED
      BY <1>1, <3>2, MemberAnswer
  <2>4. CASE RemoveMember(r)
    <3>1. DeleteMember(w, u)
      BY <1>3, <1>8, <2>4 DEF RemoveMember
    <3>2. members' = [members EXCEPT ![w][u] = None] /\ joined' = joined
      BY <3>1 DEF DeleteMember
    <3>3. None \in (Roles \cup {None}) \ {"owner"}
      BY NamesAssumption DEF Roles
    <3>4. Grow(r)
      BY <1>1, <1>4, <1>5, <2>2, <3>2, <3>3, OrdinaryMember
    <3> QED
      BY <1>1, <3>4, MemberAnswer
  <2> QED
    BY <1>8, <2>3, <2>4
<1> QED
  BY <1>3, <1>6, <1>7, <1>8 DEF AddMember, UpdateMemberRole, RemoveMember

(* The first member of a workspace is its owner.                           *)
LEMMA FirstMember ==
  ASSUME TenantInv, NEW r \in Requests, DOMAIN reply' = Requests, UNCHANGED <<users, creator>>,
         NEW u \in Users, creator[r] = u, InsertMember(r, u, "owner")
  PROVE  Grow(r) /\ OwnerIn(r)' /\ <<r, u>> \in joined'
<1>1. RowTypes /\ RowInv /\ r \in Workspaces
  BY DEF TenantInv, RowInv, Workspaces
<1>2. /\ members' \in [Workspaces -> [Users -> Roles \cup {None}]]
      /\ \A x \in Workspaces, y \in Users :
           members'[x][y] = IF x = r /\ y = u THEN "owner" ELSE members[x][y]
  BY <1>1, MemberRow DEF InsertMember, Roles
<1>3. RowTypes'
  BY <1>1, <1>2 DEF RowTypes
<1>4. creator[r] # None /\ OwnerIn(r)' /\ <<r, u>> \in joined'
  BY <1>1, <1>2, NamesAssumption DEF OwnerIn, InsertMember
<1>5. ASSUME NEW x \in Workspaces, OwnerIn(x) PROVE OwnerIn(x)'
  <2>1. creator[x] \in Users
    BY <1>1, <1>5 DEF RowTypes, OwnerIn
  <2> QED
    BY <1>2, <1>5, <2>1 DEF OwnerIn
<1>6. \A x \in Workspaces \ {r} : Unowned(x) => \A y \in Users : members'[x][y] = None
  BY <1>2 DEF Unowned
<1>7. ASSUME NEW x \in Workspaces, NEW y \in Users
      PROVE  /\ members'[x][y] # None => <<x, y>> \in joined'
             /\ <<x, y>> \in joined' => creator'[x] # None
             /\ members'[x][y] = "owner" => creator'[x] = y
  BY <1>1, <1>2, <1>4 DEF RowInv, InsertMember
<1> QED
  BY <1>3, <1>4, <1>5, <1>6, <1>7 DEF Grow, InsertMember

-----------------------------------------------------------------------------
(* The steps of a registration and of a new workspace.                     *)

(* A workspace that is not there yet has no members.                       *)
LEMMA NewWorkspace ==
  ASSUME TenantInv, NEW r \in Requests, DOMAIN reply' = Requests,
         UNCHANGED <<users, members, joined>>, creator[r] = None,
         NEW u \in Users, InsertWorkspace(r, u)
  PROVE  Grow(r) /\ creator'[r] = u /\ \A x \in Users : members'[r][x] = None
<1>1. RowTypes /\ RowInv /\ r \in Workspaces
  BY DEF TenantInv, RowInv, Workspaces
<1>2. /\ creator' \in [Workspaces -> Users \cup {None}] /\ creator'[r] = u
      /\ \A w \in Workspaces \ {r} : creator'[w] = creator[w]
  BY <1>1 DEF RowTypes, InsertWorkspace
<1>3. \A x \in Users : members[r][x] = None /\ <<r, x>> \notin joined
  BY <1>1 DEF RowInv
<1>4. RowTypes'
  BY <1>1, <1>2 DEF RowTypes
<1>5. ASSUME NEW x \in Workspaces, OwnerIn(x) PROVE OwnerIn(x)'
  BY <1>2, <1>5 DEF OwnerIn
<1>6. ASSUME NEW x \in Workspaces, NEW y \in Users
      PROVE  /\ members'[x][y] # None => <<x, y>> \in joined'
             /\ <<x, y>> \in joined' => creator'[x] # None
             /\ members'[x][y] = "owner" => creator'[x] = y
  BY <1>1, <1>2, <1>3, NamesAssumption DEF RowInv, Roles
<1> QED
  BY <1>2, <1>3, <1>4, <1>5, <1>6 DEF Grow, Unowned

(* The account: the email was not taken, so nobody else registers it.      *)
LEMMA TenantInsertUser ==
  ASSUME KeyInv, KeyInv', TenantInv, NEW r \in Requests, InsertUser(r)
  PROVE  TenantInv'
<1>1. /\ pc[r] = "register.user" /\ pc[r] \notin Early
      /\ UNCHANGED <<creator, members, keys, joined>>
  BY DEF InsertUser, At, Early, OwnerSteps, Claiming
<1>2. Local(r) /\ Holds(r) /\ keys'[r] = None /\ creator[r] = None /\ KeyMove(r)
  BY <1>1, SameKeys DEF KeyInv, TenantInv, Local, Holds, OwnerSteps
<1>3. PICK u \in Users : u = args[r].user
  BY <1>1, <1>2 DEF Local, Naming
<1>4. CASE u \in users
  <2>1. SameRows /\ \E code : Respond(r, code)
    BY <1>1, <1>3, <1>4 DEF InsertUser, SameRows, Raise
  <2> QED
    BY <1>1, <1>2, <2>1, QuietAnswer
<1>5. CASE u \notin users
  <2>1. users' = users \cup {u} /\ Goto(r, "register.workspace", args[r])
    BY <1>3, <1>5 DEF InsertUser
  <2>2. /\ Moved(r) /\ pc'[r] = "register.workspace" /\ args'[r] = args[r]
        /\ id'[r] = id[r] /\ reply'[r] = reply[r]
    BY <2>1, GotoMoves
  <2>3. Grow(r)
    BY <1>1, <2>1, <2>2 DEF TenantInv, RowInv, RowTypes, Grow, OwnerIn, Unowned, Moved
  <2>4. Holds(r)'
    BY <1>1, <1>2, <2>2 DEF Holds, OwnerSteps, Managing
  <2>5. \A x \in Users : Claims(r, x)' => x = u
    BY <1>2, <1>3, <2>2 DEF Claims, Registration
  <2>6. u \notin Registered
    BY <1>5 DEF TenantInv, RowInv, RowTypes
  <2>7. Settled(u)'
    BY <1>3, <2>2 DEF Settled
  <2>8. Own(r)
    BY <1>1, <1>2, <1>5, <2>1, <2>4, <2>5, <2>6, <2>7 DEF Own, Registration, Founding
  <2> QED
    BY <1>1, <1>2, <2>2, <2>3, <2>8, TenantStep
<1> QED
  BY <1>4, <1>5

(* The workspace, of a registration or of a user who is let in.            *)
LEMMA TenantNewWorkspace ==
  ASSUME KeyInv, KeyInv', TenantInv, NEW r \in Requests, RegisterWorkspace(r) \/ CreateWorkspace(r)
  PROVE  TenantInv'
<1>1. /\ pc[r] \in {"register.workspace", "new_workspace"}
      /\ UNCHANGED <<users, members, keys, joined>>
  BY DEF RegisterWorkspace, CreateWorkspace, At
<1>2. Local(r) /\ Holds(r) /\ keys'[r] = None /\ creator[r] = None /\ KeyMove(r)
  BY <1>1, SameKeys DEF KeyInv, TenantInv, Local, Holds, OwnerSteps
<1>3. CASE CreateWorkspace(r) /\ ~UserBound(r)
  <2>1. SameRows /\ (\E code : Respond(r, code)) /\ pc[r] \notin Early
    BY <1>1, <1>3 DEF CreateWorkspace, SameRows, Raise, At, Early, OwnerSteps, Claiming
  <2> QED
    BY <1>2, <2>1, QuietAnswer
<1>4. ASSUME NEW u \in Users, NEW step \in OwnerSteps, InsertWorkspace(r, u),
             Goto(r, step, args[r]),
             \/ pc[r] = "register.workspace" /\ step = "register.owner" /\ u = args[r].user
             \/ pc[r] = "new_workspace" /\ step = "new_workspace.owner" /\ u = id[r].user
      PROVE  TenantInv'
  <2>1. /\ Moved(r) /\ pc'[r] = step /\ args'[r] = args[r]
        /\ id'[r] = id[r] /\ reply'[r] = reply[r]
    BY <1>4, GotoMoves
  <2>2. Grow(r) /\ creator'[r] = u /\ \A x \in Users : members'[r][x] = None
    BY <1>1, <1>2, <1>4, <2>1, NewWorkspace DEF Moved
  <2>3. Unowned(r)'
    BY <2>1, <2>2 DEF Unowned
  <2>4. Holds(r)'
    BY <1>1, <1>2, <1>4, <2>1, <2>2, NamesAssumption DEF Holds, OwnerSteps, Managing
  <2>5. \A x \in Users : Claims(r, x)' => Claims(r, x)
    BY <1>2, <1>4, <2>1 DEF Claims, Registration, Claiming
  <2>6. \A x \in Users : Claims(r, x)' => x \in users' \ Registered
    BY <1>1, <2>5 DEF TenantInv, ClaimInv
  <2>7. pc[r] = "register.workspace" => Settled(u)'
    BY <1>4, <2>1 DEF Settled
  <2>8. Own(r)
    BY <1>1, <1>2, <1>4, <2>3, <2>4, <2>5, <2>6, <2>7 DEF Own, Registration, Founding
  <2> QED
    BY <1>1, <1>2, <2>1, <2>2, <2>8, TenantStep
<1>5. CASE RegisterWorkspace(r)
  BY <1>2, <1>4, <1>5 DEF RegisterWorkspace, At, Local, Naming, OwnerSteps
<1>6. CASE CreateWorkspace(r) /\ UserBound(r)
  BY <1>2, <1>4, <1>6 DEF CreateWorkspace, At, Local, Identity, UserBound, OwnerSteps
<1> QED
  BY <1>3, <1>5, <1>6

(* The membership of the owner.                                            *)
LEMMA TenantOwner ==
  ASSUME KeyInv, KeyInv', TenantInv, NEW r \in Requests, RegisterOwner(r) \/ CreateWorkspaceOwner(r)
  PROVE  TenantInv'
<1>1. pc[r] \in OwnerSteps /\ UNCHANGED <<users, creator, keys>>
  BY DEF RegisterOwner, CreateWorkspaceOwner, At, OwnerSteps
<1>2. Local(r) /\ Holds(r) /\ keys'[r] = None /\ KeyMove(r)
  BY <1>1, SameKeys DEF KeyInv, TenantInv, Local, OwnerSteps
<1>3. CASE RegisterOwner(r)
  <2>1. PICK u \in Users : u = args[r].user /\ creator[r] = u
    BY <1>2, <1>3 DEF RegisterOwner, At, Local, Naming, Holds
  <2>2. /\ pc[r] = "register.owner" /\ InsertMember(r, u, "owner")
        /\ Goto(r, "register.key", args[r])
    BY <1>3, <2>1 DEF RegisterOwner, At
  <2>3. /\ Moved(r) /\ pc'[r] = "register.key" /\ args'[r] = args[r]
        /\ id'[r] = id[r] /\ reply'[r] = reply[r]
    BY <2>2, GotoMoves
  <2>4. Grow(r) /\ OwnerIn(r)' /\ <<r, u>> \in joined'
    BY <1>1, <2>1, <2>2, <2>3, FirstMember DEF Moved
  <2>5. Holds(r)'
    BY <1>1, <1>2, <2>1, <2>2, <2>3, <2>4 DEF Holds, OwnerSteps, Managing, Grow
  <2>6. \A x \in Users : Claims(r, x)' => Claims(r, x)
    BY <1>2, <2>2, <2>3 DEF Claims, Registration, Claiming
  <2>7. \A x \in Users : Claims(r, x)' => x \in users' \ Registered
    BY <1>1, <2>6 DEF TenantInv, ClaimInv
  <2>8. Settled(u)'
    BY <1>1, <2>1, <2>4 DEF Settled, Workspaces
  <2>9. Own(r)
    BY <1>1, <1>2, <2>1, <2>4, <2>5, <2>6, <2>7, <2>8 DEF Own, Registration
  <2> QED
    BY <1>2, <2>2, <2>3, <2>4, <2>9, TenantStep
<1>4. CASE CreateWorkspaceOwner(r)
  <2>1. PICK u \in Users : u = id[r].user /\ creator[r] = u
    BY <1>2, <1>4 DEF CreateWorkspaceOwner, At, Local, Identity, Holds
  <2>2. pc[r] = "new_workspace.owner" /\ InsertMember(r, u, "owner") /\ Respond(r, 201)
    BY <1>4, <2>1 DEF CreateWorkspaceOwner, At
  <2>3. Holds(r)' /\ Moved(r) /\ pc'[r] = "done"
    BY <2>2, AnswerHolds
  <2>4. Grow(r) /\ OwnerIn(r)'
    BY <1>1, <2>1, <2>2, <2>3, FirstMember DEF Moved
  <2>5. \A x \in Users : ~Claims(r, x)'
    BY <1>2, <2>3 DEF Claims, Registration, Claiming
  <2>6. Own(r)
    BY <1>1, <1>2, <2>2, <2>3, <2>4, <2>5 DEF Own, Registration, Founding
  <2> QED
    BY <1>2, <2>2, <2>3, <2>4, <2>6, TenantStep
<1> QED
  BY <1>3, <1>4

(* The key of a registration.                                              *)
LEMMA TenantRegisterKey ==
  ASSUME KeyInv, KeyInv', TenantInv, NEW r \in Requests, RegisterKey(r)
  PROVE  TenantInv'
<1>1. /\ pc[r] = "register.key" /\ CreateKey(r, args[r].user, r) /\ Respond(r, 201)
      /\ SameRows /\ KeyMove(r)
  BY KeySteps DEF RegisterKey, At, SameRows
<1>2. Local(r) /\ Holds(r) /\ keys[r] = None /\ r \in Keys /\ r \in Workspaces
  BY <1>1 DEF KeyInv, TenantInv, Local, Keys, Workspaces
<1>3. PICK u \in Users : u = args[r].user
  BY <1>1, <1>2 DEF Local, Naming
<1>4. creator[r] = u /\ <<r, u>> \in joined /\ OwnerIn(r)
  BY <1>1, <1>2, <1>3 DEF Holds
<1>5. Holds(r)' /\ Moved(r) /\ pc'[r] = "done"
  BY <1>1, AnswerHolds
<1>6. Grow(r)
  BY <1>1, <1>5, RowsSame DEF Moved
<1>7. keys'[r] = NewKey(u, r) /\ keys'[r].user = u /\ keys'[r].workspace = r
  BY <1>1, <1>2, <1>3 DEF KeyInv, CreateKey, NewKey
<1>8. InTenant(r)' /\ OwnerIn(r)'
  BY <1>1, <1>2, <1>4, <1>7, NamesAssumption DEF InTenant, SameRows, OwnerIn
<1>9. \A x \in Users : Claims(r, x)' => x = u
  BY <1>5, <1>7 DEF Claims, Claiming
<1>10. Claims(r, u)
  BY <1>1, <1>3 DEF Claims, Claiming
<1>11. u \in users' \ Registered
  BY <1>1, <1>10 DEF TenantInv, ClaimInv, SameRows
<1>12. Own(r)
  BY <1>1, <1>4, <1>5, <1>7, <1>8, <1>9, <1>10, <1>11 DEF Own, SameRows, Founding
<1> QED
  BY <1>1, <1>5, <1>6, <1>12, TenantStep

-----------------------------------------------------------------------------
(* A request that ends without an answer, and a start of the process.      *)

LEMMA TenantInterrupt ==
  ASSUME KeyInv, KeyInv', TenantInv, NEW r \in Requests, Interrupt(r)
  PROVE  TenantInv'
<1>1. SameRows /\ keys' = keys /\ pc[r] # "done" /\ KeyMove(r)
  BY SameKeys DEF Interrupt, Same, rows, SameRows
<1>2. Holds(r) /\ keys'[r] = None /\ reply[r] = None /\ r \in Workspaces
  BY <1>1 DEF KeyInv, Local, TenantInv, Holds, Workspaces
<1>3. pc'[r] = "done" /\ id'[r] = NoIdentity /\ reply' = reply /\ Moved(r)
  BY DEF Interrupt, KeyInv, Shapes, Moved, Frame, TenantInv, RowInv, RowTypes
<1>4. Interrupted(r)'
  BY <1>2, <1>3 DEF Interrupted
<1>5. Grow(r)
  BY <1>1, <1>3, RowsSame DEF Moved
<1>6. Holds(r)'
  BY <1>3 DEF Holds, NoIdentity, OwnerSteps, Managing
<1>7. creator'[r] # None => OwnerIn(r)' \/ Unowned(r)'
  BY <1>1, <1>2, <1>4 DEF TenantInv, RowInv, SameRows, OwnerIn, Unowned
<1>8. \A u \in Users : ~Claims(r, u)'
  BY <1>2, <1>3 DEF Claims, Registration, Claiming
<1>9. \A u : Settled(u)'
  BY <1>4 DEF Settled
<1>10. Own(r)
  BY <1>1, <1>2, <1>6, <1>7, <1>8, <1>9 DEF Own, Registration, SameRows
<1> QED
  BY <1>1, <1>3, <1>5, <1>10, TenantStep

LEMMA TenantBootstrap ==
  ASSUME KeyInv, KeyInv', TenantInv, BootstrapKeys
  PROVE  TenantInv'
<1>1. keys' = keys /\ SameRows /\ reply' = reply
  BY BootstrapStep DEF BootstrapKeys, SameRows
<1>2. ASSUME NEW r \in Requests
      PROVE  /\ pc[r] = "idle" => pc'[r] = "idle"
             /\ pc[r] # "idle" => pc'[r] = "done"
             /\ id'[r] = NoIdentity
  BY DEF BootstrapKeys
<1>3. ASSUME NEW r \in Requests PROVE Holds(r)'
  <2>1. Holds(r) /\ id'[r].user = None
    BY <1>2 DEF TenantInv, NoIdentity
  <2>2. CASE pc[r] = "idle"
    BY <1>1, <1>2, <2>1, <2>2 DEF Holds, SameRows, OwnerSteps, Managing
  <2>3. CASE pc[r] # "idle"
    BY <1>1, <1>2, <2>1, <2>3 DEF Holds, OwnerSteps, Managing
  <2> QED
    BY <2>2, <2>3
<1>4. ASSUME NEW r \in Requests, Interrupted(r) \/ pc[r] \in OwnerSteps \cup Founding
      PROVE  Interrupted(r)'
  <2>1. Holds(r)
    BY DEF TenantInv
  <2> QED
    BY <1>1, <1>2, <1>4, <2>1 DEF Holds, Interrupted, OwnerSteps, Founding
<1>5. RowInv'
  <2>1. ASSUME NEW w \in Workspaces, creator[w] # None PROVE OwnerIn(w)' \/ Unowned(w)'
    BY <1>1, <1>4, <2>1 DEF TenantInv, RowInv, SameRows, OwnerIn, Unowned
  <2> QED
    BY <1>1, <2>1 DEF TenantInv, RowInv, RowTypes, SameRows
<1>6. ClaimInv'
  <2>1. \A r \in Requests : Registration(r)' <=> Registration(r)
    BY <1>1 DEF Registration
  <2>2. \A r \in Requests, u \in Users : Claims(r, u)' => Claims(r, u)
    BY <1>1, <1>2, <2>1 DEF Claims, Claiming
  <2> QED
    BY <1>1, <2>1, <2>2 DEF TenantInv, ClaimInv, SameRows
<1>7. KeysStayInTenant'
  BY <1>1 DEF TenantInv, KeysStayInTenant, SameRows
<1>8. ASSUME NEW u \in users' PROVE Settled(u)'
  <2>1. Settled(u)
    BY <1>1 DEF TenantInv, SameRows
  <2> QED
    BY <1>1, <1>4, <2>1 DEF Settled, SameRows, OwnerIn, Founding
<1> QED
  BY <1>3, <1>5, <1>6, <1>7, <1>8 DEF TenantInv

LEMMA TenantInit == Init => TenantInv
<1> SUFFICES ASSUME Init PROVE TenantInv
  OBVIOUS
<1>1. RowTypes
  BY RegisteredAssumption DEF Init, RowTypes, Workspaces, Roles
<1>2. ASSUME NEW w \in Registered
      PROVE  w \in Workspaces /\ w \in Users /\ OwnerIn(w) /\ creator[w] = w
  BY RegisteredAssumption, NamesAssumption DEF Init, OwnerIn, Workspaces
<1>3. \A w \in Workspaces \ Registered :
        creator[w] = None /\ \A u \in Users : members[w][u] = None
  BY DEF Init
<1>4. \A w \in Workspaces, u \in Users : <<w, u>> \in joined <=> w \in Registered /\ u = w
  BY DEF Init
<1>5. \A w \in Workspaces, u \in Users :
        members[w][u] = IF w \in Registered /\ u = w THEN "owner" ELSE None
  BY DEF Init
<1>6. RowInv
  <2>1. ASSUME NEW w \in Workspaces, NEW u \in Users
        PROVE  /\ members[w][u] # None => <<w, u>> \in joined
               /\ <<w, u>> \in joined => creator[w] # None
               /\ members[w][u] = "owner" => creator[w] = u
    BY <1>2, <1>4, <1>5, NamesAssumption DEF Roles
  <2> QED
    BY <1>1, <1>2, <1>3, <2>1 DEF RowInv
<1>7. ASSUME NEW r \in Requests
      PROVE  /\ r \in Workspaces /\ creator[r] = None /\ keys[r] = None
             /\ pc[r] = "idle" /\ id[r] = NoIdentity /\ reply[r] = None
  BY NamesAssumption DEF Init, Workspaces, Keys
<1>8. ASSUME NEW r \in Requests PROVE Holds(r) /\ ~Registration(r) /\ \A u \in Users : ~Claims(r, u)
  BY <1>7 DEF Holds, NoIdentity, OwnerSteps, Managing, Registration, Claims, Claiming
<1>9. KeysStayInTenant
  <2>1. ASSUME NEW k \in Registered
        PROVE  /\ keys[k].user = k /\ keys[k].workspace = k
               /\ <<k, k>> \in joined /\ k # None
    <3>1. k \in Keys /\ keys[k] = [user |-> k, workspace |-> k, status |-> "active"]
      BY DEF Init, Keys, Workspaces
    <3> QED
      BY <3>1, NamesAssumption DEF Init, Workspaces
  <2>2. ASSUME NEW k \in Keys \ Registered, keys[k] # None
        PROVE  keys[k].user = None /\ keys[k].workspace = None
    <3>1. keys[k] = [user |-> None, workspace |-> None, status |-> "active"]
      BY <2>2 DEF Init
    <3> QED
      BY <3>1
  <2> QED
    BY <2>1, <2>2 DEF KeysStayInTenant
<1>10. \A u \in users : Settled(u)
  BY <1>2 DEF Init, Settled
<1> QED
  BY <1>6, <1>8, <1>9, <1>10 DEF TenantInv, ClaimInv

LEMMA TenantNext ==
  ASSUME KeyInv, KeyInv', TenantInv, [Next]_vars
  PROVE  TenantInv'
<1>1. ASSUME NEW r \in Requests, RequestStep(r) PROVE TenantInv'
  <2>1. CASE AssignPlan(r)
    <3>1. SameRows /\ keys' = keys /\ pc[r] \notin Early /\ (\E code : Respond(r, code))
      BY <2>1 DEF AssignPlan, CreateSubscription, UpdateSubscription, At, Raise, SameRows,
         Early, OwnerSteps, Claiming
    <3>2. KeyMove(r) /\ keys'[r] = None
      BY <3>1, SameKeys DEF KeyInv, Local, Early
    <3> QED
      BY <3>1, <3>2, QuietAnswer
  <2> QED
    BY <1>1, <2>1, TenantLetIn, TenantReads, TenantChecks, TenantKeys, TenantMembers,
       TenantInsertUser, TenantNewWorkspace, TenantOwner, TenantRegisterKey DEF RequestStep
<1>2. CASE UNCHANGED vars
  BY <1>2 DEF vars, rows, locals, TenantInv, RowInv, RowTypes, OwnerIn, Unowned, Interrupted,
     ClaimInv, Registration, Claims, KeysStayInTenant, Holds, Settled
<1> QED
  BY <1>1, <1>2, TenantInterrupt, TenantBootstrap DEF Next

(* The invariant of accounts, workspaces and members holds in every run.   *)
THEOREM TenantInvariant == Spec => [](KeyInv /\ TenantInv)
<1>1. KeyInv /\ TenantInv /\ [Next]_vars => KeyInv' /\ TenantInv'
  BY KeyNext, TenantNext
<1> QED
  BY <1>1, KeyInit, TenantInit, PTL DEF Spec

(* However registrations, new workspaces, changes of members, interrupted  *)
(* requests and starts interleave, a workspace keeps its creator as its    *)
(* only owner, and a user with an account has a workspace to log in to,    *)
(* unless the request that was making it was cut off.                      *)
THEOREM WorkspacesAreUsable == Spec => []WorkspacesUsable
<1>1. ASSUME KeyInv, TenantInv PROVE WorkspacesUsable
  <2>1. OwnerKept
    BY <1>1 DEF TenantInv, RowInv, OwnerKept, OwnerIn, Unowned, OwnerSteps
  <2>2. ASSUME NEW u \in users, NEW w \in Workspaces, OwnerIn(w), creator[w] = u
        PROVE  WorkspacesOf(u) # {}
    <3>1. "owner" # None
      BY NamesAssumption DEF Roles
    <3> QED
      BY <2>2, <3>1 DEF WorkspacesOf, Member, OwnerIn
  <2>3. AccountsUsable
    BY <1>1, <2>2 DEF TenantInv, Settled, AccountsUsable
  <2> QED
    BY <2>1, <2>3 DEF WorkspacesUsable
<1> QED
  BY <1>1, TenantInvariant, PTL

(* One email gets one account, whatever registrations race for it, and no  *)
(* key opens a workspace that its user has never been a member of.         *)
THEOREM TenantsStaySeparate == Spec => []TenantsSeparate
<1>1. ASSUME KeyInv, TenantInv PROVE TenantsSeparate
  <2>1. ASSUME NEW r \in Requests, Registration(r)
        PROVE  keys[r].user \in Users /\ Claims(r, keys[r].user) /\ creator[r] = keys[r].user
    <3>1. keys[r] \in APIKeyRecord /\ r \in Keys /\ r # None
      BY <1>1, <2>1, NamesAssumption DEF KeyInv, Keys, Workspaces, Registration
    <3>2. keys[r].user # None
      BY <1>1, <2>1, <3>1 DEF TenantInv, KeysStayInTenant, Registration
    <3> QED
      BY <1>1, <2>1, <3>1, <3>2 DEF TenantInv, ClaimInv, Claims, APIKeyRecord
  <2>2. OneAccountPerEmail
    BY <1>1, <2>1 DEF OneAccountPerEmail, TenantInv, ClaimInv
  <2> QED
    BY <1>1, <2>2 DEF TenantsSeparate, TenantInv
<1> QED
  BY <1>1, TenantInvariant, PTL
=============================================================================
