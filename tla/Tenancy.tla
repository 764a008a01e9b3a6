------------------------------ MODULE Tenancy ------------------------------
(***************************************************************************)
(* Accounts, workspaces, members, API keys and subscriptions: the requests *)
(* of the auth, workspaces, admin and billing endpoints over the rows they *)
(* share.                                                                  *)
(*                                                                         *)
(* No endpoint holds a transaction over two repository calls.  A request   *)
(* reads, decides and writes in separate transactions, and on PostgreSQL   *)
(* every other request, and the end of its own client, may come between    *)
(* two of them.  In memory nothing suspends, so a request is one step      *)
(* after another without any other in between.                             *)
(*                                                                         *)
(* A user is named by the email.  A workspace and a key are named by what  *)
(* created them: a request, or the account of a user that was registered   *)
(* before.  The resolved role of a request is left out: no code reads it.  *)
(***************************************************************************)
EXTENDS Integers, FiniteSets

CONSTANTS
  Users,        \* emails
  Registered,   \* users whose registration is over, with workspace and key
  Requests,     \* requests; each makes one call
  Roots,        \* keys of the settings, bootstrapped at every start
  AdminKeys,    \* the ones among Roots that admin_api_keys names
  Plans,        \* ids of plans
  Invitable,    \* roles that are asked for in the runs
  Assignable,   \* subscription statuses that are asked for in the runs
  MaxMembers,   \* the member limit of a plan, or None
  Prefix,       \* the first eight digits of the hash of a key
  None          \* no row, no field

Workspaces == Registered \cup Requests
Keys       == Workspaces \cup Roots
SubscriptionStatus == {"trial", "active", "cancelled", "expired"}
Roles      == {"owner", "admin", "member", "viewer"}

ASSUME RegisteredAssumption == Registered \subseteq Users
ASSUME AdminAssumption == AdminKeys \subseteq Roots
ASSUME InputAssumption ==
  Invitable \subseteq Roles /\ Assignable \subseteq SubscriptionStatus
ASSUME NamesAssumption ==
  /\ Registered \cap Requests = {} /\ Workspaces \cap Roots = {}
  /\ None \notin Users /\ None \notin Workspaces /\ None \notin Keys
  /\ None \notin Plans /\ None \notin Roles

VARIABLES
  backend,      \* auth_storage: "postgres" or "memory"
  users,        \* the rows of users: the emails that have one
  creator,      \* the rows of workspaces: who created it, or None
  members,      \* the rows of workspace_members: the role, or None
  keys,         \* the rows of api_keys, or None
  subs,         \* the rows of subscriptions, or None
  pc,           \* how far a request has come
  id,           \* the identity of a request: its key, user and workspace
  args,         \* what the request asks for, and what it has read
  reply,        \* "ok" or "error" when it was answered, or None
  joined        \* history: who has ever been a member of which workspace

rows   == <<users, creator, members, keys, subs, joined>>
locals == <<pc, id, args, reply>>
vars   == <<backend, rows, locals>>

-----------------------------------------------------------------------------
(* The status code that the exception handlers of the application give     *)
(* each error; what has no handler of its own is an unexpected error.      *)

StatusCode ==
  [AuthenticationError |-> 401, AuthorizationError |-> 403,
   ValidationError |-> 422, ConflictError |-> 409, RateLimitError |-> 429,
   QuotaExceededError |-> 429, QuotaReservationError |-> 503,
   ModelNotFoundError |-> 404, APIKeyNotFoundError |-> 404,
   ConversationNotFoundError |-> 404, MemoryNotFoundError |-> 404]

(* The handlers of the provider, knowledge base and document errors, and   *)
(* of everything else: an IntegrityError of the database has none.         *)
StatusCodeBelow ==
  [ProviderUnavailableError |-> 502, ProviderError |-> 502,
   RAGUnavailableError |-> 503, KnowledgeBaseEmptyError |-> 404,
   NoRelevantContextError |-> 404, RAGDocumentValidationError |-> 400,
   RAGDocumentTooLargeError |-> 413, RAGStorageUnavailableError |-> 503,
   UnexpectedError |-> 500]

Code(error) == IF error \in DOMAIN StatusCode THEN StatusCode[error]
                                              ELSE StatusCodeBelow[error]

-----------------------------------------------------------------------------
(* Rows.                                                                   *)

APIKeyRecord ==
  [user : Users \cup {None}, workspace : Workspaces \cup {None},
   status : {"active", "revoked"}]

ASSUME RowAssumption == None \notin APIKeyRecord

ActiveStatuses == {"trial", "active"}
Subscription ==
  [plan : Plans, status : SubscriptionStatus, expired_at : BOOLEAN]

NoIdentity == [key |-> None, user |-> None, workspace |-> None]

Member(w, u) == members[w][u] # None
Members(w) == {u \in Users : Member(w, u)}

(* list_workspaces_for_user: the join gives no order.                      *)
WorkspacesOf(u) == {w \in Workspaces : creator[w] # None /\ Member(w, u)}

Init ==
  /\ backend \in {"postgres", "memory"}
  /\ users = Registered
  /\ creator = [w \in Workspaces |-> IF w \in Registered THEN w ELSE None]
  /\ members = [w \in Workspaces |->
                  [u \in Users |-> IF w \in Registered /\ u = w THEN "owner" ELSE None]]
  /\ keys = [k \in Keys |->
               IF k \in Registered
               THEN [user |-> k, workspace |-> k, status |-> "active"]
               ELSE IF k \in Roots
               THEN [user |-> None, workspace |-> None, status |-> "active"]
               ELSE None]
  /\ joined = {<<u, u>> : u \in Registered}
  /\ subs = [w \in Workspaces |-> None]
  /\ pc = [r \in Requests |-> "idle"]
  /\ id = [r \in Requests |-> NoIdentity]
  /\ args = [r \in Requests |-> None]
  /\ reply = [r \in Requests |-> None]

-----------------------------------------------------------------------------
(* The frame of a request.                                                 *)

MayStep(r) ==
  backend = "postgres" \/ \A q \in Requests \ {r} : pc[q] \in {"idle", "done"}

At(r, step) == pc[r] = step /\ MayStep(r)

Goto(r, step, a) ==
  /\ pc' = [pc EXCEPT ![r] = step]
  /\ args' = [args EXCEPT ![r] = a]
  /\ UNCHANGED <<id, reply>>

(* The answer; what is kept of it is whether the call succeeded.           *)
Respond(r, code) ==
  /\ pc' = [pc EXCEPT ![r] = "done"]
  /\ reply' = [reply EXCEPT ![r] = IF code < 400 THEN "ok" ELSE "error"]
  /\ args' = [args EXCEPT ![r] = None]
  /\ id' = [id EXCEPT ![r] = NoIdentity]

Raise(r, error) == Respond(r, Code(error))

Same == UNCHANGED <<backend, rows>>

-----------------------------------------------------------------------------
(* Keys: the repository and APIKeyService.                                 *)

(* create_key: an active key of the user for the workspace; its name here  *)
(* is the request that creates it.                                         *)
NewKey(u, w) == [user |-> u, workspace |-> w, status |-> "active"]
CreateKey(k, u, w) == keys' = [keys EXCEPT ![k] = NewKey(u, w)]

(* update_status of the row that is there.                                 *)
UpdateStatus(k, status) == keys' = [keys EXCEPT ![k].status = status]

(* find_by_key_hash_prefix and find_by_key_hash_prefix_for_user.           *)
Matches(p) == {k \in Keys : keys[k] # None /\ Prefix[k] = p}
MatchesForUser(p, u) == {k \in Matches(p) : keys[k].user = u}

(* find_hash_by_prefix and find_hash_by_prefix_for_user: no key, the key,  *)
(* or a conflict when the prefix is that of several.                       *)
FindHashByPrefix(p) ==
  CASE Matches(p) = {} -> None
    [] Cardinality(Matches(p)) > 1 -> "conflict"
    [] OTHER -> CHOOSE k \in Keys : k \in Matches(p)
FindHashByPrefixForUser(p, u) ==
  CASE MatchesForUser(p, u) = {} -> None
    [] Cardinality(MatchesForUser(p, u)) > 1 -> "conflict"
    [] OTHER -> CHOOSE k \in Keys : k \in MatchesForUser(p, u)

(* ensure_key: ON CONFLICT DO NOTHING.  Mutation: the conflict is resolved *)
(* by writing the record again.                                            *)
EnsureKeyUpsert(k) == NewKey(None, None)
EnsureKey(k) == IF keys[k] = None THEN NewKey(None, None) ELSE keys[k]

(* _bootstrap_keys: every start ensures the keys of the settings.  What    *)
(* was in flight when the process ended is gone.                           *)
BootstrapKeys ==
  /\ backend = "postgres"
  /\ keys' = [k \in Keys |-> IF k \in Roots THEN EnsureKey(k) ELSE keys[k]]
  /\ pc' = [r \in Requests |-> IF pc[r] = "idle" THEN "idle" ELSE "done"]
  /\ args' = [r \in Requests |-> None]
  /\ id' = [r \in Requests |-> NoIdentity]
  /\ UNCHANGED <<backend, users, creator, members, subs, joined, reply>>

(* The operations a key opens; the last ones are the administrator's.      *)
UserOps == {"logout", "new_key", "revoke", "new_workspace", "add", "change", "remove"}
AdminOps == {"admin_key", "admin_revoke", "subscribe"}

(* validate: the key exists and is active at this moment.  The time stamp  *)
(* it leaves is only listed, and failing to leave it fails nothing.        *)
Validate(k) == keys[k] # None /\ keys[k].status = "active"

(* require_api_key: the identity of the request is the key's.              *)
RequireApiKey(r) ==
  /\ At(r, "idle")
  /\ \E k \in Keys, op \in UserOps :
        IF ~Validate(k) THEN Raise(r, "AuthenticationError")
        ELSE /\ pc' = [pc EXCEPT ![r] = op]
             /\ id' = [id EXCEPT ![r] = [key |-> k, user |-> keys[k].user,
                                         workspace |-> keys[k].workspace]]
             /\ UNCHANGED <<args, reply>>
  /\ Same

(* require_admin_key: the key is one of admin_api_keys as well.            *)
RequireAdminKey(r) ==
  /\ At(r, "idle")
  /\ \E k \in Keys, op \in AdminOps :
        IF ~Validate(k) THEN Raise(r, "AuthenticationError")
        ELSE IF k \notin AdminKeys THEN Raise(r, "AuthorizationError")
        ELSE /\ pc' = [pc EXCEPT ![r] = op]
             /\ id' = [id EXCEPT ![r] = [NoIdentity EXCEPT !.key = k]]
             /\ UNCHANGED <<args, reply>>
  /\ Same

(* _require_user_identity: the key belongs to a user.                      *)
UserBound(r) == id[r].user # None

(* POST /auth/logout: the key of the request itself is revoked.            *)
Logout(r) ==
  /\ At(r, "logout")
  /\ IF ~UserBound(r) THEN Respond(r, 400) /\ UNCHANGED keys
     ELSE UpdateStatus(id[r].key, "revoked") /\ Respond(r, 200)
  /\ UNCHANGED <<backend, users, creator, members, subs, joined>>

(* POST /auth/keys: a key for the workspace of the key that was used.      *)
CreateUserApiKey(r) ==
  /\ At(r, "new_key")
  /\ IF ~UserBound(r) THEN Respond(r, 400) /\ UNCHANGED keys
     ELSE CreateKey(r, id[r].user, id[r].workspace) /\ Respond(r, 201)
  /\ UNCHANGED <<backend, users, creator, members, subs, joined>>

(* DELETE /auth/keys/{prefix} up to the write.                             *)
FindForUser(r) ==
  /\ At(r, "revoke")
  /\ \E p \in {Prefix[k] : k \in Keys} :
       LET k == FindHashByPrefixForUser(p, id[r].user)
       IN  IF ~UserBound(r) THEN Respond(r, 400)
           ELSE IF k = None THEN Respond(r, 404)
           ELSE IF k = "conflict" THEN Raise(r, "ConflictError")
           ELSE Goto(r, "revoke.write", [key |-> k])
  /\ Same

(* revoke_key_for_user: the owner is checked again, then the status is set.*)
RevokeForUser(r) ==
  /\ At(r, "revoke.write")
  /\ IF keys[args[r].key].user = id[r].user
     THEN UpdateStatus(args[r].key, "revoked") /\ Respond(r, 200)
     ELSE Respond(r, 404) /\ UNCHANGED keys
  /\ UNCHANGED <<backend, users, creator, members, subs, joined>>

(* POST /admin/api-keys: a key of no user and no workspace.                *)
AdminCreateKey(r) ==
  /\ At(r, "admin_key")
  /\ CreateKey(r, None, None) /\ Respond(r, 200)
  /\ UNCHANGED <<backend, users, creator, members, subs, joined>>

(* DELETE /admin/api-keys/{prefix} up to the write: the prefix names one   *)
(* key, and not one of the administrators'.                                *)
AdminFindKey(r) ==
  /\ At(r, "admin_revoke")
  /\ \E p \in {Prefix[k] : k \in Keys} :
       LET k == FindHashByPrefix(p)
       IN  IF k = None THEN Raise(r, "APIKeyNotFoundError")
           ELSE IF k = "conflict" THEN Raise(r, "ConflictError")
           ELSE IF k \in AdminKeys THEN Raise(r, "AuthorizationError")
           ELSE Goto(r, "admin_revoke.write", [key |-> k])
  /\ Same

(* revoke_key.                                                             *)
AdminRevokeKey(r) ==
  /\ At(r, "admin_revoke.write")
  /\ UpdateStatus(args[r].key, "revoked") /\ Respond(r, 200)
  /\ UNCHANGED <<backend, users, creator, members, subs, joined>>

-----------------------------------------------------------------------------
(* Accounts.                                                               *)

(* register of UserService up to the insert: the email is free.            *)
RegisterCheck(r) ==
  /\ At(r, "idle")
  /\ \E u \in Users :
       IF u \in users THEN Raise(r, "ConflictError")
       ELSE Goto(r, "register.user", [user |-> u])
  /\ Same

(* The insert of the user: the email is unique in the table.               *)
InsertUser(r) ==
  /\ At(r, "register.user")
  /\ IF args[r].user \in users
     THEN Raise(r, "UnexpectedError") /\ UNCHANGED users
     ELSE /\ users' = users \cup {args[r].user}
          /\ Goto(r, "register.workspace", args[r])
  /\ UNCHANGED <<backend, creator, members, keys, subs, joined>>

(* create_workspace of the repository.                                     *)
InsertWorkspace(w, u) == creator' = [creator EXCEPT ![w] = u]

(* add_member of the repository: one row for a workspace and a user, and   *)
(* a second one fails: with a conflict in memory, with an error of the     *)
(* database that nothing handles on PostgreSQL.                            *)
InsertMember(w, u, role) ==
  /\ members' = [members EXCEPT ![w][u] = role]
  /\ joined' = joined \cup {<<w, u>>}
MemberExists == IF backend = "memory" THEN "ConflictError" ELSE "UnexpectedError"

(* create_workspace of the service, in a registration: the workspace, then *)
(* the membership of its owner.                                            *)
RegisterWorkspace(r) ==
  /\ At(r, "register.workspace")
  /\ InsertWorkspace(r, args[r].user)
  /\ Goto(r, "register.owner", args[r])
  /\ UNCHANGED <<backend, users, members, keys, subs, joined>>

RegisterOwner(r) ==
  /\ At(r, "register.owner")
  /\ InsertMember(r, args[r].user, "owner")
  /\ Goto(r, "register.key", args[r])
  /\ UNCHANGED <<backend, users, creator, keys, subs>>

(* The key that POST /auth/register returns.                               *)
RegisterKey(r) ==
  /\ At(r, "register.key")
  /\ CreateKey(r, args[r].user, r) /\ Respond(r, 201)
  /\ UNCHANGED <<backend, users, creator, members, subs, joined>>

(* POST /auth/login up to the workspaces: only with PostgreSQL, and only   *)
(* for a user who exists (the password is taken to be right).              *)
LoginUser(r) ==
  /\ At(r, "idle")
  /\ \E u \in Users :
       IF backend # "postgres" THEN Respond(r, 503)
       ELSE IF u \notin users THEN Raise(r, "AuthenticationError")
       ELSE Goto(r, "login.workspaces", [user |-> u])
  /\ Same

(* Mutation: the workspaces of every user are listed.                      *)
LoginAnyWorkspace(r) ==
  /\ At(r, "login.workspaces")
  /\ \E w \in {w \in Workspaces : creator[w] # None} :
        Goto(r, "login.key", [user |-> args[r].user, workspace |-> w])
  /\ Same

(* The first of the user's workspaces; none at all is a server error.      *)
LoginWorkspaces(r) ==
  /\ At(r, "login.workspaces")
  /\ IF WorkspacesOf(args[r].user) = {} THEN Respond(r, 500)
     ELSE \E w \in WorkspacesOf(args[r].user) :
            Goto(r, "login.key", [user |-> args[r].user, workspace |-> w])
  /\ Same

LoginKey(r) ==
  /\ At(r, "login.key")
  /\ CreateKey(r, args[r].user, args[r].workspace) /\ Respond(r, 200)
  /\ UNCHANGED <<backend, users, creator, members, subs, joined>>

-----------------------------------------------------------------------------
(* Workspaces and members.                                                 *)

(* POST /workspaces: the same two inserts for the user of the key.         *)
CreateWorkspace(r) ==
  /\ At(r, "new_workspace")
  /\ IF ~UserBound(r)
     THEN Raise(r, "AuthenticationError") /\ UNCHANGED creator
     ELSE InsertWorkspace(r, id[r].user) /\ Goto(r, "new_workspace.owner", args[r])
  /\ UNCHANGED <<backend, users, members, keys, subs, joined>>

CreateWorkspaceOwner(r) ==
  /\ At(r, "new_workspace.owner")
  /\ InsertMember(r, id[r].user, "owner") /\ Respond(r, 201)
  /\ UNCHANGED <<backend, users, creator, keys, subs>>

Managers == {"owner", "admin"}

(* _require_member_role: the actor's role is looked up once, at the start. *)
RequireMemberRole(r, op, a) ==
  /\ At(r, op)
  /\ IF ~UserBound(r) THEN Raise(r, "AuthenticationError")
     ELSE IF members[a.workspace][id[r].user] \in Managers
     THEN Goto(r, IF op = "add" THEN "add.find" ELSE "target", a)
     ELSE Raise(r, "AuthorizationError")
  /\ Same

(* POST /workspaces/{id}/members.                                          *)
AddMemberRequest(r) ==
  \E w \in Workspaces, u \in Users, role \in Invitable :
    RequireMemberRole(r, "add", [workspace |-> w, user |-> u, role |-> role])

(* PUT and DELETE /workspaces/{id}/members/{user}.                         *)
ChangeRoleRequest(r) ==
  \E w \in Workspaces, u \in Users, role \in Invitable :
    RequireMemberRole(r, "change", [workspace |-> w, user |-> u, role |-> role])
RemoveMemberRequest(r) ==
  \E w \in Workspaces, u \in Users :
    RequireMemberRole(r, "remove", [workspace |-> w, user |-> u, role |-> None])

(* add_member of the service: never an owner, and only a user who exists.  *)
FindTargetUser(r) ==
  /\ At(r, "add.find")
  /\ IF args[r].role = "owner" \/ args[r].user \notin users
     THEN Raise(r, "ValidationError")
     ELSE Goto(r, "add.count", args[r])
  /\ Same

(* _plan_for_workspace and _limit_for: only an active or trial             *)
(* subscription gives a limit, and a plan without one is unlimited.        *)
Limit(w) == IF subs[w] # None /\ subs[w].status \in ActiveStatuses
            THEN MaxMembers[subs[w].plan] ELSE None

(* require_limit.                                                          *)
WithinLimit(w, count) == Limit(w) = None \/ count < Limit(w)

(* The members are counted, then the subscription is read and the limit    *)
(* compared; the two reads are one step, for both come before the insert.  *)
CountMembers(r) ==
  /\ At(r, "add.count")
  /\ LET w == args[r].workspace
     IN  IF WithinLimit(w, Cardinality(Members(w)))
         THEN Goto(r, "add.write", args[r]) ELSE Raise(r, "ValidationError")
  /\ Same

(* Mutation: the row is replaced when there is one.                        *)
AddMemberAnyway(r) ==
  /\ At(r, "add.write")
  /\ InsertMember(args[r].workspace, args[r].user, args[r].role) /\ Respond(r, 201)
  /\ UNCHANGED <<backend, users, creator, keys, subs>>

(* The insert of the member, at a time when the limit, the actor and the   *)
(* membership may have changed.                                            *)
AddMember(r) ==
  /\ At(r, "add.write")
  /\ IF Member(args[r].workspace, args[r].user)
     THEN Raise(r, MemberExists) /\ UNCHANGED <<members, joined>>
     ELSE InsertMember(args[r].workspace, args[r].user, args[r].role) /\ Respond(r, 201)
  /\ UNCHANGED <<backend, users, creator, keys, subs>>

(* update_member_role and remove_member up to the write: the target is a   *)
(* member and not the owner, and the new role is not the owner's.          *)
CheckTarget(r) ==
  /\ At(r, "target")
  /\ LET role == members[args[r].workspace][args[r].user]
     IN  IF args[r].role = "owner" \/ role = None THEN Raise(r, "ValidationError")
         ELSE IF role = "owner" THEN Raise(r, "AuthorizationError")
         ELSE Goto(r, "target.write", args[r])
  /\ Same

(* update_member_role of the repository: nothing without a row.            *)
UpdateMemberRole(r) ==
  /\ At(r, "target.write") /\ args[r].role # None
  /\ IF Member(args[r].workspace, args[r].user)
     THEN InsertMember(args[r].workspace, args[r].user, args[r].role) /\ Respond(r, 200)
     ELSE Raise(r, "ValidationError") /\ UNCHANGED <<members, joined>>
  /\ UNCHANGED <<backend, users, creator, keys, subs>>

(* remove_member of the repository.                                        *)
DeleteMember(w, u) ==
  members' = [members EXCEPT ![w][u] = None] /\ UNCHANGED joined

(* remove_member of the service, its write.                                *)
RemoveMember(r) ==
  /\ At(r, "target.write") /\ args[r].role = None
  /\ IF Member(args[r].workspace, args[r].user)
     THEN DeleteMember(args[r].workspace, args[r].user) /\ Respond(r, 200)
     ELSE Raise(r, "ValidationError") /\ UNCHANGED <<members, joined>>
  /\ UNCHANGED <<backend, users, creator, keys, subs>>

-----------------------------------------------------------------------------
(* Subscriptions.                                                          *)

(* POST /admin/workspaces/{id}/subscription and assign_plan up to the      *)
(* write: the workspace and the plan exist, the row is looked up.          *)
AssignSubscription(r) ==
  /\ At(r, "subscribe")
  /\ \E w \in Workspaces, p \in Plans, s \in Assignable :
       IF creator[w] = None THEN Respond(r, 404)
       ELSE Goto(r, "subscribe.write",
                 [workspace |-> w, plan |-> p, status |-> s, existing |-> subs[w]])
  /\ Same

(* expired_at: unset by an active status, set by another one unless it was *)
(* set before.                                                             *)
ExpiredAt(status) == status \notin ActiveStatuses

(* create_subscription: a workspace has one row, a second insert fails.    *)
CreateSubscription(r, w, row) ==
  IF subs[w] # None THEN Raise(r, "UnexpectedError") /\ UNCHANGED subs
  ELSE subs' = [subs EXCEPT ![w] = row] /\ Respond(r, 200)

(* update_subscription: plan, status and expired_at of the row.            *)
UpdateSubscription(r, w, row) ==
  subs' = [subs EXCEPT ![w] = row] /\ Respond(r, 200)

(* assign_plan: by what was read, the row is inserted or updated.          *)
AssignPlan(r) ==
  /\ At(r, "subscribe.write")
  /\ LET w == args[r].workspace
         row == [plan |-> args[r].plan, status |-> args[r].status,
                 expired_at |-> ExpiredAt(args[r].status)]
     IN  IF args[r].existing = None THEN CreateSubscription(r, w, row)
                                    ELSE UpdateSubscription(r, w, row)
  /\ UNCHANGED <<backend, users, creator, members, keys, joined>>

-----------------------------------------------------------------------------
(* The client of a request goes away, or a repository call fails: what was *)
(* committed stays.                                                        *)
Interrupt(r) ==
  /\ backend = "postgres" /\ pc[r] \notin {"idle", "done"}
  /\ pc' = [pc EXCEPT ![r] = "done"]
  /\ args' = [args EXCEPT ![r] = None]
  /\ id' = [id EXCEPT ![r] = NoIdentity]
  /\ Same /\ UNCHANGED reply

RequestStep(r) ==
  \/ RequireApiKey(r) \/ RequireAdminKey(r)
  \/ Logout(r) \/ CreateUserApiKey(r) \/ FindForUser(r) \/ RevokeForUser(r)
  \/ AdminCreateKey(r) \/ AdminFindKey(r) \/ AdminRevokeKey(r)
  \/ RegisterCheck(r) \/ InsertUser(r) \/ RegisterWorkspace(r)
  \/ RegisterOwner(r) \/ RegisterKey(r)
  \/ LoginUser(r) \/ LoginWorkspaces(r) \/ LoginKey(r)
  \/ CreateWorkspace(r) \/ CreateWorkspaceOwner(r)
  \/ AddMemberRequest(r) \/ FindTargetUser(r) \/ CountMembers(r) \/ AddMember(r)
  \/ ChangeRoleRequest(r) \/ RemoveMemberRequest(r) \/ CheckTarget(r)
  \/ UpdateMemberRole(r) \/ RemoveMember(r)
  \/ AssignSubscription(r) \/ AssignPlan(r)

Next ==
  \/ \E r \in Requests : RequestStep(r) \/ Interrupt(r)
  \/ BootstrapKeys

Spec == Init /\ [][Next]_vars

-----------------------------------------------------------------------------
(* Properties.                                                             *)

(* A request that ended without an answer: interrupted, or cut off by the  *)
(* end of the process.                                                     *)
Interrupted(r) == pc[r] = "done" /\ reply[r] = None

(* Whatever managers do at the same time, a workspace keeps its creator as *)
(* its only owner from the moment it has one; it has none only while its   *)
(* creation is under way, or for ever if that was interrupted              *)
(* (create_workspace, update_member_role, remove_member).                  *)
OwnerKept ==
  \A w \in Workspaces :
    /\ \A u \in Users : members[w][u] = "owner" => creator[w] = u
    /\ creator[w] # None =>
         \/ members[w][creator[w]] = "owner"
         \/ w \in Requests /\ (Interrupted(w) \/ pc[w] \in {"register.owner",
                                                         "new_workspace.owner"})

(* A user with an account can log in: a user without a workspace exists    *)
(* only while the registration is under way, or when it was interrupted,   *)
(* and then no later call repairs it (register, login).                    *)
AccountsUsable ==
  \A u \in users :
    \/ WorkspacesOf(u) # {}
    \/ \E r \in Requests :
         \/ pc[r] \in {"register.workspace", "register.owner"} /\ args[r].user = u
         \/ Interrupted(r)

(* Workspaces and accounts can be used once they are there, but for those  *)
(* whose creation was interrupted.                                         *)
WorkspacesUsable == OwnerKept /\ AccountsUsable

(* Registrations of one email at the same time give one account: no two of *)
(* them get a workspace and a key, and none when the email had an account. *)
Registration(r) == keys[r] # None /\ keys[r].workspace = r
OneAccountPerEmail ==
  \A r \in Requests : Registration(r) =>
    /\ creator[r] = keys[r].user /\ creator[r] \in users \ Registered
    /\ \A q \in Requests \ {r} : Registration(q) => creator[q] # creator[r]

(* No key opens a workspace its user has never been a member of, however   *)
(* keys were made from keys and memberships changed (create_key, login).   *)
KeysStayInTenant ==
  \A k \in Keys : keys[k] # None =>
    /\ keys[k].workspace = None <=> keys[k].user = None
    /\ keys[k].user # None => <<keys[k].workspace, keys[k].user>> \in joined

(* One email, one account, and no key into the workspace of another.       *)
TenantsSeparate == OneAccountPerEmail /\ KeysStayInTenant

(* A key never changes hands, and a revoked key is never active again, not *)
(* by a start that bootstraps it either (ensure_key).                      *)
RevokedStaysRevoked ==
  [][\A k \in Keys : (keys[k] # None) =>
        \/ keys'[k] = keys[k]
        \/ keys'[k] = [keys[k] EXCEPT !.status = "revoked"]]_vars

(* No sequence of calls leaves the configured administrators without their *)
(* keys (revoke_api_key, logout).                                          *)
AdminKeysStayValid == \A k \in AdminKeys : Validate(k)

(* What was revoked stays so, and what cannot be revoked stays valid.      *)
KeysKept == RevokedStaysRevoked /\ []AdminKeysStayValid
=============================================================================
