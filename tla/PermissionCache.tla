---------------------------- MODULE PermissionCache ----------------------------
(***************************************************************************)
(* Roles, direct overrides and the effective permissions of operators:     *)
(* permission_resolver and its Redis sets, role_service and                *)
(* operator_user_service with the rows they change.                        *)
(*                                                                         *)
(* A check is a request that resolves an operator's permissions; a change  *)
(* is a request of an administrator.  A check reads in several statements, *)
(* each of which sees what was committed when it ran (READ COMMITTED), and *)
(* all of them before it looks into Redis: get_current_operator loads the  *)
(* operator with everything attached, and the resolver's own query finds   *)
(* those objects in the session and does not refresh them.                 *)
(***************************************************************************)
EXTENDS Naturals, FiniteSets

CONSTANTS Users,    \* operators
          Roles,    \* roles made by administrators
          Perms,    \* PermissionEnum
          Checks,   \* requests that resolve permissions
          Changes,  \* requests that change rows
          None,     \* a missing key, an empty column
          Empty     \* the string "empty" at the key of an operator without permissions

ASSUME PermAssumption ==
    /\ None \notin Users \cup Roles
    /\ Empty # None
    /\ \A P \in SUBSET Perms : P # None /\ P # Empty
    /\ Perms # {}

VARIABLES rows,     \* rows of the two link tables and of the overrides
          super,    \* operators with is_super_admin
          state,    \* of an operator: not created, active, inactive, deleted
          roles,    \* of a role: not created, there, deleted
          cache,    \* Redis operator:permissions:{id}
          check,    \* the checks in progress
          change,   \* the changes in progress
          suspect   \* history: operators whose entry was written by a check that a
                    \* change overtook, or whose invalidation was lost

vars == <<rows, super, state, roles, cache, check, change, suspect>>

Link == [user: Users, role: Roles]
Grant == [role: Roles, perm: Perms]
\* "by", the change that inserted it, stands for the id of the row.
Override == [user: Users, perm: Perms, granted: BOOLEAN, by: Changes]
Row == Link \cup Grant \cup Override

Check == [pc: {"idle", "links", "grants", "overrides", "get", "fill"}, user: Users \cup {None},
          held: SUBSET Roles, perms: SUBSET Perms, late: BOOLEAN]

NoCheck == [pc |-> "idle", user |-> None, held |-> {}, perms |-> {}, late |-> FALSE]

\* "add" and "drop": the rows the transaction inserts and deletes; "todo": the
\* operators still to invalidate.
Change == [op: {"none", "roles", "direct", "edit", "grants", "super", "active",
                "dropUser", "dropRole"},
           pc: {"idle", "commit", "find", "invalidate"}, user: Users \cup {None},
           role: Roles \cup {None}, add: SUBSET Row, drop: SUBSET Row, flag: BOOLEAN,
           todo: SUBSET Users]

NoChange == [op |-> "none", pc |-> "idle", user |-> None, role |-> None, add |-> {},
             drop |-> {}, flag |-> FALSE, todo |-> {}]

TypeOK ==
    /\ rows \subseteq Row
    /\ super \subseteq Users
    /\ state \in [Users -> {"new", "active", "inactive", "gone"}]
    /\ roles \in [Roles -> {"new", "there", "gone"}]
    /\ cache \in [Users -> {None, Empty} \cup ((SUBSET Perms) \ {{}})]
    /\ check \in [Checks -> Check]
    /\ change \in [Changes -> Change]
    /\ suspect \subseteq Users

Init ==
    /\ rows = {} /\ super = {}
    /\ state = [u \in Users |-> "new"]
    /\ roles = [r \in Roles |-> "new"]
    /\ cache = [u \in Users |-> None]
    /\ check = [k \in Checks |-> NoCheck]
    /\ change = [c \in Changes |-> NoChange]
    /\ suspect = {}

-----------------------------------------------------------------------------
(* Reading the rows                                                        *)

Exists(u) == state[u] \in {"active", "inactive"}

Held(u) == {r \in Roles : [user |-> u, role |-> r] \in rows}

Granted(R) == {p \in Perms : \E r \in R : [role |-> r, perm |-> p] \in rows}

OverridesOf(u) == {o \in rows \cap Override : o.user = u}

\* _extract_direct_overrides over permissions P: a denial beats every grant.
Overridden(u, P) ==
    (P \cup {o.perm : o \in {x \in OverridesOf(u) : x.granted}})
      \ {o.perm : o \in {x \in OverridesOf(u) : ~x.granted}}

\* The effective permissions of u by the committed rows.
Effective(u) == IF u \in super THEN Perms ELSE Overridden(u, Granted(Held(u)))

-----------------------------------------------------------------------------
(* A check                                                                 *)

\* get_current_operator: the row of the operator; the inactive are refused, and a
\* super admin needs nothing more.
LoadUser(k, u) ==
    /\ check[k] = NoCheck
    /\ state[u] = "active"
    /\ check' = [check EXCEPT ![k] =
                   IF u \in super THEN [NoCheck EXCEPT !.pc = "get", !.user = u, !.perms = Perms]
                   ELSE [NoCheck EXCEPT !.pc = "links", !.user = u]]
    /\ UNCHANGED <<rows, super, state, roles, cache, change, suspect>>

LoadLinks(k) ==
    /\ check[k].pc = "links"
    /\ check' = [check EXCEPT ![k].pc = "grants", ![k].held = Held(check[k].user)]
    /\ UNCHANGED <<rows, super, state, roles, cache, change, suspect>>

LoadGrants(k) ==
    /\ check[k].pc = "grants"
    /\ check' = [check EXCEPT ![k].pc = "overrides", ![k].held = {},
                              ![k].perms = Granted(check[k].held)]
    /\ UNCHANGED <<rows, super, state, roles, cache, change, suspect>>

LoadOverrides(k) ==
    /\ check[k].pc = "overrides"
    /\ check' = [check EXCEPT ![k].pc = "get", ![k].perms = Overridden(check[k].user, @)]
    /\ UNCHANGED <<rows, super, state, roles, cache, change, suspect>>

\* _get_cached_permissions: a set ends the check.  No key, an error of Redis, or
\* the string "empty" (which SMEMBERS refuses) is a miss, and the resolver goes on
\* if the operator still has a row.
GetCached(k) ==
    LET u == check[k].user IN
    /\ check[k].pc = "get"
    /\ \/ /\ cache[u] \notin {None, Empty} \/ ~Exists(u)
          /\ check' = [check EXCEPT ![k] = NoCheck]
       \/ /\ Exists(u)
          /\ check' = [check EXCEPT ![k].pc = "fill"]
    /\ UNCHANGED <<rows, super, state, roles, cache, change, suspect>>

\* What SADD or SETEX of permissions P leaves at a key that holds v: SADD adds to
\* a set and is refused by a string.
StoredEmptySet(v, P) == IF v = None THEN P ELSE IF v = Empty THEN v ELSE v \cup P

Stored(v, P) ==
    CASE P = {} -> Empty
      [] P # {} /\ v = Empty -> v
      [] P # {} /\ v = None -> P
      [] OTHER -> v \cup P

\* _cache_permissions; an error of Redis is logged and ignored.
Fill(k) ==
    LET u == check[k].user IN
    /\ check[k].pc = "fill"
    /\ \/ UNCHANGED <<cache, suspect>>
       \/ /\ cache' = [cache EXCEPT ![u] = Stored(@, check[k].perms)]
          /\ suspect' = IF check[k].late THEN suspect \cup {u} ELSE suspect
    /\ check' = [check EXCEPT ![k] = NoCheck]
    /\ UNCHANGED <<rows, super, state, roles, change>>

-----------------------------------------------------------------------------
(* Changes: what each reads and decides to write                           *)

Begin(c, new) ==
    /\ change[c] = NoChange
    /\ change' = [change EXCEPT ![c] = new]
    /\ UNCHANGED <<rows, super, state, roles, cache, check, suspect>>

\* assign_roles_to_user with roles R.  "Existing" means read before the deletion,
\* so that a role that is replaced by itself is not added again.
AssignRoles(c, u, R, replace) ==
    /\ Exists(u)
    /\ \A r \in R : roles[r] = "there"
    /\ Begin(c, [NoChange EXCEPT !.op = "roles", !.pc = "commit", !.user = u,
                   !.add = {[user |-> u, role |-> r] : r \in R \ Held(u)},
                   !.drop = IF replace THEN {[user |-> u, role |-> r] : r \in Held(u)} ELSE {}])

\* assign_direct_permissions of one code.  set_override changes the row there is,
\* inserts one if there is none, and raises if there are several; replace_existing
\* deletes all rows first.
AssignDirect(c, u, p, granted, replace) ==
    LET there == {o \in OverridesOf(u) : o.perm = p}
        row   == [user |-> u, perm |-> p, granted |-> granted, by |-> c]
    IN  /\ Exists(u)
        /\ \/ /\ replace \/ there = {}
              /\ Begin(c, [NoChange EXCEPT !.op = "direct", !.pc = "commit", !.user = u,
                             !.add = {row}, !.drop = IF replace THEN OverridesOf(u) ELSE {}])
           \/ \E o \in there :
              LET edited == [o EXCEPT !.granted = granted] IN
              /\ ~replace /\ there = {o}
              /\ Begin(c, [NoChange EXCEPT !.op = "edit", !.pc = "commit", !.user = u,
                             !.add = {edited} \ {o}, !.drop = {o} \ {edited}])

\* assign_permissions_to_role.
AssignGrants(c, r, P, replace) ==
    LET there == {p \in Perms : [role |-> r, perm |-> p] \in rows}
    IN  /\ roles[r] = "there"
        /\ Begin(c, [NoChange EXCEPT !.op = "grants", !.pc = "commit", !.role = r,
                       !.add = {[role |-> r, perm |-> p] : p \in IF replace THEN P ELSE P \ there},
                       !.drop = IF replace THEN {[role |-> r, perm |-> p] : p \in there} ELSE {}])

UpdateSuperAdmin(c, u, flag) ==
    /\ Exists(u)
    /\ Begin(c, [NoChange EXCEPT !.op = "super", !.pc = "commit", !.user = u, !.flag = flag])

\* update_user: is_active.
UpdateUser(c, u, flag) ==
    /\ Exists(u)
    /\ Begin(c, [NoChange EXCEPT !.op = "active", !.pc = "commit", !.user = u, !.flag = flag])

\* delete_user deletes the row, which the foreign keys of links and overrides
\* refuse, and invalidates before its request commits.
DeleteUser(c, u) ==
    /\ Exists(u)
    /\ Held(u) = {} /\ OverridesOf(u) = {}
    /\ Begin(c, [NoChange EXCEPT !.op = "dropUser", !.pc = "invalidate", !.user = u, !.todo = {u}])

\* delete_role refuses a role with users; the foreign key one with permissions.
DeleteRole(c, r) ==
    /\ roles[r] = "there"
    /\ \A u \in Users : r \notin Held(u)
    /\ Granted({r}) = {}
    /\ Begin(c, [NoChange EXCEPT !.op = "dropRole", !.pc = "commit", !.role = r])

\* create_user and create_role touch no key and no row another request uses.
CreateUser(u, R, flag) ==
    /\ state[u] = "new"
    /\ \A r \in R : roles[r] = "there" /\ \A c \in Changes : change[c].op # "dropRole"
    /\ state' = [state EXCEPT ![u] = "active"]
    /\ super' = IF flag THEN super \cup {u} ELSE super
    /\ rows' = rows \cup {[user |-> u, role |-> r] : r \in R}
    /\ UNCHANGED <<roles, cache, check, change, suspect>>

CreateRole(r, P) ==
    /\ roles[r] = "new"
    /\ roles' = [roles EXCEPT ![r] = "there"]
    /\ rows' = rows \cup {[role |-> r, perm |-> p] : p \in P}
    /\ UNCHANGED <<super, state, cache, check, change, suspect>>

-----------------------------------------------------------------------------
(* Changes: commit and invalidate                                          *)

\* The operators whose effective permissions change c reads or writes.
Affected(c) ==
    IF change[c].op = "grants" THEN {u \in Users : change[c].role \in Held(u)}
    ELSE {change[c].user} \cap Users

\* The rows that c's row refers to are there, and will be.
Referable(c) ==
    /\ \A d \in Changes \ {c} : change[d].op \in {"dropUser", "dropRole"} =>
         change[d].user # change[c].user \/ change[c].user = None
    /\ \A x \in change[c].add \cap (Link \cup Grant) : roles[x.role] = "there"

\* What the database demands of a commit: foreign keys, and of an edit that the
\* row it changes still exists.
Allowed(c) ==
    LET w == change[c] IN
    /\ w.user # None => Exists(w.user)
    /\ w.op = "grants" => roles[w.role] = "there"
    /\ w.op = "edit" /\ w.add # {} => (w.add \cup w.drop) \cap rows # {}
    /\ w.op = "dropUser" => Held(w.user) = {} /\ OverridesOf(w.user) = {}
    /\ w.op = "dropRole" => Granted({w.role}) = {} /\ \A u \in Users : w.role \notin Held(u)
    /\ Referable(c)

\* Faulty: the services invalidate first and commit last.
AfterCommitDone(w) == NoChange

\* What change w does after its commit.
AfterCommit(w) ==
    CASE w.op = "grants" -> [NoChange EXCEPT !.op = "grants", !.pc = "find", !.role = w.role]
      [] w.op \in {"dropUser", "dropRole"} -> NoChange
      [] OTHER -> [NoChange EXCEPT !.op = w.op, !.pc = "invalidate", !.user = w.user,
                                   !.todo = {w.user}]

\* What d still deletes once w has committed.  A statement deletes the rows that
\* were there when it ran: not the ones another request has deleted or inserted
\* since, but the edited version of one that was edited.
Remaining(d, w) ==
    CASE d.op = "edit" -> d.drop
      [] d.op # "edit" /\ w.op = "edit" ->
           IF (w.drop \cup w.add) \cap d.drop = {} THEN d.drop
           ELSE (d.drop \ w.drop) \cup w.add
      [] OTHER -> d.drop \ (w.drop \cup w.add)

Commit(c) ==
    LET w == change[c] IN
    /\ w.pc = "commit"
    /\ Allowed(c)
    /\ rows' = (rows \ w.drop) \cup w.add
    /\ super' = IF w.op # "super" THEN super
                ELSE IF w.flag THEN super \cup {w.user} ELSE super \ {w.user}
    /\ state' = CASE w.op = "active" ->
                       [state EXCEPT ![w.user] = IF w.flag THEN "active" ELSE "inactive"]
                  [] w.op = "dropUser" -> [state EXCEPT ![w.user] = "gone"]
                  [] OTHER -> state
    /\ roles' = IF w.op = "dropRole" THEN [roles EXCEPT ![w.role] = "gone"] ELSE roles
    /\ change' = [d \in Changes |-> IF d = c THEN AfterCommit(w)
                                    ELSE [change[d] EXCEPT !.drop = Remaining(change[d], w)]]
    /\ check' = [k \in Checks |-> IF check[k].user \in Affected(c)
                                  THEN [check[k] EXCEPT !.late = TRUE] ELSE check[k]]
    /\ UNCHANGED <<cache, suspect>>

\* invalidate_cache_for_role: the operators who have the role now.
FindUsers(c) ==
    /\ change[c].pc = "find"
    /\ change' = [change EXCEPT ![c].pc = "invalidate", ![c].todo = Affected(c)]
    /\ UNCHANGED <<rows, super, state, roles, cache, check, suspect>>

\* invalidate_cache of one operator; an error of Redis is logged and ignored.
Invalidate(c, u) ==
    /\ change[c].pc = "invalidate" /\ u \in change[c].todo
    /\ change' = [change EXCEPT ![c].todo = @ \ {u}]
    /\ \/ cache' = [cache EXCEPT ![u] = None] /\ suspect' = suspect \ {u}
       \/ UNCHANGED cache /\ suspect' = suspect \cup {u}
    /\ UNCHANGED <<rows, super, state, roles, check>>

\* All are invalidated: delete_user now commits, the others are done.
Invalidated(c) ==
    /\ change[c].pc = "invalidate" /\ change[c].todo = {}
    /\ change' = [change EXCEPT ![c] = IF @.op = "dropUser" THEN [@ EXCEPT !.pc = "commit"]
                                       ELSE NoChange]
    /\ UNCHANGED <<rows, super, state, roles, cache, check, suspect>>

\* The request fails: its transaction is rolled back, or, if it had committed, the
\* invalidations that were left are lost.
Fail(c) ==
    /\ change[c] # NoChange
    /\ change' = [change EXCEPT ![c] = NoChange]
    /\ suspect' = CASE change[c].pc = "find" -> suspect \cup Affected(c)
                    [] change[c].pc = "invalidate" -> suspect \cup change[c].todo
                    [] OTHER -> suspect
    /\ UNCHANGED <<rows, super, state, roles, cache, check>>

\* Faulty: the pipeline stores the set without a time to live.
ExpireMarker(u) ==
    /\ cache[u] = Empty
    /\ cache' = [cache EXCEPT ![u] = None]
    /\ suspect' = suspect \ {u}
    /\ UNCHANGED <<rows, super, state, roles, check, change>>

\* The key's five minutes are over.
Expire(u) ==
    /\ cache[u] # None
    /\ cache' = [cache EXCEPT ![u] = None]
    /\ suspect' = suspect \ {u}
    /\ UNCHANGED <<rows, super, state, roles, check, change>>

CheckStep(k) ==
    LoadLinks(k) \/ LoadGrants(k) \/ LoadOverrides(k) \/ GetCached(k) \/ Fill(k)

BeginChange(c) ==
    \/ \E u \in Users, b \in BOOLEAN :
         \/ \E R \in SUBSET Roles : AssignRoles(c, u, R, b)
         \/ \E p \in Perms, g \in BOOLEAN : AssignDirect(c, u, p, g, b)
         \/ UpdateSuperAdmin(c, u, b) \/ UpdateUser(c, u, b)
    \/ \E u \in Users : DeleteUser(c, u)
    \/ \E r \in Roles, P \in SUBSET Perms, b \in BOOLEAN : AssignGrants(c, r, P, b)
    \/ \E r \in Roles : DeleteRole(c, r)

ChangeStep(c) ==
    \/ Commit(c) \/ FindUsers(c) \/ Invalidated(c) \/ Fail(c)
    \/ \E u \in Users : Invalidate(c, u)

Next ==
    \/ \E k \in Checks : CheckStep(k) \/ \E u \in Users : LoadUser(k, u)
    \/ \E c \in Changes : BeginChange(c) \/ ChangeStep(c)
    \/ \E u \in Users, R \in SUBSET Roles, b \in BOOLEAN : CreateUser(u, R, b)
    \/ \E r \in Roles, P \in SUBSET Perms : CreateRole(r, P)
    \/ \E u \in Users : Expire(u)

Spec == Init /\ [][Next]_vars

\* The event loop ends every check it started, and Redis expires sets.  Nothing is
\* assumed of the "empty" string: EXPIRE, which follows the refused SADD in the
\* same transaction, renews it with every check.
FairSpec ==
    /\ Spec
    /\ \A k \in Checks : WF_vars(CheckStep(k))
    /\ \A u \in Users : WF_vars(cache[u] # Empty /\ Expire(u))

-----------------------------------------------------------------------------
(* Properties                                                              *)

\* A change of u's permissions has committed and u's key is still to be deleted.
Pending(u) ==
    \E c \in Changes : \/ change[c].pc = "find" /\ change[c].role \in Held(u)
                       \/ u \in change[c].todo /\ change[c].op # "dropUser"

\* A cached set is what the rows say, unless its invalidation is under way or was
\* lost, or a check that a change overtook wrote it.  In particular a change of a
\* role reaches every operator who has it, whoever gets or loses it meanwhile, and
\* sets that are added to each other (SADD) are the same.
CacheFollowsRows ==
    \A u \in Users : Exists(u) /\ cache[u] \notin {None, Empty} =>
        cache[u] = Effective(u) \/ u \in suspect \/ Pending(u)

\* Once changes have stopped, the cache agrees with the rows for good.
Settled == \A c \in Changes : change[c] = NoChange

CacheSettles ==
    <>[]Settled =>
      \A u \in Users : <>[](Exists(u) => cache[u] \in {None, Empty, Effective(u)})
=============================================================================
