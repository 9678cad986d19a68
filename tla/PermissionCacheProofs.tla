------------------------- MODULE PermissionCacheProofs -------------------------
(***************************************************************************)
(* Theorems about PermissionCache, for any operators, roles, permissions   *)
(* and requests.                                                           *)
(*                                                                         *)
(* That a cached set follows the rows is not inductive: a check that is    *)
(* about to store one must have read what the rows still say (ChecksSee),  *)
(* a change must write only rows of the operators it invalidates (Shape),  *)
(* and rows must not change below an operator or a role that is created    *)
(* (NothingOfNew).                                                         *)
(***************************************************************************)
EXTENDS PermissionCache, TLAPS

UserOps == {"roles", "direct", "edit", "super", "active", "dropUser"}

\* The rows a change w may insert or delete.
Own(w, x) ==
    \/ w.op = "roles" /\ x \in Link /\ x.user = w.user
    \/ w.op \in {"direct", "edit"} /\ x \in Override /\ x.user = w.user
    \/ w.op = "grants" /\ x \in Grant /\ x.role = w.role

\* What the record of a change w looks like.
Shape(w) ==
    /\ \A x \in w.add \cup w.drop : Own(w, x)
    /\ w.op \in UserOps => w.user \in Users
    /\ w.op \in {"grants", "dropRole"} => w.role \in Roles /\ w.user = None
    /\ w.pc = "find" => w.op = "grants"
    /\ w.pc = "commit" => w.op # "none"
    /\ w.todo # {} => w.pc = "invalidate"

Shaped == \A c \in Changes : Shape(change[c])

NothingOfNew ==
    /\ \A u \in Users : state[u] = "new" => cache[u] = None
    /\ \A k \in Checks : check[k].user # None => state[check[k].user] # "new"
    /\ \A u \in Users, r \in Roles : r \in Held(u) => roles[r] # "new"

\* What a check that no change has overtaken has read is what the rows say.
Sees(k) ==
    LET u == check[k].user IN
    /\ check[k].pc # "idle" => u \in Users
    /\ check[k].pc \in {"links", "grants", "overrides"} /\ ~check[k].late => u \notin super
    /\ check[k].pc = "grants" /\ ~check[k].late => check[k].held = Held(u)
    /\ check[k].pc = "overrides" /\ ~check[k].late => check[k].perms = Granted(Held(u))
    /\ check[k].pc \in {"get", "fill"} /\ ~check[k].late => check[k].perms = Effective(u)

ChecksSee == \A k \in Checks : Sees(k)

PermInv == TypeOK /\ Shaped /\ NothingOfNew /\ ChecksSee /\ CacheFollowsRows

-----------------------------------------------------------------------------
(* What a step leaves alone                                                *)

\* As far as operator u can tell, the rows are the same after the step.
Untouched(u) ==
    /\ Held(u)' = Held(u)
    /\ Granted(Held(u))' = Granted(Held(u))
    /\ Effective(u)' = Effective(u)
    /\ (u \in super)' = (u \in super)

\* A step that changes neither rows nor super admins touches nobody.
LEMMA SameRows ==
    ASSUME rows' = rows, super' = super, NEW u \in Users
    PROVE  Untouched(u)
  BY DEF Untouched, Effective, Overridden, OverridesOf, Granted, Held

\* Nor does one that changes neither the links nor the overrides of u, nor the
\* permissions of the roles u holds.
LEMMA OtherRows ==
    ASSUME NEW u \in Users,
           \A r \in Roles : [user |-> u, role |-> r] \in rows' <=> [user |-> u, role |-> r] \in rows,
           \A r \in Held(u), p \in Perms :
             [role |-> r, perm |-> p] \in rows' <=> [role |-> r, perm |-> p] \in rows,
           OverridesOf(u)' = OverridesOf(u),
           u \in super' <=> u \in super
    PROVE  Untouched(u)
  <1>1. Held(u)' = Held(u)
    BY DEF Held
  <1>2. Granted(Held(u))' = Granted(Held(u))
    <2>1. Granted(Held(u))' = {p \in Perms : \E r \in Held(u)' : [role |-> r, perm |-> p] \in rows'}
      BY DEF Granted
    <2>2. Granted(Held(u)) = {p \in Perms : \E r \in Held(u) : [role |-> r, perm |-> p] \in rows}
      BY DEF Granted
    <2> QED BY <1>1, <2>1, <2>2
  <1>3. Effective(u)' = Effective(u)
    BY <1>2 DEF Effective, Overridden
  <1> QED BY <1>1, <1>2, <1>3 DEF Untouched

\* A check goes on seeing the rows through a step that leaves it and its operator
\* alone.
LEMMA SeesOn ==
    ASSUME NEW k \in Checks, Sees(k), check'[k] = check[k],
           \A u \in Users : check[k].user = u /\ ~check[k].late => Untouched(u)
    PROVE  Sees(k)'
  <1>2. CASE check[k].pc = "idle"
    BY <1>2 DEF Sees
  <1>3. CASE check[k].pc # "idle" /\ check[k].late
    BY <1>3 DEF Sees
  <1>4. CASE check[k].pc # "idle" /\ ~check[k].late
    <2>1. PICK u \in Users : check[k].user = u
      BY <1>4 DEF Sees
    <2>2. Untouched(u)
      BY <1>4, <2>1
    <2> QED BY <1>4, <2>1, <2>2 DEF Sees, Untouched
  <1> QED BY <1>2, <1>3, <1>4

-----------------------------------------------------------------------------
(* Types and shapes                                                        *)

LEMMA Blank == NoChange \in Change /\ Shape(NoChange) /\ NoCheck \in Check
  BY DEF NoChange, Change, Shape, UserOps, NoCheck, Check

LEMMA AssignRolesRecord ==
    ASSUME TypeOK, NEW c \in Changes, NEW u \in Users, NEW R \in SUBSET Roles,
           NEW replace \in BOOLEAN, AssignRoles(c, u, R, replace)
    PROVE  \E new \in Change : Shape(new) /\ Begin(c, new)
  <1> DEFINE A == {[user |-> u, role |-> r] : r \in R \ Held(u)}
             D == IF replace THEN {[user |-> u, role |-> r] : r \in Held(u)} ELSE {}
             new == [NoChange EXCEPT !.op = "roles", !.pc = "commit", !.user = u,
                                     !.add = A, !.drop = D]
  <1>1. \A x \in A \cup D : x \in Link /\ x.user = u
    <2>1. \A r \in Roles : LET x == [user |-> u, role |-> r] IN x \in Link /\ x.user = u
      BY DEF Link
    <2>2. \A x \in A : x \in Link /\ x.user = u
      BY <2>1
    <2>3. \A x \in D : x \in Link /\ x.user = u
      BY <2>1 DEF Held
    <2> QED BY <2>2, <2>3
  <1>2. A \in SUBSET Row /\ D \in SUBSET Row
    BY <1>1 DEF Row
  <1>3. Begin(c, new)
    BY DEF AssignRoles
  <1> HIDE DEF A, D
  <1>4. new \in Change
    BY <1>2 DEF NoChange, Change
  <1>5. Shape(new)
    BY <1>1 DEF NoChange, Shape, Own, UserOps
  <1> QED BY <1>3, <1>4, <1>5

LEMMA AssignDirectRecord ==
    ASSUME TypeOK, NEW c \in Changes, NEW u \in Users, NEW p \in Perms,
           NEW granted \in BOOLEAN, NEW replace \in BOOLEAN,
           AssignDirect(c, u, p, granted, replace)
    PROVE  \E new \in Change : Shape(new) /\ Begin(c, new)
  <1> DEFINE there == {o \in OverridesOf(u) : o.perm = p}
             row == [user |-> u, perm |-> p, granted |-> granted, by |-> c]
             all == IF replace THEN OverridesOf(u) ELSE {}
             New(op, A, D) == [NoChange EXCEPT !.op = op, !.pc = "commit", !.user = u,
                                               !.add = A, !.drop = D]
  <1>1. ASSUME NEW op \in {"direct", "edit"}, NEW A, NEW D,
               \A x \in A \cup D : x \in Override /\ x.user = u
        PROVE  New(op, A, D) \in Change /\ Shape(New(op, A, D))
    <2>1. A \in SUBSET Row /\ D \in SUBSET Row
      BY <1>1 DEF Row
    <2>2. New(op, A, D) \in Change
      BY <1>1, <2>1 DEF NoChange, Change
    <2>3. Shape(New(op, A, D))
      BY <1>1 DEF NoChange, Shape, Own, UserOps
    <2> QED BY <2>2, <2>3
  <1>2. CASE Begin(c, New("direct", {row}, all))
    <2>1. \A x \in {row} \cup all : x \in Override /\ x.user = u
      BY DEF Override, OverridesOf
    <2> HIDE DEF row, all, New
    <2>2. New("direct", {row}, all) \in Change /\ Shape(New("direct", {row}, all))
      BY <2>1, <1>1
    <2> QED BY <1>2, <2>2
  <1>3. ASSUME NEW o \in there,
               Begin(c, New("edit", {[o EXCEPT !.granted = granted]} \ {o},
                                    {o} \ {[o EXCEPT !.granted = granted]}))
        PROVE  \E new \in Change : Shape(new) /\ Begin(c, new)
    <2> DEFINE edited == [o EXCEPT !.granted = granted]
               A == {edited} \ {o}
               D == {o} \ {edited}
    <2>1. o \in Override /\ o.user = u
      BY DEF OverridesOf
    <2>2. edited \in Override /\ edited.user = u
      BY <2>1 DEF Override
    <2>3. \A x \in A \cup D : x \in Override /\ x.user = u
      BY <2>1, <2>2
    <2>4. Begin(c, New("edit", A, D))
      BY <1>3
    <2> HIDE DEF A, D, New
    <2>5. New("edit", A, D) \in Change /\ Shape(New("edit", A, D))
      BY <2>3, <1>1
    <2> QED BY <2>4, <2>5
  <1> QED BY <1>2, <1>3 DEF AssignDirect

LEMMA AssignGrantsRecord ==
    ASSUME TypeOK, NEW c \in Changes, NEW r \in Roles, NEW P \in SUBSET Perms,
           NEW replace \in BOOLEAN, AssignGrants(c, r, P, replace)
    PROVE  \E new \in Change : Shape(new) /\ Begin(c, new)
  <1> DEFINE there == {p \in Perms : [role |-> r, perm |-> p] \in rows}
             A == {[role |-> r, perm |-> p] : p \in IF replace THEN P ELSE P \ there}
             D == IF replace THEN {[role |-> r, perm |-> p] : p \in there} ELSE {}
             new == [NoChange EXCEPT !.op = "grants", !.pc = "commit", !.role = r,
                                     !.add = A, !.drop = D]
  <1>1. \A x \in A \cup D : x \in Grant /\ x.role = r
    <2>1. \A p \in Perms : LET x == [role |-> r, perm |-> p] IN x \in Grant /\ x.role = r
      BY DEF Grant
    <2>2. \A x \in A : x \in Grant /\ x.role = r
      BY <2>1
    <2>3. \A x \in D : x \in Grant /\ x.role = r
      BY <2>1
    <2> QED BY <2>2, <2>3
  <1>2. A \in SUBSET Row /\ D \in SUBSET Row
    BY <1>1 DEF Row
  <1>3. Begin(c, new)
    BY DEF AssignGrants
  <1> HIDE DEF A, D
  <1>4. new \in Change
    BY <1>2 DEF NoChange, Change
  <1>5. Shape(new)
    BY <1>1 DEF NoChange, Shape, Own, UserOps
  <1> QED BY <1>3, <1>4, <1>5

\* Whatever an administrator asks for, the transaction writes rows of the operators
\* it will invalidate.
LEMMA BeginRecord ==
    ASSUME TypeOK, NEW c \in Changes, BeginChange(c)
    PROVE  \E new \in Change : Shape(new) /\ Begin(c, new)
  <1>1. ASSUME NEW u \in Users, NEW b \in BOOLEAN, NEW R \in SUBSET Roles, AssignRoles(c, u, R, b)
        PROVE  \E new \in Change : Shape(new) /\ Begin(c, new)
    BY <1>1, AssignRolesRecord
  <1>2. ASSUME NEW u \in Users, NEW b \in BOOLEAN, NEW p \in Perms, NEW g \in BOOLEAN,
               AssignDirect(c, u, p, g, b)
        PROVE  \E new \in Change : Shape(new) /\ Begin(c, new)
    BY <1>2, AssignDirectRecord
  <1>3. ASSUME NEW u \in Users, NEW b \in BOOLEAN, UpdateSuperAdmin(c, u, b)
        PROVE  \E new \in Change : Shape(new) /\ Begin(c, new)
    <2> DEFINE new == [NoChange EXCEPT !.op = "super", !.pc = "commit", !.user = u, !.flag = b]
    <2>1. new \in Change
      BY DEF NoChange, Change
    <2>2. Shape(new)
      BY DEF NoChange, Shape, UserOps
    <2> QED BY <1>3, <2>1, <2>2 DEF UpdateSuperAdmin
  <1>4. ASSUME NEW u \in Users, NEW b \in BOOLEAN, UpdateUser(c, u, b)
        PROVE  \E new \in Change : Shape(new) /\ Begin(c, new)
    <2> DEFINE new == [NoChange EXCEPT !.op = "active", !.pc = "commit", !.user = u, !.flag = b]
    <2>1. new \in Change
      BY DEF NoChange, Change
    <2>2. Shape(new)
      BY DEF NoChange, Shape, UserOps
    <2> QED BY <1>4, <2>1, <2>2 DEF UpdateUser
  <1>5. ASSUME NEW u \in Users, DeleteUser(c, u)
        PROVE  \E new \in Change : Shape(new) /\ Begin(c, new)
    <2> DEFINE new == [NoChange EXCEPT !.op = "dropUser", !.pc = "invalidate", !.user = u,
                                       !.todo = {u}]
    <2>1. new \in Change
      BY DEF NoChange, Change
    <2>2. Shape(new)
      BY DEF NoChange, Shape, UserOps
    <2> QED BY <1>5, <2>1, <2>2 DEF DeleteUser
  <1>6. ASSUME NEW r \in Roles, NEW P \in SUBSET Perms, NEW b \in BOOLEAN, AssignGrants(c, r, P, b)
        PROVE  \E new \in Change : Shape(new) /\ Begin(c, new)
    BY <1>6, AssignGrantsRecord
  <1>7. ASSUME NEW r \in Roles, DeleteRole(c, r)
        PROVE  \E new \in Change : Shape(new) /\ Begin(c, new)
    <2> DEFINE new == [NoChange EXCEPT !.op = "dropRole", !.pc = "commit", !.role = r]
    <2>1. new \in Change
      BY DEF NoChange, Change
    <2>2. Shape(new)
      BY DEF NoChange, Shape, UserOps
    <2> QED BY <1>7, <2>1, <2>2 DEF DeleteRole
  <1> QED BY <1>1, <1>2, <1>3, <1>4, <1>5, <1>6, <1>7 DEF BeginChange

-----------------------------------------------------------------------------
(* Steps of a check                                                        *)

\* A step that changes one check only need let that check see the rows.
LEMMA CheckOnly ==
    ASSUME PermInv, NEW k \in Checks, NEW v \in Check,
           check' = [check EXCEPT ![k] = v],
           UNCHANGED <<rows, super, state, roles, cache, change, suspect>>,
           v.user # None => state[v.user] # "new",
           Sees(k)'
    PROVE  PermInv'
  <1> USE DEF PermInv
  <1>1. TypeOK'
    BY DEF TypeOK
  <1>2. Shaped'
    BY DEF Shaped
  <1>3. \A l \in Checks : check'[l] = IF l = k THEN v ELSE check[l]
    BY DEF TypeOK
  <1>4. NothingOfNew'
    BY <1>3 DEF NothingOfNew, Held
  <1>5. ChecksSee'
    <2> SUFFICES ASSUME NEW l \in Checks, l # k PROVE Sees(l)'
      BY DEF ChecksSee
    <2>1. check'[l] = check[l] /\ Sees(l)
      BY <1>3 DEF ChecksSee
    <2>2. \A u \in Users : Untouched(u)
      BY SameRows
    <2> QED BY <2>1, <2>2, SeesOn
  <1>6. CacheFollowsRows'
    <2> SUFFICES ASSUME NEW u \in Users, Exists(u)', cache'[u] \notin {None, Empty}
                 PROVE  cache'[u] = Effective(u)' \/ u \in suspect' \/ Pending(u)'
      BY DEF CacheFollowsRows
    <2>1. Effective(u)' = Effective(u)
      BY SameRows DEF Untouched
    <2>2. Pending(u)' <=> Pending(u)
      BY DEF Pending, Held
    <2> QED BY <2>1, <2>2 DEF CacheFollowsRows, Exists
  <1> QED BY <1>1, <1>2, <1>4, <1>5, <1>6

LEMMA LoadUserInv ==
    ASSUME PermInv, NEW k \in Checks, NEW u \in Users, LoadUser(k, u)
    PROVE  PermInv'
  <1> DEFINE v == IF u \in super
                  THEN [NoCheck EXCEPT !.pc = "get", !.user = u, !.perms = Perms]
                  ELSE [NoCheck EXCEPT !.pc = "links", !.user = u]
  <1>1. v \in Check /\ v.user = u /\ ~v.late
    BY DEF NoCheck, Check
  <1>2. check' = [check EXCEPT ![k] = v]
    BY DEF LoadUser
  <1>3. check'[k] = v
    BY <1>2 DEF PermInv, TypeOK
  <1>4. Untouched(u)
    BY SameRows DEF LoadUser
  <1>5. Sees(k)'
    <2>1. CASE u \in super
      <3>1. v.pc = "get" /\ v.perms = Perms
        BY <2>1 DEF NoCheck
      <3>2. Effective(u)' = Perms
        BY <2>1, <1>4 DEF Untouched, Effective
      <3> QED BY <1>1, <1>3, <3>1, <3>2 DEF Sees
    <2>2. CASE u \notin super
      <3>1. v.pc = "links"
        BY <2>2 DEF NoCheck
      <3>2. u \notin super'
        BY <2>2 DEF LoadUser
      <3> HIDE DEF v
      <3> QED BY <1>1, <1>3, <3>1, <3>2 DEF Sees
    <2> QED BY <2>1, <2>2
  <1>6. state[u] # "new"
    BY DEF LoadUser
  <1> HIDE DEF v
  <1> QED BY <1>1, <1>2, <1>5, <1>6, CheckOnly DEF LoadUser

LEMMA LoadLinksInv ==
    ASSUME PermInv, NEW k \in Checks, LoadLinks(k)
    PROVE  PermInv'
  <1>0. PICK u \in Users : check[k].user = u
    BY DEF PermInv, TypeOK, ChecksSee, Sees, LoadLinks
  <1> DEFINE v == [check[k] EXCEPT !.pc = "grants", !.held = Held(u)]
  <1>1. check[k] \in Check /\ Sees(k) /\ check[k].pc = "links"
    BY DEF PermInv, TypeOK, ChecksSee, LoadLinks
  <1>2. v \in Check /\ v.user = u /\ v.pc = "grants" /\ v.held = Held(u) /\ v.late = check[k].late
    BY <1>0, <1>1 DEF Check, Held
  <1>3. check' = [check EXCEPT ![k] = v]
    BY <1>0 DEF LoadLinks
  <1>4. check'[k] = v
    BY <1>3 DEF PermInv, TypeOK
  <1>5. ~check[k].late => u \notin super
    BY <1>0, <1>1 DEF Sees
  <1>6. Untouched(u)
    BY SameRows DEF LoadLinks
  <1>7. state[u] # "new"
    BY <1>0, PermAssumption DEF PermInv, NothingOfNew
  <1> HIDE DEF v
  <1>8. Sees(k)'
    BY <1>2, <1>4, <1>5, <1>6 DEF Sees, Untouched
  <1> QED BY <1>2, <1>3, <1>7, <1>8, CheckOnly DEF LoadLinks

LEMMA LoadGrantsInv ==
    ASSUME PermInv, NEW k \in Checks, LoadGrants(k)
    PROVE  PermInv'
  <1>0. PICK u \in Users : check[k].user = u
    BY DEF PermInv, TypeOK, ChecksSee, Sees, LoadGrants
  <1> DEFINE v == [check[k] EXCEPT !.pc = "overrides", !.held = {},
                                   !.perms = Granted(check[k].held)]
  <1>1. check[k] \in Check /\ Sees(k) /\ check[k].pc = "grants"
    BY DEF PermInv, TypeOK, ChecksSee, LoadGrants
  <1>2. v \in Check /\ v.user = u /\ v.pc = "overrides" /\ v.perms = Granted(check[k].held)
          /\ v.late = check[k].late
    BY <1>0, <1>1 DEF Check, Granted
  <1>3. check' = [check EXCEPT ![k] = v]
    BY DEF LoadGrants
  <1>4. check'[k] = v
    BY <1>3 DEF PermInv, TypeOK
  <1>5. ~check[k].late => u \notin super /\ check[k].held = Held(u)
    BY <1>0, <1>1 DEF Sees
  <1>6. Untouched(u)
    BY SameRows DEF LoadGrants
  <1>7. state[u] # "new"
    BY <1>0, PermAssumption DEF PermInv, NothingOfNew
  <1> HIDE DEF v
  <1>8. Sees(k)'
    BY <1>2, <1>4, <1>5, <1>6 DEF Sees, Untouched
  <1> QED BY <1>2, <1>3, <1>7, <1>8, CheckOnly DEF LoadGrants

LEMMA LoadOverridesInv ==
    ASSUME PermInv, NEW k \in Checks, LoadOverrides(k)
    PROVE  PermInv'
  <1>0. PICK u \in Users : check[k].user = u
    BY DEF PermInv, TypeOK, ChecksSee, Sees, LoadOverrides
  <1> DEFINE v == [check[k] EXCEPT !.pc = "get", !.perms = Overridden(u, check[k].perms)]
  <1>1. check[k] \in Check /\ Sees(k) /\ check[k].pc = "overrides"
    BY DEF PermInv, TypeOK, ChecksSee, LoadOverrides
  <1>2. Overridden(u, check[k].perms) \in SUBSET Perms
    <2>1. \A o \in OverridesOf(u) : o.perm \in Perms
      BY DEF OverridesOf, Override
    <2> QED BY <1>1, <2>1 DEF Overridden, Check
  <1>3. v \in Check /\ v.user = u /\ v.pc = "get" /\ v.perms = Overridden(u, check[k].perms)
          /\ v.late = check[k].late
    BY <1>0, <1>1, <1>2 DEF Check
  <1>4. check' = [check EXCEPT ![k] = v]
    BY <1>0, <1>1 DEF LoadOverrides
  <1>5. check'[k] = v
    BY <1>4 DEF PermInv, TypeOK
  <1>6. ~check[k].late => u \notin super /\ check[k].perms = Granted(Held(u))
    BY <1>0, <1>1 DEF Sees
  <1>7. Untouched(u)
    BY SameRows DEF LoadOverrides
  <1>8. state[u] # "new"
    BY <1>0, PermAssumption DEF PermInv, NothingOfNew
  <1>9. ~check[k].late => v.perms = Effective(u)
    BY <1>3, <1>6 DEF Effective
  <1> HIDE DEF v
  <1>10. Sees(k)'
    BY <1>3, <1>5, <1>6, <1>7, <1>9 DEF Sees, Untouched
  <1> QED BY <1>3, <1>4, <1>8, <1>10, CheckOnly DEF LoadOverrides

LEMMA GetCachedInv ==
    ASSUME PermInv, NEW k \in Checks, GetCached(k)
    PROVE  PermInv'
  <1>1. check[k] \in Check /\ Sees(k) /\ check[k].pc = "get"
    BY DEF PermInv, TypeOK, ChecksSee, GetCached
  <1>2. CASE check' = [check EXCEPT ![k] = NoCheck]
    <2>1. check'[k] = NoCheck
      BY <1>2 DEF PermInv, TypeOK
    <2>2. NoCheck.pc = "idle" /\ NoCheck.user = None
      BY DEF NoCheck
    <2>3. Sees(k)'
      BY <2>1, <2>2 DEF Sees
    <2> QED BY <1>2, <2>2, <2>3, Blank, CheckOnly DEF GetCached
  <1>3. CASE check' = [check EXCEPT ![k].pc = "fill"]
    <2>0. PICK u \in Users : check[k].user = u
      BY <1>1 DEF Sees
    <2> DEFINE v == [check[k] EXCEPT !.pc = "fill"]
    <2>1. v \in Check /\ v.user = u /\ v.pc = "fill" /\ v.perms = check[k].perms
            /\ v.late = check[k].late
      BY <1>1, <2>0 DEF Check
    <2>2. check' = [check EXCEPT ![k] = v]
      BY <1>3
    <2>3. check'[k] = v
      BY <2>2 DEF PermInv, TypeOK
    <2>4. ~check[k].late => check[k].perms = Effective(u)
      BY <1>1, <2>0 DEF Sees
    <2>5. Untouched(u)
      BY SameRows DEF GetCached
    <2>6. state[u] # "new"
      BY <2>0, PermAssumption DEF PermInv, NothingOfNew
    <2> HIDE DEF v
    <2>7. Sees(k)'
      BY <2>1, <2>3, <2>4, <2>5 DEF Sees, Untouched
    <2> QED BY <2>1, <2>2, <2>6, <2>7, CheckOnly DEF GetCached
  <1> QED BY <1>2, <1>3 DEF GetCached

-----------------------------------------------------------------------------
(* Steps that write or delete an entry                                     *)

\* What a change is about to invalidate, or has failed to, stays known.
Remembered(u) == (Pending(u) \/ u \in suspect) => Pending(u)' \/ u \in suspect'

\* A step that changes no row and no check, and stores nothing.
LEMMA ChangeOnly ==
    ASSUME PermInv, TypeOK', Shaped',
           UNCHANGED <<rows, super, state, roles, check>>,
           \A u \in Users : cache'[u] = None \/ (cache'[u] = cache[u] /\ Remembered(u))
    PROVE  PermInv'
  <1>1. NothingOfNew'
    BY DEF PermInv, NothingOfNew, Held
  <1>2. ChecksSee'
    <2> SUFFICES ASSUME NEW l \in Checks PROVE Sees(l)'
      BY DEF ChecksSee
    <2>1. check'[l] = check[l] /\ Sees(l)
      BY DEF PermInv, ChecksSee
    <2>2. \A u \in Users : Untouched(u)
      BY SameRows
    <2> QED BY <2>1, <2>2, SeesOn
  <1>3. CacheFollowsRows'
    <2> SUFFICES ASSUME NEW u \in Users, Exists(u)', cache'[u] \notin {None, Empty}
                 PROVE  cache'[u] = Effective(u)' \/ u \in suspect' \/ Pending(u)'
      BY DEF CacheFollowsRows
    <2>1. Effective(u)' = Effective(u)
      BY SameRows DEF Untouched
    <2>2. cache'[u] = cache[u] /\ Remembered(u)
      OBVIOUS
    <2>3. Exists(u)
      BY DEF Exists
    <2>4. cache[u] = Effective(u) \/ u \in suspect \/ Pending(u)
      BY <2>2, <2>3 DEF PermInv, CacheFollowsRows
    <2> QED BY <2>1, <2>2, <2>4 DEF Remembered
  <1> QED BY <1>1, <1>2, <1>3 DEF PermInv

\* If only change c moves, every other pending invalidation stays pending.
LEMMA OthersPending ==
    ASSUME TypeOK, NEW c \in Changes, NEW w, change' = [change EXCEPT ![c] = w],
           rows' = rows, NEW u \in Users, Pending(u)
    PROVE  \/ Pending(u)'
           \/ change[c].pc = "find" /\ change[c].role \in Held(u)
           \/ u \in change[c].todo /\ change[c].op # "dropUser"
  <1>1. PICK d \in Changes : \/ change[d].pc = "find" /\ change[d].role \in Held(u)
                             \/ u \in change[d].todo /\ change[d].op # "dropUser"
    BY DEF Pending
  <1>2. CASE d = c
    BY <1>1, <1>2
  <1>3. CASE d # c
    <2>1. change'[d] = change[d]
      BY <1>3 DEF TypeOK
    <2>2. Held(u)' = Held(u)
      BY DEF Held
    <2> QED BY <1>1, <2>1, <2>2 DEF Pending
  <1> QED BY <1>2, <1>3

LEMMA BeginInv ==
    ASSUME PermInv, NEW c \in Changes, BeginChange(c)
    PROVE  PermInv'
  <1>1. PICK new \in Change : Shape(new) /\ Begin(c, new)
    BY BeginRecord DEF PermInv
  <1>2. TypeOK'
    BY <1>1 DEF PermInv, TypeOK, Begin
  <1>3. Shaped'
    BY <1>1 DEF PermInv, TypeOK, Shaped, Begin
  <1>4. \A u \in Users : cache'[u] = cache[u] /\ Remembered(u)
    <2> TAKE u \in Users
    <2>1. change[c].pc = "idle" /\ change[c].todo = {}
      BY <1>1 DEF Begin, NoChange
    <2>2. TypeOK /\ rows' = rows /\ change' = [change EXCEPT ![c] = new]
      BY <1>1 DEF PermInv, Begin
    <2>3. Pending(u) => Pending(u)'
      BY <2>1, <2>2, OthersPending
    <2> QED BY <1>1, <2>3 DEF Begin, Remembered
  <1> QED BY <1>1, <1>2, <1>3, <1>4, ChangeOnly DEF Begin

LEMMA FindUsersInv ==
    ASSUME PermInv, NEW c \in Changes, FindUsers(c)
    PROVE  PermInv'
  <1> DEFINE w == [change[c] EXCEPT !.pc = "invalidate", !.todo = Affected(c)]
  <1>1. change[c] \in Change /\ Shape(change[c]) /\ change[c].pc = "find"
    BY DEF PermInv, TypeOK, Shaped, FindUsers
  <1>2. change[c].op = "grants"
    BY <1>1 DEF Shape
  <1>3. Affected(c) = {u \in Users : change[c].role \in Held(u)}
    BY <1>2 DEF Affected
  <1>4. /\ w \in Change /\ w.todo = Affected(c) /\ w.pc = "invalidate"
        /\ w.op = change[c].op /\ w.user = change[c].user /\ w.role = change[c].role
        /\ w.add = change[c].add /\ w.drop = change[c].drop
    BY <1>1, <1>3 DEF Change
  <1>5. change' = [change EXCEPT ![c] = w]
    BY DEF FindUsers
  <1>6. change'[c] = w
    BY <1>5 DEF PermInv, TypeOK
  <1> HIDE DEF w
  <1>7. Shape(w)
    BY <1>1, <1>2, <1>4 DEF Shape, Own
  <1>8. TypeOK' /\ Shaped'
    BY <1>4, <1>5, <1>7 DEF PermInv, TypeOK, Shaped, FindUsers
  <1>9. \A u \in Users : cache'[u] = cache[u] /\ Remembered(u)
    <2> TAKE u \in Users
    <2>1. Pending(u) /\ change[c].role \in Held(u) => Pending(u)'
      BY <1>2, <1>3, <1>4, <1>6 DEF Pending
    <2>2. change[c].todo = {}
      BY <1>1 DEF Shape
    <2>3. TypeOK /\ rows' = rows
      BY DEF PermInv, FindUsers
    <2>4. Pending(u) => Pending(u)'
      BY <1>5, <2>1, <2>2, <2>3, OthersPending
    <2> QED BY <2>4 DEF FindUsers, Remembered
  <1> QED BY <1>8, <1>9, ChangeOnly DEF FindUsers

LEMMA InvalidateInv ==
    ASSUME PermInv, NEW c \in Changes, NEW v \in Users, Invalidate(c, v)
    PROVE  PermInv'
  <1> DEFINE w == [change[c] EXCEPT !.todo = @ \ {v}]
  <1>1. change[c] \in Change /\ Shape(change[c]) /\ change[c].pc = "invalidate"
    BY DEF PermInv, TypeOK, Shaped, Invalidate
  <1>2. /\ w \in Change /\ w.todo = change[c].todo \ {v} /\ w.pc = "invalidate"
        /\ w.op = change[c].op /\ w.user = change[c].user /\ w.role = change[c].role
        /\ w.add = change[c].add /\ w.drop = change[c].drop
    BY <1>1 DEF Change
  <1>3. change' = [change EXCEPT ![c] = w]
    BY DEF Invalidate
  <1>4. change'[c] = w
    BY <1>3 DEF PermInv, TypeOK
  <1> HIDE DEF w
  <1>5. Shape(w)
    BY <1>1, <1>2 DEF Shape, Own
  <1>6. /\ cache' \in [Users -> {None, Empty} \cup ((SUBSET Perms) \ {{}})]
        /\ suspect' \subseteq Users
    BY DEF PermInv, TypeOK, Invalidate
  <1>7. TypeOK' /\ Shaped'
    BY <1>2, <1>3, <1>5, <1>6 DEF PermInv, TypeOK, Shaped, Invalidate
  <1>8. \A u \in Users : cache'[u] = None \/ (cache'[u] = cache[u] /\ Remembered(u))
    <2> TAKE u \in Users
    <2>1. CASE u = v
      BY <2>1 DEF PermInv, TypeOK, Invalidate, Remembered
    <2>2. CASE u # v
      <3>1. cache'[u] = cache[u] /\ (u \in suspect => u \in suspect')
        BY <2>2 DEF PermInv, TypeOK, Invalidate
      <3>2. u \in change[c].todo /\ change[c].op # "dropUser" => Pending(u)'
        BY <1>2, <1>4, <2>2 DEF Pending
      <3>3. Pending(u) => Pending(u)'
        BY <1>1, <1>3, <3>2, OthersPending DEF PermInv, Invalidate
      <3> QED BY <3>1, <3>3 DEF Remembered
    <2> QED BY <2>1, <2>2
  <1> QED BY <1>7, <1>8, ChangeOnly DEF Invalidate

LEMMA InvalidatedInv ==
    ASSUME PermInv, NEW c \in Changes, Invalidated(c)
    PROVE  PermInv'
  <1> DEFINE w == IF change[c].op = "dropUser" THEN [change[c] EXCEPT !.pc = "commit"]
                  ELSE NoChange
  <1>1. change[c] \in Change /\ Shape(change[c]) /\ change[c].pc = "invalidate"
          /\ change[c].todo = {}
    BY DEF PermInv, TypeOK, Shaped, Invalidated
  <1>2. w \in Change /\ Shape(w)
    <2>1. CASE change[c].op = "dropUser"
      <3>1. w = [change[c] EXCEPT !.pc = "commit"]
        BY <2>1
      <3>2. /\ w \in Change /\ w.todo = {} /\ w.pc = "commit" /\ w.op = "dropUser"
            /\ w.user = change[c].user /\ w.add = change[c].add /\ w.drop = change[c].drop
        BY <1>1, <2>1, <3>1 DEF Change
      <3> HIDE DEF w
      <3> QED BY <1>1, <2>1, <3>2 DEF Shape, Own
    <2>2. CASE change[c].op # "dropUser"
      BY <2>2, Blank
    <2> QED BY <2>1, <2>2
  <1>3. change' = [change EXCEPT ![c] = w]
    BY DEF Invalidated
  <1> HIDE DEF w
  <1>4. TypeOK' /\ Shaped'
    BY <1>2, <1>3 DEF PermInv, TypeOK, Shaped, Invalidated
  <1>5. \A u \in Users : cache'[u] = cache[u] /\ Remembered(u)
    <2> TAKE u \in Users
    <2>1. Pending(u) => Pending(u)'
      BY <1>1, <1>3, OthersPending DEF PermInv, Invalidated
    <2> QED BY <2>1 DEF Invalidated, Remembered
  <1> QED BY <1>4, <1>5, ChangeOnly DEF Invalidated

LEMMA FailInv ==
    ASSUME PermInv, NEW c \in Changes, Fail(c)
    PROVE  PermInv'
  <1>1. Shape(change[c])
    BY DEF PermInv, Shaped
  <1>2. Affected(c) \subseteq Users /\ change[c].todo \subseteq Users
    BY DEF PermInv, TypeOK, Change, Affected
  <1>3. suspect' \subseteq Users /\ suspect \subseteq suspect'
    BY <1>2 DEF PermInv, TypeOK, Fail
  <1>4. TypeOK' /\ Shaped'
    BY <1>3, Blank DEF PermInv, TypeOK, Shaped, Fail
  <1>5. \A u \in Users : cache'[u] = cache[u] /\ Remembered(u)
    <2> TAKE u \in Users
    <2>1. change[c].pc = "find" /\ change[c].role \in Held(u) => u \in suspect'
      BY <1>1 DEF Fail, Affected, Shape
    <2>2. u \in change[c].todo => u \in suspect'
      BY <1>1 DEF Fail, Shape
    <2>3. Pending(u) => Pending(u)' \/ u \in suspect'
      BY <2>1, <2>2, OthersPending DEF PermInv, Fail
    <2> QED BY <1>3, <2>3 DEF Fail, Remembered
  <1> QED BY <1>4, <1>5, ChangeOnly DEF Fail

LEMMA ExpireInv ==
    ASSUME PermInv, NEW v \in Users, Expire(v)
    PROVE  PermInv'
  <1>1. TypeOK' /\ Shaped'
    BY DEF PermInv, TypeOK, Shaped, Expire
  <1>2. \A u \in Users : cache'[u] = None \/ (cache'[u] = cache[u] /\ Remembered(u))
    <2> TAKE u \in Users
    <2>1. CASE u = v
      BY <2>1 DEF PermInv, TypeOK, Expire
    <2>2. CASE u # v
      <3>1. cache'[u] = cache[u] /\ (u \in suspect => u \in suspect')
        BY <2>2 DEF PermInv, TypeOK, Expire
      <3>2. Pending(u)' <=> Pending(u)
        BY DEF Expire, Pending, Held
      <3> QED BY <3>1, <3>2 DEF Remembered
    <2> QED BY <2>1, <2>2
  <1> QED BY <1>1, <1>2, ChangeOnly DEF Expire

LEMMA StoredType ==
    ASSUME NEW v \in {None, Empty} \cup ((SUBSET Perms) \ {{}}), NEW P \in SUBSET Perms
    PROVE  Stored(v, P) \in {None, Empty} \cup ((SUBSET Perms) \ {{}})
  BY PermAssumption DEF Stored

\* What a check adds to an entry that follows the rows follows them too.
LEMMA StoredFollows ==
    ASSUME NEW v \in {None, Empty} \cup ((SUBSET Perms) \ {{}}), NEW P \in SUBSET Perms,
           Stored(v, P) \notin {None, Empty}
    PROVE  \/ Stored(v, P) = P
           \/ v \notin {None, Empty} /\ (v = P => Stored(v, P) = v)
  BY DEF Stored

LEMMA FillInv ==
    ASSUME PermInv, NEW k \in Checks, Fill(k)
    PROVE  PermInv'
  <1>1. check[k] \in Check /\ Sees(k) /\ check[k].pc = "fill"
    BY DEF PermInv, TypeOK, ChecksSee, Fill
  <1>2. PICK v \in Users : check[k].user = v
    BY <1>1 DEF Sees
  <1>3. check' = [check EXCEPT ![k] = NoCheck] /\ check'[k] = NoCheck
    BY DEF PermInv, TypeOK, Fill
  <1>4. CASE UNCHANGED <<cache, suspect>>
    <2>1. NoCheck.pc = "idle" /\ NoCheck.user = None
      BY DEF NoCheck
    <2>2. Sees(k)'
      BY <1>3, <2>1 DEF Sees
    <2> QED BY <1>3, <1>4, <2>1, <2>2, Blank, CheckOnly DEF Fill
  <1>5. CASE /\ cache' = [cache EXCEPT ![v] = Stored(@, check[k].perms)]
             /\ suspect' = IF check[k].late THEN suspect \cup {v} ELSE suspect
    <2> DEFINE P == check[k].perms
    <2>1. P \in SUBSET Perms /\ cache[v] \in {None, Empty} \cup ((SUBSET Perms) \ {{}})
      BY <1>1 DEF Check, PermInv, TypeOK
    <2>2. ~check[k].late => P = Effective(v)
      BY <1>1, <1>2 DEF Sees
    <2>3. /\ cache'[v] = Stored(cache[v], P)
          /\ \A u \in Users \ {v} : cache'[u] = cache[u]
      BY <1>5 DEF PermInv, TypeOK
    <2>4. TypeOK'
      <3>1. cache' \in [Users -> {None, Empty} \cup ((SUBSET Perms) \ {{}})]
        BY <1>5, <2>1, StoredType DEF PermInv, TypeOK
      <3> QED BY <1>3, <1>5, <3>1, Blank DEF PermInv, TypeOK, Fill
    <2>5. Shaped'
      BY DEF PermInv, Shaped, Fill
    <2>6. NothingOfNew'
      <3>1. \A u \in Users : state'[u] = "new" => cache'[u] = None
        BY <1>2, <2>3, PermAssumption DEF PermInv, NothingOfNew, Fill
      <3>2. \A l \in Checks : check'[l].user # None => state'[check'[l].user] # "new"
        <4>1. NoCheck.user = None
          BY DEF NoCheck
        <4> QED BY <1>3, <4>1 DEF PermInv, TypeOK, NothingOfNew, Fill
      <3>3. \A u \in Users, r \in Roles : (r \in Held(u))' => roles'[r] # "new"
        BY DEF PermInv, NothingOfNew, Held, Fill
      <3> QED BY <3>1, <3>2, <3>3 DEF NothingOfNew
    <2>7. \A u \in Users : Untouched(u)
      BY SameRows DEF Fill
    <2>8. ChecksSee'
      <3> SUFFICES ASSUME NEW l \in Checks PROVE Sees(l)'
        BY DEF ChecksSee
      <3>1. CASE l = k
        BY <1>3, <3>1 DEF Sees, NoCheck
      <3>2. CASE l # k
        <4>1. check'[l] = check[l] /\ Sees(l)
          BY <1>3, <3>2 DEF PermInv, TypeOK, ChecksSee
        <4> QED BY <4>1, <2>7, SeesOn
      <3> QED BY <3>1, <3>2
    <2>9. CacheFollowsRows'
      <3> SUFFICES ASSUME NEW u \in Users, Exists(u)', cache'[u] \notin {None, Empty}
                   PROVE  cache'[u] = Effective(u)' \/ u \in suspect' \/ Pending(u)'
        BY DEF CacheFollowsRows
      <3>1. Effective(u)' = Effective(u)
        BY <2>7 DEF Untouched
      <3>2. /\ Pending(u) => Pending(u)'
            /\ Exists(u)
            /\ u \in suspect => u \in suspect'
        BY <1>5 DEF Pending, Held, Exists, Fill
      <3>3. cache[u] \notin {None, Empty} =>
              cache[u] = Effective(u) \/ u \in suspect \/ Pending(u)
        BY <3>2 DEF PermInv, CacheFollowsRows
      <3>4. CASE u # v
        BY <2>3, <3>1, <3>2, <3>3, <3>4
      <3>5. CASE u = v /\ check[k].late
        BY <1>5, <3>5
      <3>6. CASE u = v /\ ~check[k].late
        <4>1. \/ cache'[u] = P
              \/ cache[u] \notin {None, Empty} /\ (cache[u] = P => cache'[u] = cache[u])
          BY <2>1, <2>3, <3>6, StoredFollows
        <4> QED BY <2>2, <3>1, <3>2, <3>3, <3>6, <4>1
      <3> QED BY <3>4, <3>5, <3>6
    <2> QED BY <2>4, <2>5, <2>6, <2>8, <2>9 DEF PermInv
  <1> QED BY <1>2, <1>4, <1>5 DEF Fill

-----------------------------------------------------------------------------
(* Steps that change rows                                                  *)

\* Rows of different tables are different.
LEMMA Tables ==
    /\ \A x \in Link, y \in Grant : x # y
    /\ \A x \in Link, y \in Override : x # y
    /\ \A x \in Grant, y \in Override : x # y
  BY DEF Link, Grant, Override

\* A step of which no operator with an entry or a check can tell anything.
LEMMA NobodyTouched ==
    ASSUME PermInv, TypeOK', UNCHANGED <<cache, check, change, suspect>>,
           \A u \in Users : state[u] # "new" => Untouched(u) /\ Exists(u)' = Exists(u)
    PROVE  ChecksSee' /\ CacheFollowsRows'
  <1>1. ChecksSee'
    <2> SUFFICES ASSUME NEW l \in Checks PROVE Sees(l)'
      BY DEF ChecksSee
    <2>1. check'[l] = check[l] /\ Sees(l)
      BY DEF PermInv, ChecksSee
    <2>2. \A u \in Users : check[l].user = u => Untouched(u)
      BY PermAssumption DEF PermInv, NothingOfNew
    <2> QED BY <2>1, <2>2, SeesOn
  <1>2. CacheFollowsRows'
    <2> SUFFICES ASSUME NEW u \in Users, Exists(u)', cache'[u] \notin {None, Empty}
                 PROVE  cache'[u] = Effective(u)' \/ u \in suspect' \/ Pending(u)'
      BY DEF CacheFollowsRows
    <2>1. Untouched(u) /\ Exists(u)
      BY DEF PermInv, NothingOfNew
    <2>2. Pending(u) => Pending(u)'
      BY <2>1 DEF Pending, Untouched
    <2> QED BY <2>1, <2>2 DEF PermInv, CacheFollowsRows, Untouched
  <1> QED BY <1>1, <1>2

LEMMA CreateUserInv ==
    ASSUME PermInv, NEW v \in Users, NEW R \in SUBSET Roles, NEW flag \in BOOLEAN,
           CreateUser(v, R, flag)
    PROVE  PermInv'
  <1> DEFINE A == {[user |-> v, role |-> r] : r \in R}
  <1>1. \A x \in A : x \in Link /\ x.user = v /\ x.role \in R
    <2>1. \A r \in R : LET x == [user |-> v, role |-> r] IN x \in Link /\ x.user = v /\ x.role \in R
      BY DEF Link
    <2> QED BY <2>1
  <1>2. rows' = rows \cup A
    BY DEF CreateUser
  <1>3. state[v] = "new" /\ state' = [state EXCEPT ![v] = "active"]
    BY DEF CreateUser
  <1> HIDE DEF A
  <1>4. TypeOK'
    BY <1>1, <1>2, <1>3 DEF PermInv, TypeOK, CreateUser, Row
  <1>5. Shaped'
    BY DEF PermInv, Shaped, CreateUser
  <1>6. \A u \in Users : state[u] # "new" => Untouched(u) /\ Exists(u)' = Exists(u)
    <2> SUFFICES ASSUME NEW u \in Users, state[u] # "new"
                 PROVE  Untouched(u) /\ Exists(u)' = Exists(u)
      OBVIOUS
    <2>1. u # v
      BY <1>3
    <2>2. \A r \in Roles : [user |-> u, role |-> r] \in rows' <=> [user |-> u, role |-> r] \in rows
      BY <1>1, <1>2, <2>1
    <2>3. \A r \in Held(u), p \in Perms : [role |-> r, perm |-> p] \in Grant
      BY DEF Held, Grant
    <2>4. \A r \in Held(u), p \in Perms :
            [role |-> r, perm |-> p] \in rows' <=> [role |-> r, perm |-> p] \in rows
      BY <1>1, <1>2, <2>3, Tables
    <2>5. OverridesOf(u)' = OverridesOf(u)
      BY <1>1, <1>2, Tables DEF OverridesOf
    <2>6. u \in super' <=> u \in super
      BY <2>1 DEF CreateUser
    <2>7. state'[u] = state[u]
      BY <1>3, <2>1 DEF PermInv, TypeOK
    <2> QED BY <2>2, <2>4, <2>5, <2>6, <2>7, OtherRows DEF Exists
  <1>7. NothingOfNew'
    <2>1. \A u \in Users : state'[u] = "new" => cache'[u] = None
      BY <1>3 DEF PermInv, TypeOK, NothingOfNew, CreateUser
    <2>2. \A k \in Checks : check'[k].user # None => state'[check'[k].user] # "new"
      <3> SUFFICES ASSUME NEW k \in Checks, check[k].user # None
                   PROVE  state'[check[k].user] # "new"
        BY DEF CreateUser
      <3>1. check[k].user \in Users /\ state[check[k].user] # "new"
        BY DEF PermInv, TypeOK, Check, NothingOfNew
      <3> QED BY <1>3, <3>1 DEF PermInv, TypeOK
    <2>3. ASSUME NEW u \in Users, NEW r \in Roles, r \in Held(u)'
          PROVE  roles'[r] # "new"
      <3>1. [user |-> u, role |-> r] \in rows \cup A
        BY <1>2, <2>3 DEF Held
      <3>2. CASE [user |-> u, role |-> r] \in rows
        BY <3>2 DEF PermInv, NothingOfNew, Held, CreateUser
      <3>3. CASE [user |-> u, role |-> r] \in A
        BY <1>1, <3>3 DEF CreateUser
      <3> QED BY <3>1, <3>2, <3>3
    <2> QED BY <2>1, <2>2, <2>3 DEF NothingOfNew
  <1>8. ChecksSee' /\ CacheFollowsRows'
    BY <1>4, <1>6, NobodyTouched DEF CreateUser
  <1> QED BY <1>4, <1>5, <1>7, <1>8 DEF PermInv

LEMMA CreateRoleInv ==
    ASSUME PermInv, NEW q \in Roles, NEW P \in SUBSET Perms, CreateRole(q, P)
    PROVE  PermInv'
  <1> DEFINE A == {[role |-> q, perm |-> p] : p \in P}
  <1>1. \A x \in A : x \in Grant /\ x.role = q
    <2>1. \A p \in P : LET x == [role |-> q, perm |-> p] IN x \in Grant /\ x.role = q
      BY DEF Grant
    <2> QED BY <2>1
  <1>2. rows' = rows \cup A
    BY DEF CreateRole
  <1>3. roles[q] = "new" /\ roles' = [roles EXCEPT ![q] = "there"]
    BY DEF CreateRole
  <1> HIDE DEF A
  <1>4. TypeOK'
    BY <1>1, <1>2, <1>3 DEF PermInv, TypeOK, CreateRole, Row
  <1>5. Shaped'
    BY DEF PermInv, Shaped, CreateRole
  <1>6. \A u \in Users : Held(u)' = Held(u) /\ Untouched(u) /\ Exists(u)' = Exists(u)
    <2> TAKE u \in Users
    <2>1. \A r \in Roles : [user |-> u, role |-> r] \in Link
      BY DEF Link
    <2>2. \A r \in Roles : [user |-> u, role |-> r] \in rows' <=> [user |-> u, role |-> r] \in rows
      BY <1>1, <1>2, <2>1, Tables
    <2>3. q \notin Held(u)
      BY <1>3 DEF PermInv, NothingOfNew
    <2>4. \A r \in Held(u), p \in Perms :
            [role |-> r, perm |-> p] \in rows' <=> [role |-> r, perm |-> p] \in rows
      BY <1>1, <1>2, <2>3
    <2>5. OverridesOf(u)' = OverridesOf(u)
      BY <1>1, <1>2, Tables DEF OverridesOf
    <2>6. (u \in super' <=> u \in super) /\ state' = state
      BY DEF CreateRole
    <2> QED BY <2>2, <2>4, <2>5, <2>6, OtherRows DEF Exists, Untouched
  <1>7. NothingOfNew'
    BY <1>3, <1>6 DEF PermInv, TypeOK, NothingOfNew, CreateRole
  <1>8. ChecksSee' /\ CacheFollowsRows'
    BY <1>4, <1>6, NobodyTouched DEF CreateRole
  <1> QED BY <1>4, <1>5, <1>7, <1>8 DEF PermInv

-----------------------------------------------------------------------------
(* A commit                                                                *)

\* The rows a change writes are of the operators it affects.
LEMMA OwnRows ==
    ASSUME PermInv, NEW c \in Changes, NEW u \in Users \ Affected(c),
           NEW x \in change[c].add \cup change[c].drop
    PROVE  /\ \A r \in Roles : x # [user |-> u, role |-> r]
           /\ \A r \in Held(u), p \in Perms : x # [role |-> r, perm |-> p]
           /\ ~(x \in Override /\ x.user = u)
  <1>1. Own(change[c], x) /\ Shape(change[c])
    BY DEF PermInv, Shaped, Shape
  <1>2. \A r \in Roles : [user |-> u, role |-> r] \in Link
    BY DEF Link
  <1>3. \A r \in Held(u), p \in Perms : [role |-> r, perm |-> p] \in Grant
    BY DEF Held, Grant
  <1>4. CASE change[c].op = "roles"
    <2>1. x \in Link /\ x.user = change[c].user
      BY <1>1, <1>4 DEF Own
    <2>2. u # change[c].user
      BY <1>4 DEF Affected
    <2> QED BY <1>3, <2>1, <2>2, Tables
  <1>5. CASE change[c].op \in {"direct", "edit"}
    <2>1. x \in Override /\ x.user = change[c].user
      BY <1>1, <1>5 DEF Own
    <2>2. u # change[c].user
      BY <1>5 DEF Affected
    <2> QED BY <1>2, <1>3, <2>1, <2>2, Tables
  <1>6. CASE change[c].op = "grants"
    <2>1. x \in Grant /\ x.role = change[c].role
      BY <1>1, <1>6 DEF Own
    <2>2. change[c].role \notin Held(u)
      BY <1>6 DEF Affected
    <2>3. \A r \in Held(u), p \in Perms : x # [role |-> r, perm |-> p]
      BY <2>1, <2>2
    <2> QED BY <1>2, <2>1, <2>3, Tables
  <1> QED BY <1>1, <1>4, <1>5, <1>6 DEF Own

LEMMA CommitUntouched ==
    ASSUME PermInv, NEW c \in Changes, Commit(c), NEW u \in Users \ Affected(c)
    PROVE  Untouched(u)
  <1> DEFINE w == change[c]
  <1>1. rows' = (rows \ w.drop) \cup w.add
    BY DEF Commit
  <1>2. \A r \in Roles : [user |-> u, role |-> r] \in rows' <=> [user |-> u, role |-> r] \in rows
    BY <1>1, OwnRows
  <1>3. \A r \in Held(u), p \in Perms :
          [role |-> r, perm |-> p] \in rows' <=> [role |-> r, perm |-> p] \in rows
    BY <1>1, OwnRows
  <1>4. OverridesOf(u)' = OverridesOf(u)
    <2>1. OverridesOf(u) = {o \in rows : o \in Override /\ o.user = u}
      BY DEF OverridesOf
    <2>2. OverridesOf(u)' = {o \in rows' : o \in Override /\ o.user = u}
      BY DEF OverridesOf
    <2>3. \A o : o \in Override /\ o.user = u => (o \in rows' <=> o \in rows)
      BY <1>1, OwnRows
    <2> QED BY <2>1, <2>2, <2>3
  <1>5. u \in super' <=> u \in super
    BY DEF Commit, Affected
  <1> QED BY <1>2, <1>3, <1>4, <1>5, OtherRows

\* The changes after a commit of c.
LEMMA CommitChange ==
    ASSUME PermInv, NEW c \in Changes, Commit(c)
    PROVE  \A d \in Changes :
             /\ change'[d] \in Change /\ Shape(change'[d])
             /\ d # c => /\ change'[d].pc = change[d].pc /\ change'[d].op = change[d].op
                         /\ change'[d].role = change[d].role /\ change'[d].todo = change[d].todo
  <1> DEFINE w == change[c]
  <1>1. w \in Change /\ Shape(w) /\ w.pc = "commit"
    BY DEF PermInv, TypeOK, Shaped, Commit
  <1>2. SUFFICES ASSUME NEW d \in Changes
                 PROVE  /\ change'[d] \in Change /\ Shape(change'[d])
                        /\ d # c => /\ change'[d].pc = change[d].pc /\ change'[d].op = change[d].op
                                    /\ change'[d].role = change[d].role
                                    /\ change'[d].todo = change[d].todo
    OBVIOUS
  <1>3. CASE d = c
    <2>1. change'[c] = AfterCommit(w)
      BY DEF Commit
    <2>2. CASE w.op = "grants"
      <3>1. AfterCommit(w) = [NoChange EXCEPT !.op = "grants", !.pc = "find", !.role = w.role]
        BY <2>2 DEF AfterCommit
      <3>2. w.role \in Roles
        BY <1>1, <2>2 DEF Shape
      <3>3. AfterCommit(w) \in Change
        BY <3>1, <3>2 DEF NoChange, Change
      <3>4. Shape(AfterCommit(w))
        BY <3>1, <3>2 DEF NoChange, Shape, UserOps
      <3> QED BY <1>3, <2>1, <3>3, <3>4
    <2>3. CASE w.op \in {"dropUser", "dropRole"}
      BY <1>3, <2>1, <2>3, Blank DEF AfterCommit
    <2>4. CASE w.op \notin {"grants", "dropUser", "dropRole"}
      <3>1. AfterCommit(w) = [NoChange EXCEPT !.op = w.op, !.pc = "invalidate", !.user = w.user,
                                              !.todo = {w.user}]
        BY <2>4 DEF AfterCommit
      <3>2. w.op \in UserOps
        BY <1>1, <2>4 DEF Shape, Change, UserOps
      <3>3. w.user \in Users
        BY <1>1, <3>2 DEF Shape
      <3>4. AfterCommit(w) \in Change
        <4> DEFINE D == {w.user}
        <4>1. D \in SUBSET Users
          BY <3>3
        <4>2. AfterCommit(w) = [NoChange EXCEPT !.op = w.op, !.pc = "invalidate",
                                                !.user = w.user, !.todo = D]
          BY <3>1
        <4> HIDE DEF D
        <4> QED BY <3>2, <3>3, <4>1, <4>2 DEF NoChange, Change, UserOps
      <3>5. Shape(AfterCommit(w))
        BY <2>4, <3>1, <3>3 DEF NoChange, Shape, UserOps
      <3> QED BY <1>3, <2>1, <3>4, <3>5
    <2> QED BY <2>2, <2>3, <2>4
  <1>4. CASE d # c
    <2> DEFINE D == Remaining(change[d], w)
               v == [change[d] EXCEPT !.drop = D]
    <2>1. change[d] \in Change /\ Shape(change[d])
      BY DEF PermInv, TypeOK, Shaped
    <2>2. change'[d] = v
      BY <1>4 DEF Commit
    <2>3. D \subseteq change[d].drop \cup w.add
      BY DEF Remaining
    <2>4. \A x \in D : Own(change[d], x)
      <3> SUFFICES ASSUME NEW x \in D PROVE Own(change[d], x)
        OBVIOUS
      <3>1. CASE x \in change[d].drop
        BY <2>1, <3>1 DEF Shape
      <3>2. CASE x \notin change[d].drop
        <4>1. w.op = "edit" /\ (w.drop \cup w.add) \cap change[d].drop # {} /\ x \in w.add
          BY <3>2 DEF Remaining
        <4>2. PICK y \in w.drop \cup w.add : y \in change[d].drop
          BY <4>1
        <4>3. y \in Override /\ y.user = w.user /\ x \in Override /\ x.user = w.user
          BY <1>1, <4>1 DEF Shape, Own
        <4>4. Own(change[d], y)
          BY <2>1, <4>2 DEF Shape
        <4>5. change[d].op \in {"direct", "edit"} /\ y.user = change[d].user
          BY <4>3, <4>4, Tables DEF Own
        <4> QED BY <4>3, <4>5 DEF Own
      <3> QED BY <3>1, <3>2
    <2>5. D \in SUBSET Row
      BY <1>1, <2>1, <2>3 DEF Change
    <2> HIDE DEF D
    <2>6. /\ v \in Change /\ v.drop = D /\ v.add = change[d].add /\ v.op = change[d].op
          /\ v.pc = change[d].pc /\ v.user = change[d].user /\ v.role = change[d].role
          /\ v.todo = change[d].todo
      BY <2>1, <2>5 DEF Change
    <2> HIDE DEF v
    <2>7. Shape(v)
      BY <2>1, <2>4, <2>6 DEF Shape, Own
    <2> QED BY <1>4, <2>2, <2>6, <2>7
  <1> QED BY <1>3, <1>4

\* An operator whom the change affects is about to be invalidated.
LEMMA AffectedPending ==
    ASSUME PermInv, NEW c \in Changes, Commit(c), NEW u \in Affected(c), Exists(u)'
    PROVE  Pending(u)'
  <1> DEFINE w == change[c]
  <1>1. w \in Change /\ Shape(w) /\ w.pc = "commit"
    BY DEF PermInv, TypeOK, Shaped, Commit
  <1>2. change'[c] = AfterCommit(w) /\ rows' = (rows \ w.drop) \cup w.add
    BY DEF Commit
  <1>3. u \in Users
    BY DEF Affected
  <1>4. CASE w.op = "grants"
    <2>1. u \in Users /\ w.role \in Held(u)
      BY <1>4 DEF Affected
    <2>2. w.role \in Roles /\ [user |-> u, role |-> w.role] \in rows
      BY <2>1 DEF Held
    <2>3. [user |-> u, role |-> w.role] \in Link
      BY <2>1, <2>2 DEF Link
    <2>4. \A x \in w.drop : x \in Grant
      BY <1>1, <1>4 DEF Shape, Own
    <2>5. [user |-> u, role |-> w.role] \in rows'
      BY <1>2, <2>2, <2>3, <2>4, Tables
    <2>6. w.role \in Held(u)'
      BY <2>2, <2>5 DEF Held
    <2>7. change'[c].pc = "find" /\ change'[c].role = w.role
      BY <1>2, <1>4 DEF AfterCommit, NoChange
    <2> QED BY <2>6, <2>7 DEF Pending
  <1>5. CASE w.op = "dropUser"
    <2>1. u = w.user
      BY <1>5 DEF Affected
    <2>2. state'[u] = "gone"
      BY <1>3, <1>5, <2>1 DEF PermInv, TypeOK, Commit
    <2> QED BY <2>2 DEF Exists
  <1>6. CASE w.op = "dropRole"
    BY <1>1, <1>3, <1>6, PermAssumption DEF Affected, Shape
  <1>7. CASE w.op \notin {"grants", "dropUser", "dropRole"}
    <2>1. u = w.user
      BY <1>7 DEF Affected
    <2>2. change'[c].todo = {w.user} /\ change'[c].op = w.op
      BY <1>2, <1>7 DEF AfterCommit, NoChange
    <2> QED BY <1>7, <2>1, <2>2 DEF Pending
  <1> QED BY <1>4, <1>5, <1>6, <1>7

LEMMA CommitInv ==
    ASSUME PermInv, NEW c \in Changes, Commit(c)
    PROVE  PermInv'
  <1> DEFINE w == change[c]
             Late(k) == [check[k] EXCEPT !.late = TRUE]
  <1>1. w \in Change /\ Shape(w) /\ w.pc = "commit"
    BY DEF PermInv, TypeOK, Shaped, Commit
  <1>2. \A k \in Checks :
          /\ Late(k) \in Check /\ Late(k).late
          /\ Late(k).pc = check[k].pc /\ Late(k).user = check[k].user
    BY DEF PermInv, TypeOK, Check
  <1>3. \A k \in Checks : check'[k] = IF check[k].user \in Affected(c) THEN Late(k) ELSE check[k]
    BY DEF Commit
  <1> HIDE DEF Late
  <1>4. \A u \in Users : /\ state'[u] = "new" => state[u] = "new"
                         /\ Exists(u)' => Exists(u)
    <2> TAKE u \in Users
    <2>1. w.op = "active" => Exists(w.user)
      BY <1>1, PermAssumption DEF Commit, Allowed, Shape, UserOps
    <2>2. state[u] = "new" => ~Exists(u)
      BY DEF Exists
    <2>3. state'[u] = state[u] \/ (w.op = "active" /\ u = w.user /\ state'[u] # "new")
            \/ state'[u] = "gone"
      BY DEF PermInv, TypeOK, Commit
    <2> QED BY <2>1, <2>2, <2>3 DEF Exists
  <1>5. TypeOK'
    <2>1. rows' \subseteq Row
      BY <1>1 DEF PermInv, TypeOK, Commit, Change
    <2>2. super' \subseteq Users
      BY <1>1 DEF PermInv, TypeOK, Commit, Shape, UserOps
    <2>3. state' \in [Users -> {"new", "active", "inactive", "gone"}]
      BY DEF PermInv, TypeOK, Commit
    <2>4. roles' \in [Roles -> {"new", "there", "gone"}]
      BY DEF PermInv, TypeOK, Commit
    <2>5. check' \in [Checks -> Check]
      <3>1. check' = [k \in Checks |-> check'[k]]
        BY DEF Commit
      <3>2. \A k \in Checks : check'[k] \in Check
        BY <1>2, <1>3 DEF PermInv, TypeOK
      <3> QED BY <3>1, <3>2
    <2>6. change' \in [Changes -> Change]
      <3>1. change' = [d \in Changes |-> change'[d]]
        BY DEF Commit
      <3> QED BY <3>1, CommitChange
    <2>7. UNCHANGED <<cache, suspect>>
      BY DEF Commit
    <2> QED BY <2>1, <2>2, <2>3, <2>4, <2>5, <2>6, <2>7 DEF PermInv, TypeOK
  <1>6. Shaped'
    BY CommitChange DEF Shaped
  <1>7. NothingOfNew'
    <2>1. \A u \in Users : state'[u] = "new" => cache'[u] = None
      BY <1>4 DEF PermInv, NothingOfNew, Commit
    <2>2. \A k \in Checks : check'[k].user # None => state'[check'[k].user] # "new"
      <3> SUFFICES ASSUME NEW k \in Checks, check[k].user # None
                   PROVE  state'[check[k].user] # "new"
        BY <1>2, <1>3
      <3>1. check[k].user \in Users /\ state[check[k].user] # "new"
        BY DEF PermInv, TypeOK, Check, NothingOfNew
      <3> QED BY <1>4, <3>1
    <2>3. ASSUME NEW u \in Users, NEW r \in Roles, r \in Held(u)'
          PROVE  roles'[r] # "new"
      <3> DEFINE x == [user |-> u, role |-> r]
      <3>1. x \in Link /\ x.role = r
        BY DEF Link
      <3>2. x \in rows \/ x \in w.add
        BY <2>3 DEF Held, Commit
      <3>3. CASE x \in rows
        BY <3>3 DEF PermInv, TypeOK, NothingOfNew, Held, Commit
      <3>4. CASE x \in w.add
        <4>1. roles[r] = "there"
          BY <3>1, <3>4 DEF Commit, Allowed, Referable
        <4> QED BY <4>1 DEF PermInv, TypeOK, Commit
      <3> QED BY <3>2, <3>3, <3>4
    <2> QED BY <2>1, <2>2, <2>3 DEF NothingOfNew
  <1>8. ChecksSee'
    <2> SUFFICES ASSUME NEW k \in Checks PROVE Sees(k)'
      BY DEF ChecksSee
    <2>1. Sees(k)
      BY DEF PermInv, ChecksSee
    <2>2. CASE check[k].user \in Affected(c)
      <3>1. check'[k] = Late(k)
        BY <1>3, <2>2
      <3> QED BY <1>2, <2>1, <3>1 DEF Sees
    <2>3. CASE check[k].user \notin Affected(c)
      <3>1. check'[k] = check[k]
        BY <1>3, <2>3
      <3>2. \A u \in Users : check[k].user = u => Untouched(u)
        BY <2>3, CommitUntouched
      <3> QED BY <2>1, <3>1, <3>2, SeesOn
    <2> QED BY <2>2, <2>3
  <1>9. CacheFollowsRows'
    <2> SUFFICES ASSUME NEW u \in Users, Exists(u)', cache'[u] \notin {None, Empty}
                 PROVE  cache'[u] = Effective(u)' \/ u \in suspect' \/ Pending(u)'
      BY DEF CacheFollowsRows
    <2>1. CASE u \in Affected(c)
      BY <2>1, AffectedPending
    <2>2. CASE u \notin Affected(c)
      <3>1. Untouched(u)
        BY <2>2, CommitUntouched
      <3>2. Exists(u) /\ cache' = cache /\ suspect' = suspect
        BY <1>4 DEF Commit
      <3>3. Pending(u) => Pending(u)'
        <4>1. SUFFICES ASSUME NEW d \in Changes,
                              \/ change[d].pc = "find" /\ change[d].role \in Held(u)
                              \/ u \in change[d].todo /\ change[d].op # "dropUser"
                       PROVE  Pending(u)'
          BY DEF Pending
        <4>2. d # c
          BY <1>1, <4>1 DEF Shape
        <4>3. Held(u)' = Held(u)
          BY <3>1 DEF Untouched
        <4> QED BY <4>1, <4>2, <4>3, CommitChange DEF Pending
      <3> QED BY <3>1, <3>2, <3>3 DEF PermInv, CacheFollowsRows, Untouched
    <2> QED BY <2>1, <2>2
  <1> QED BY <1>5, <1>6, <1>7, <1>8, <1>9 DEF PermInv

-----------------------------------------------------------------------------
(* The theorems                                                            *)

LEMMA InitInv == Init => PermInv
  <1> SUFFICES ASSUME Init PROVE PermInv
    OBVIOUS
  <1>1. TypeOK
    BY Blank DEF Init, TypeOK
  <1>2. Shaped
    BY Blank DEF Init, Shaped
  <1>3. NothingOfNew
    BY DEF Init, NothingOfNew, Held, NoCheck
  <1>4. ChecksSee
    BY DEF Init, ChecksSee, Sees, NoCheck
  <1>5. CacheFollowsRows
    BY DEF Init, CacheFollowsRows
  <1> QED BY <1>1, <1>2, <1>3, <1>4, <1>5 DEF PermInv

LEMMA StepInv == PermInv /\ [Next]_vars => PermInv'
  <1> SUFFICES ASSUME PermInv, [Next]_vars PROVE PermInv'
    OBVIOUS
  <1>1. CASE UNCHANGED vars
    <2>1. TypeOK' /\ Shaped'
      BY <1>1 DEF vars, PermInv, TypeOK, Shaped
    <2>2. \A u \in Users : Pending(u)' = Pending(u)
      BY <1>1 DEF vars, Pending, Held
    <2>3. \A u \in Users : cache'[u] = cache[u] /\ Remembered(u)
      BY <1>1, <2>2 DEF vars, Remembered
    <2> QED BY <1>1, <2>1, <2>3, ChangeOnly DEF vars
  <1>2. ASSUME NEW k \in Checks, CheckStep(k) PROVE PermInv'
    BY <1>2, LoadLinksInv, LoadGrantsInv, LoadOverridesInv, GetCachedInv, FillInv DEF CheckStep
  <1>3. ASSUME NEW k \in Checks, NEW u \in Users, LoadUser(k, u) PROVE PermInv'
    BY <1>3, LoadUserInv
  <1>4. ASSUME NEW c \in Changes, BeginChange(c) PROVE PermInv'
    BY <1>4, BeginInv
  <1>5. ASSUME NEW c \in Changes, ChangeStep(c) PROVE PermInv'
    BY <1>5, CommitInv, FindUsersInv, InvalidatedInv, FailInv, InvalidateInv DEF ChangeStep
  <1>6. ASSUME NEW u \in Users, NEW R \in SUBSET Roles, NEW b \in BOOLEAN, CreateUser(u, R, b)
        PROVE  PermInv'
    BY <1>6, CreateUserInv
  <1>7. ASSUME NEW r \in Roles, NEW P \in SUBSET Perms, CreateRole(r, P) PROVE PermInv'
    BY <1>7, CreateRoleInv
  <1>8. ASSUME NEW u \in Users, Expire(u) PROVE PermInv'
    BY <1>8, ExpireInv
  <1> QED BY <1>1, <1>2, <1>3, <1>4, <1>5, <1>6, <1>7, <1>8 DEF Next

LEMMA InvAlways == Spec => []PermInv
  BY InitInv, StepInv, PTL DEF Spec

\* Rows, entries, checks and changes keep their types: in particular a key never
\* holds an empty set.
THEOREM PermTypeCorrect == Spec => []TypeOK
  BY InvAlways, PTL DEF PermInv

\* Whatever changes and checks overlap, a cached set is what the rows say unless
\* its deletion is under way or was lost, or a check that a change overtook wrote it.
THEOREM PermCacheFollowsRows == Spec => []CacheFollowsRows
  BY InvAlways, PTL DEF PermInv

\* No change can overtake a check without the check being known as late: the sets
\* of all others are what the rows say when they are stored.
THEOREM PermChecksSee == Spec => []ChecksSee
  BY InvAlways, PTL DEF PermInv

-----------------------------------------------------------------------------
(* In the end                                                              *)

\* tlapm proves nothing of WF and ENABLED, so the fairness of FairSpec is stated
\* once more with the guard of each action where WF says ENABLED: a check can
\* always go on, and a set can always expire.
HasSet(u) == cache[u] \notin {None, Empty}
Runs(k)   == []<>~(check[k].pc # "idle") \/ []<><<CheckStep(k)>>_vars
Ages(u)   == []<>~HasSet(u) \/ []<><<cache[u] # Empty /\ Expire(u)>>_vars

Fair    == (\A k \in Checks : Runs(k)) /\ (\A u \in Users : Ages(u))
Service == []Fair

EndInv == PermInv /\ \A k \in Checks : check[k].pc = "idle" => check[k] = NoCheck

\* A behaviour of the specification under that fairness, seen from any moment on.
Always == []EndInv /\ [][Next]_vars /\ Service

At(k, c)  == check[k].pc = c
Idling(k) == check[k] = NoCheck

LEMMA CheckServed == ASSUME NEW l \in Checks PROVE Service => Runs(l)
  <1>1. Fair => Runs(l)
    BY DEF Fair
  <1> QED BY <1>1, PTL DEF Service

LEMMA SetServed == ASSUME NEW v \in Users PROVE Service => Ages(v)
  <1>1. Fair => Ages(v)
    BY DEF Fair
  <1> QED BY <1>1, PTL DEF Service

\* What becomes of a check in a step: a change can only make it late, and nobody
\* but itself moves it.
LEMMA CheckGoes ==
    ASSUME PermInv, NEW k \in Checks, [Next]_vars
    PROVE  \/ check'[k] = check[k]
           \/ /\ check'[k] = [check[k] EXCEPT !.late = TRUE] /\ check[k].user \in Users
              /\ \E c \in Changes : change[c].pc = "commit"
           \/ Idling(k) /\ \E u \in Users : LoadUser(k, u)
           \/ CheckStep(k)
  <1>1. check \in [Checks -> Check]
    BY DEF PermInv, TypeOK
  <1>2. ASSUME NEW l \in Checks, l # k, CheckStep(l) PROVE check'[k] = check[k]
    BY <1>1, <1>2 DEF CheckStep, LoadLinks, LoadGrants, LoadOverrides, GetCached, Fill
  <1>3. ASSUME NEW l \in Checks, l # k, NEW u \in Users, LoadUser(l, u)
        PROVE  check'[k] = check[k]
    BY <1>1, <1>3 DEF LoadUser
  <1>4. ASSUME NEW u \in Users, LoadUser(k, u) PROVE Idling(k)
    BY <1>4 DEF LoadUser, Idling
  <1>5. ASSUME NEW c \in Changes, Commit(c)
        PROVE  \/ check'[k] = check[k]
               \/ /\ check'[k] = [check[k] EXCEPT !.late = TRUE] /\ check[k].user \in Users
                  /\ change[c].pc = "commit"
    BY <1>5 DEF Commit, Affected
  <1>6. ASSUME NEW c \in Changes,
               \/ BeginChange(c) \/ FindUsers(c) \/ Invalidated(c) \/ Fail(c)
               \/ \E u \in Users : Invalidate(c, u)
        PROVE  check' = check
    BY <1>6, BeginRecord DEF Begin, PermInv, FindUsers, Invalidated, Fail, Invalidate
  <1>7. ASSUME \/ \E u \in Users, R \in SUBSET Roles, b \in BOOLEAN : CreateUser(u, R, b)
               \/ \E r \in Roles, P \in SUBSET Perms : CreateRole(r, P)
               \/ \E u \in Users : Expire(u)
               \/ UNCHANGED vars
        PROVE  check' = check
    BY <1>7 DEF CreateUser, CreateRole, Expire, vars
  <1> QED BY <1>2, <1>3, <1>4, <1>5, <1>6, <1>7 DEF Next, ChangeStep

\* Where each step takes its check.
LEMMA StepGoes ==
    ASSUME PermInv, NEW k \in Checks, CheckStep(k)
    PROVE  \/ At(k, "links") /\ At(k, "grants")'
           \/ At(k, "grants") /\ At(k, "overrides")'
           \/ At(k, "overrides") /\ At(k, "get")'
           \/ At(k, "get") /\ (At(k, "fill") \/ Idling(k))'
           \/ At(k, "fill") /\ Idling(k)'
  <1>1. check \in [Checks -> Check]
    BY DEF PermInv, TypeOK
  <1>2. CASE LoadLinks(k)
    BY <1>1, <1>2 DEF LoadLinks, At, Check
  <1>3. CASE LoadGrants(k)
    BY <1>1, <1>3 DEF LoadGrants, At, Check
  <1>4. CASE LoadOverrides(k)
    BY <1>1, <1>4 DEF LoadOverrides, At, Check
  <1>5. CASE GetCached(k)
    BY <1>1, <1>5 DEF GetCached, At, Idling, Check
  <1>6. CASE Fill(k)
    BY <1>1, <1>6 DEF Fill, At, Idling
  <1> QED BY <1>2, <1>3, <1>4, <1>5, <1>6 DEF CheckStep

LEMMA NextEndInv == EndInv /\ [Next]_vars => EndInv'
  <1> SUFFICES ASSUME EndInv, [Next]_vars PROVE EndInv'
    OBVIOUS
  <1>1. PermInv /\ PermInv' /\ check \in [Checks -> Check]
    BY StepInv DEF EndInv, PermInv, TypeOK
  <1>2. ASSUME NEW k \in Checks PROVE check'[k].pc = "idle" => check'[k] = NoCheck
    <2>1. CASE check'[k] = check[k]
      BY <2>1 DEF EndInv
    <2>2. CASE check'[k] = [check[k] EXCEPT !.late = TRUE] /\ check[k].user \in Users
      <3>1. check[k] # NoCheck
        BY <2>2, PermAssumption DEF NoCheck
      <3>2. check'[k].pc = check[k].pc
        BY <1>1, <2>2 DEF Check
      <3> QED BY <3>1, <3>2 DEF EndInv
    <2>3. ASSUME NEW u \in Users, LoadUser(k, u) PROVE check'[k].pc # "idle"
      BY <1>1, <2>3 DEF LoadUser, NoCheck
    <2>4. CASE CheckStep(k)
      BY <1>1, <2>4, StepGoes DEF At, Idling
    <2> QED BY <1>1, <2>1, <2>2, <2>3, <2>4, CheckGoes
  <1> QED BY <1>1, <1>2 DEF EndInv

LEMMA SpecAlways == Spec /\ Service => Always
  <1>1. Init => EndInv
    BY InitInv DEF Init, EndInv
  <1> QED BY <1>1, NextEndInv, PTL DEF Spec, Always

\* A check that has started leaves every stage.
Stages == {"links", "grants", "overrides", "get", "fill"}

Passes(k, c) == At(k, c) ~> ~At(k, c)

LEMMA StageEnds ==
    ASSUME NEW k \in Checks, NEW c \in Stages
    PROVE  Always => Passes(k, c)
  <1>1. At(k, c) => check[k].pc # "idle"
    BY DEF At, Stages
  <1>2. EndInv /\ At(k, c) /\ <<CheckStep(k)>>_vars => ~At(k, c)'
    BY StepGoes DEF EndInv, At, Idling, NoCheck, Stages
  <1>3. Service => Runs(k)
    BY CheckServed
  <1> QED BY <1>1, <1>2, <1>3, PTL DEF Always, Runs, Passes

\* What may come after a stage.
LEMMA StageGoes ==
    ASSUME NEW k \in Checks
    PROVE  /\ EndInv /\ [Next]_vars /\ At(k, "links") => (At(k, "links") \/ At(k, "grants"))'
           /\ EndInv /\ [Next]_vars /\ At(k, "grants")
                => (At(k, "grants") \/ At(k, "overrides"))'
           /\ EndInv /\ [Next]_vars /\ At(k, "overrides")
                => (At(k, "overrides") \/ At(k, "get"))'
           /\ EndInv /\ [Next]_vars /\ At(k, "get")
                => (At(k, "get") \/ At(k, "fill") \/ Idling(k))'
           /\ EndInv /\ [Next]_vars /\ At(k, "fill") => (At(k, "fill") \/ Idling(k))'
  <1>1. ASSUME EndInv, [Next]_vars, check[k].pc # "idle"
        PROVE  check'[k].pc = check[k].pc \/ CheckStep(k)
    <2>1. PermInv /\ check[k] \in Check
      BY <1>1 DEF EndInv, PermInv, TypeOK
    <2>2. ~Idling(k)
      BY <1>1 DEF Idling, NoCheck
    <2> QED BY <1>1, <2>1, <2>2, CheckGoes DEF Check
  <1>2. EndInv => PermInv
    BY DEF EndInv
  <1> QED BY <1>1, <1>2, StepGoes DEF At

\* Every check ends: nothing it awaits waits for anything.
ChecksEnd == \A k \in Checks : check[k] # NoCheck ~> check[k] = NoCheck
CheckEnds(k) == ~Idling(k) ~> Idling(k)

LEMMA EachCheckEnds == ASSUME NEW k \in Checks PROVE Always => CheckEnds(k)
  <1>1. Always => (At(k, "fill") ~> Idling(k))
    <2>1. Always => Passes(k, "fill")
      BY StageEnds DEF Stages
    <2>2. EndInv /\ [Next]_vars /\ At(k, "fill") => At(k, "fill")' \/ Idling(k)'
      BY StageGoes
    <2> QED BY <2>1, <2>2, PTL DEF Always, Passes
  <1>2. Always => (At(k, "get") ~> Idling(k))
    <2>1. Always => Passes(k, "get")
      BY StageEnds DEF Stages
    <2>2. EndInv /\ [Next]_vars /\ At(k, "get") => At(k, "get")' \/ At(k, "fill")' \/ Idling(k)'
      BY StageGoes
    <2> QED BY <1>1, <2>1, <2>2, PTL DEF Always, Passes
  <1>3. Always => (At(k, "overrides") ~> Idling(k))
    <2>1. Always => Passes(k, "overrides")
      BY StageEnds DEF Stages
    <2>2. EndInv /\ [Next]_vars /\ At(k, "overrides") => At(k, "overrides")' \/ At(k, "get")'
      BY StageGoes
    <2> QED BY <1>2, <2>1, <2>2, PTL DEF Always, Passes
  <1>4. Always => (At(k, "grants") ~> Idling(k))
    <2>1. Always => Passes(k, "grants")
      BY StageEnds DEF Stages
    <2>2. EndInv /\ [Next]_vars /\ At(k, "grants") => At(k, "grants")' \/ At(k, "overrides")'
      BY StageGoes
    <2> QED BY <1>3, <2>1, <2>2, PTL DEF Always, Passes
  <1>5. Always => (At(k, "links") ~> Idling(k))
    <2>1. Always => Passes(k, "links")
      BY StageEnds DEF Stages
    <2>2. EndInv /\ [Next]_vars /\ At(k, "links") => At(k, "links")' \/ At(k, "grants")'
      BY StageGoes
    <2> QED BY <1>4, <2>1, <2>2, PTL DEF Always, Passes
  <1>6. EndInv => \/ Idling(k) \/ At(k, "links") \/ At(k, "grants")
                  \/ At(k, "overrides") \/ At(k, "get") \/ At(k, "fill")
    BY DEF EndInv, PermInv, TypeOK, Check, Idling, At
  <1> QED BY <1>1, <1>2, <1>3, <1>4, <1>5, <1>6, PTL DEF Always, CheckEnds

\* Every check that starts ends, however many changes overtake it (resolve awaits
\* PostgreSQL and Redis, and nothing else).
THEOREM PermChecksEnd == Spec /\ Service => ChecksEnd
  <1> SUFFICES ASSUME NEW k \in Checks
               PROVE  Spec /\ Service => (check[k] # NoCheck ~> check[k] = NoCheck)
    BY DEF ChecksEnd
  <1>1. check[k] = NoCheck <=> Idling(k)
    BY DEF Idling
  <1>2. Always => CheckEnds(k)
    BY EachCheckEnds
  <1> QED BY <1>1, <1>2, SpecAlways, PTL DEF CheckEnds

\* A check that a change overtook is over some time after the last change.
Late(k) == check[k].late

\* No change is under way, and no check of u knows less than the rows say.
Quiet(u) == Settled /\ \A k \in Checks : check[k].user = u => ~Late(k)

\* CacheSettles, of one operator.
Agrees(u) == Exists(u) => cache[u] \in {None, Empty, Effective(u)}

LEMMA NothingPending ==
    ASSUME Settled, NEW u \in Users PROVE ~Pending(u) /\ \A c \in Changes : change[c].pc = "idle"
  BY DEF Settled, Pending, NoChange

\* Once changes have stopped, every late check ends, and none becomes late.
LateStops(k) == <>[]Settled => <>[]~Late(k)

LEMMA LateEnds == ASSUME NEW k \in Checks PROVE Always => LateStops(k)
  <1>1. EndInv /\ [Next]_vars /\ Settled /\ ~Late(k) => ~Late(k)'
    <2> SUFFICES ASSUME EndInv, [Next]_vars, Settled, ~Late(k) PROVE ~Late(k)'
      OBVIOUS
    <2>1. PermInv /\ check \in [Checks -> Check] /\ NoCheck.late = FALSE
      BY DEF EndInv, PermInv, TypeOK, NoCheck
    <2>2. \A c \in Changes : change[c].pc # "commit"
      BY DEF Settled, NoChange
    <2>3. CASE check'[k] = check[k]
      BY <2>3 DEF Late
    <2>4. ASSUME NEW u \in Users, LoadUser(k, u) PROVE ~check'[k].late
      BY <2>1, <2>4 DEF LoadUser, NoCheck
    <2>5. CASE CheckStep(k)
      <3>1. CASE LoadLinks(k) \/ LoadGrants(k) \/ LoadOverrides(k)
        BY <2>1, <3>1 DEF LoadLinks, LoadGrants, LoadOverrides, Late, Check
      <3>2. CASE GetCached(k) \/ Fill(k)
        BY <2>1, <3>2 DEF GetCached, Fill, Late, Check
      <3> QED BY <2>5, <3>1, <3>2 DEF CheckStep
    <2> QED BY <2>1, <2>2, <2>3, <2>4, <2>5, CheckGoes DEF Late
  <1>2. Idling(k) => ~Late(k)
    BY DEF Idling, NoCheck, Late
  <1>3. Always => CheckEnds(k)
    BY EachCheckEnds
  <1> QED BY <1>1, <1>2, <1>3, PTL DEF Always, CheckEnds, LateStops

\* A suspicion of u does not come back while all is quiet, an entry of a suspect stays
\* what it is until it expires, and its expiry ends the suspicion.
Clean(u)    == u \notin suspect
IsMarker(u) == cache[u] = Empty
IsSet(u)    == cache[u] \notin {None, Empty}

LEMMA QuietSteps ==
    ASSUME EndInv, NEW u \in Users, Quiet(u), [Next]_vars
    PROVE  /\ Clean(u) => Clean(u)'
           /\ IsMarker(u) => IsMarker(u)' \/ Clean(u)'
           /\ IsSet(u) => IsSet(u)' \/ IsMarker(u)' \/ Clean(u)'
  <1>1. TypeOK /\ PermInv /\ Settled
    BY DEF EndInv, PermInv, Quiet
  <1>2. \A c \in Changes : change[c] = NoChange /\ change[c].pc = "idle"
    BY <1>1, NothingPending DEF Settled
  <1> DEFINE Same == cache'[u] = cache[u] /\ (u \in suspect' => u \in suspect)
  <1>3. Same => /\ Clean(u) => Clean(u)'
                /\ IsMarker(u) => IsMarker(u)' \/ Clean(u)'
                /\ IsSet(u) => IsSet(u)' \/ IsMarker(u)' \/ Clean(u)'
    BY DEF Clean, IsMarker, IsSet
  <1>4. ASSUME NEW k \in Checks, Fill(k), ~Same
        PROVE  /\ Clean(u) => Clean(u)'
               /\ IsMarker(u) => IsMarker(u)'
               /\ IsSet(u) => IsSet(u)' \/ IsMarker(u)'
    <2>1. check[k].user = u
      BY <1>1, <1>4 DEF Fill, TypeOK
    <2>2. ~check[k].late
      BY <2>1 DEF Quiet, Late
    <2>3. cache' = [cache EXCEPT ![u] = Stored(@, check[k].perms)] /\ suspect' = suspect
      BY <1>4, <2>1, <2>2 DEF Fill
    <2>4. cache'[u] = Stored(cache[u], check[k].perms)
      BY <1>1, <2>3 DEF TypeOK
    <2>5. /\ check[k].perms \in SUBSET Perms
          /\ cache[u] \in {None, Empty} \cup ((SUBSET Perms) \ {{}})
      BY <1>1 DEF TypeOK, Check
    <2>6. IsMarker(u) => cache'[u] = Empty
      BY <2>4, <2>5, PermAssumption DEF IsMarker, Stored
    <2>7. IsSet(u) => cache'[u] # None
      BY <2>4, <2>5, PermAssumption DEF IsSet, Stored
    <2> QED BY <2>3, <2>6, <2>7 DEF Clean, IsMarker, IsSet
  <1>5. ASSUME NEW v \in Users, Expire(v) PROVE Same \/ Clean(u)'
    BY <1>1, <1>5 DEF Expire, Clean, TypeOK
  <1>6. ASSUME NEW c \in Changes, ChangeStep(c) PROVE FALSE
    BY <1>2, <1>6 DEF ChangeStep, Commit, FindUsers, Invalidated, Fail, Invalidate
  <1>7. ASSUME NEW c \in Changes, BeginChange(c) PROVE Same
    BY <1>1, <1>7, BeginRecord DEF Begin
  <1>8. ASSUME \/ \E k \in Checks : LoadLinks(k) \/ LoadGrants(k) \/ LoadOverrides(k) \/ GetCached(k)
               \/ \E k \in Checks, v \in Users : LoadUser(k, v)
               \/ \E v \in Users, R \in SUBSET Roles, b \in BOOLEAN : CreateUser(v, R, b)
               \/ \E r \in Roles, P \in SUBSET Perms : CreateRole(r, P)
               \/ UNCHANGED vars
        PROVE  Same
    BY <1>8 DEF LoadLinks, LoadGrants, LoadOverrides, GetCached, LoadUser, CreateUser, CreateRole,
       vars
  <1> HIDE DEF Same
  <1> QED BY <1>3, <1>4, <1>5, <1>6, <1>7, <1>8 DEF Next, CheckStep, Clean

Settles(u) == <>[]Quiet(u) => <>[]Agrees(u)

LEMMA QuietAgrees == ASSUME NEW u \in Users PROVE Always => Settles(u)
  <1>1. EndInv /\ [Next]_vars /\ Quiet(u) /\ Clean(u) => Clean(u)'
    BY QuietSteps
  <1>2. EndInv /\ [Next]_vars /\ Quiet(u) /\ IsMarker(u) => IsMarker(u)' \/ Clean(u)'
    BY QuietSteps
  <1>3. EndInv /\ [Next]_vars /\ Quiet(u) /\ IsSet(u) => IsSet(u)' \/ IsMarker(u)' \/ Clean(u)'
    BY QuietSteps
  <1>4. EndInv /\ Quiet(u) /\ Clean(u) => Agrees(u)
    BY NothingPending DEF EndInv, PermInv, CacheFollowsRows, Quiet, Clean, Agrees
  <1>5. ~IsSet(u) => Agrees(u)
    BY DEF IsSet, Agrees
  <1>6. IsMarker(u) => ~IsSet(u)
    BY DEF IsMarker, IsSet
  <1>7. <<cache[u] # Empty /\ Expire(u)>>_vars => Clean(u)'
    BY DEF Expire, Clean
  <1>8. IsSet(u) <=> HasSet(u)
    BY DEF IsSet, HasSet
  <1>9. Service => Ages(u)
    BY SetServed
  <1> QED BY <1>1, <1>2, <1>3, <1>4, <1>5, <1>6, <1>7, <1>8, <1>9, PTL DEF Always, Ages, Settles

\* Once changes have stopped, every check is some time late for the last time: late
\* is what a check is made by a commit, until it ends.
THEOREM PermLateChecksEnd == Spec /\ Service => \A k \in Checks : LateStops(k)
  <1>1. ASSUME NEW k \in Checks PROVE Spec /\ Service => LateStops(k)
    <2>1. Always => LateStops(k)
      BY LateEnds
    <2> QED BY <2>1, SpecAlways, PTL
  <1> QED BY <1>1

\* Once no change is under way and no check of an operator is late, the entry of the
\* operator agrees with the rows for good: what a late check has stored expires, and
\* what the other checks add is what the rows say (_cache_permissions).
THEOREM PermEntriesAgree == Spec /\ Service => \A u \in Users : Settles(u)
  <1>1. ASSUME NEW u \in Users PROVE Spec /\ Service => Settles(u)
    <2>1. Always => Settles(u)
      BY QuietAgrees
    <2> QED BY <2>1, SpecAlways, PTL
  <1> QED BY <1>1

\* The conjunction of what PermLateChecksEnd says of each check: of finitely many it
\* is true, which is a temporal induction the prover cannot do.
NoneLate     == \A k \in Checks : ~Late(k)
AllLateStop  == <>[]Settled => <>[]NoneLate

\* Once changes have stopped, the cache agrees with the rows for good, if the checks
\* that are late then end (they do one by one, see PermLateChecksEnd).
THEOREM PermCacheSettles == Spec /\ Service /\ AllLateStop => CacheSettles
  <1>1. ASSUME NEW u \in Users
        PROVE  Spec /\ Service /\ AllLateStop => (<>[]Settled => <>[]Agrees(u))
    <2>1. Settled /\ NoneLate => Quiet(u)
      BY DEF Quiet, NoneLate
    <2>2. Always => Settles(u)
      BY QuietAgrees
    <2> QED BY <2>1, <2>2, SpecAlways, PTL DEF Settles, AllLateStop
  <1>2. ASSUME NEW u \in Users
        PROVE  Spec /\ Service /\ AllLateStop =>
                 (<>[]Settled => <>[](Exists(u) => cache[u] \in {None, Empty, Effective(u)}))
    <2>1. Agrees(u) <=> (Exists(u) => cache[u] \in {None, Empty, Effective(u)})
      BY DEF Agrees
    <2>2. Spec /\ Service /\ AllLateStop => (<>[]Settled => <>[]Agrees(u))
      BY <1>1
    <2> QED BY <2>1, <2>2, PTL
  <1> QED BY <1>2 DEF CacheSettles
=============================================================================
