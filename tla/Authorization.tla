---------------------------- MODULE Authorization ----------------------------
(***************************************************************************)
(* The two-phase permission resolution of account_object.hpp lines        *)
(* 158-180, one loop iteration per step, over the store of                 *)
(* PermissionStore.  Phase "scope": starting at the action's scope         *)
(* permission, look up the mapping (owner, scope_permission); without one, *)
(* go to the parent, and past the root fall back to the owner's "active". *)
(* Phase "signer": starting at the required permission, succeed if the     *)
(* transaction has it, otherwise go to the parent, and past the root fail  *)
(* with an invalid permission.  Execution is single-threaded: the store    *)
(* does not change while a request is resolved.                            *)
(***************************************************************************)
EXTENDS PermissionStore

VARIABLES
    request,    \* the request: account, scope (permission id), signed (ids)
    phase,      \* "idle", "scope" or "signer"
    cur,        \* scope_permission in phase "scope", user_permission in "signer"
    required,   \* the required owner permission found by phase "scope"
    verdict     \* "none", then "ok", "denied" (invalid permission) or "notfound"

vars == <<storeVars, request, phase, cur, required, verdict>>

Atomic == INSTANCE AuthorizationAtomic WITH busy <- phase # "idle"

Mapped == <<request.account, cur>> \in DOMAIN links

Verdicts == {"none", "ok", "denied", "notfound"}

TypeOK ==
    /\ StoreTypeOK
    /\ request \in [account: AccountNames, scope: Nat, signed: SUBSET Nat]
    /\ phase \in {"idle", "scope", "signer"}
    /\ cur \in Nat
    /\ required \in Nat
    /\ verdict \in Verdicts

(* The parent of a permission is a permission of the same account.        *)
ParentsOwned ==
    \A i \in DOMAIN perms :
        \/ perms[i].parent = NoParent
        \/ /\ perms[i].parent \in DOMAIN perms
           /\ perms[perms[i].parent].owner = perms[i].owner

(* A mapping of account a requires a permission of a.                      *)
LinksOwned ==
    \A k \in DOMAIN links : links[k] \in DOMAIN perms /\ perms[links[k]].owner = k[1]

Init ==
    /\ StoreInit
    /\ request = Atomic!InitialRequest
    /\ phase = "idle"
    /\ cur = 0
    /\ required = 0
    /\ verdict = "none"

(* A request of account a for an action whose scope permission is s.       *)
Request(a, s, g) ==
    /\ phase = "idle"
    /\ a \in accounts
    /\ s \in DOMAIN perms
    /\ request' = [account |-> a, scope |-> s, signed |-> g]
    /\ cur' = s
    /\ phase' = "scope"
    /\ verdict' = "none"
    /\ UNCHANGED <<storeVars, required>>

(* A mapping for (owner, scope_permission) exists: its owner permission is *)
(* the requirement, and the second loop starts there.                      *)
ScopeMapped ==
    /\ phase = "scope"
    /\ Mapped
    /\ required' = links[<<request.account, cur>>]
    /\ cur' = required'
    /\ phase' = "signer"
    /\ UNCHANGED <<storeVars, request, verdict>>

(* scope_permission = scope_permission.parent                              *)
ScopeUp ==
    /\ phase = "scope"
    /\ ~Mapped
    /\ perms[cur].parent # NoParent
    /\ cur' = perms[cur].parent
    /\ UNCHANGED <<storeVars, request, phase, required, verdict>>

(* if( !scope_permission ) user permission => active                       *)
ScopeDefault ==
    /\ phase = "scope"
    /\ ~Mapped
    /\ perms[cur].parent = NoParent
    /\ \E act \in ActivePermissionOf(request.account) :
          /\ required' = act
          /\ cur' = act
    /\ phase' = "signer"
    /\ UNCHANGED <<storeVars, request, verdict>>

(* The account has no "active" permission: the by_owner lookup fails.      *)
ScopeNoActive ==
    /\ phase = "scope"
    /\ ~Mapped
    /\ perms[cur].parent = NoParent
    /\ ActivePermissionOf(request.account) = {}
    /\ verdict' = "notfound"
    /\ phase' = "idle"
    /\ UNCHANGED <<storeVars, request, cur, required>>

(* transaction.has( user_permission ): pass.                               *)
SignerHas ==
    /\ phase = "signer"
    /\ cur \in request.signed
    /\ verdict' = "ok"
    /\ phase' = "idle"
    /\ UNCHANGED <<storeVars, request, cur, required>>

(* Mutant of SignerUp: the loop forgets to step to the parent.             *)
SignerUpStuck ==
    /\ phase = "signer"
    /\ cur \notin request.signed
    /\ perms[cur].parent # NoParent
    /\ cur' = cur
    /\ UNCHANGED <<storeVars, request, phase, required, verdict>>

(* Mutant of SignerUp: the parent is taken before the permission itself is *)
(* tested against the transaction.                                         *)
SignerUpUnchecked ==
    /\ phase = "signer"
    /\ perms[cur].parent # NoParent
    /\ cur' = perms[cur].parent
    /\ UNCHANGED <<storeVars, request, phase, required, verdict>>

(* user_permission = user_permission.parent                                *)
SignerUp ==
    /\ phase = "signer"
    /\ cur \notin request.signed
    /\ perms[cur].parent # NoParent
    /\ cur' = perms[cur].parent
    /\ UNCHANGED <<storeVars, request, phase, required, verdict>>

(* if( !user_permission ) throw invalid permission                         *)
SignerExhausted ==
    /\ phase = "signer"
    /\ cur \notin request.signed
    /\ perms[cur].parent = NoParent
    /\ verdict' = "denied"
    /\ phase' = "idle"
    /\ UNCHANGED <<storeVars, request, cur, required>>

Walk ==
    \/ ScopeMapped \/ ScopeUp \/ ScopeDefault \/ ScopeNoActive
    \/ SignerHas \/ SignerUp \/ SignerExhausted

(* Store changes come from other transactions, never during a resolution. *)
StoreStep ==
    /\ phase = "idle"
    /\ StoreNext
    /\ verdict' = "none"
    /\ UNCHANGED <<request, phase, cur, required>>

Next ==
    \/ StoreStep
    \/ \E a \in AccountNames, s \in DOMAIN perms, g \in Signatures : Request(a, s, g)
    \/ Walk

(* A resolution, once started, runs to completion in the same pass.       *)
Spec == Init /\ [][Next]_vars /\ WF_vars(Walk)

-----------------------------------------------------------------------------
(* Resolution implements the atomic decision of AuthorizationAtomic: every *)
(* loop step but the last is a stutter, the last gives the reference       *)
(* verdict (the nearest mapping up the scope chain, the "active" fallback, *)
(* the inclusive walk up from the required permission).                    *)
AuthorizationRefinement == Atomic!ASpec

(* A request is authorized only by a permission of the account that makes *)
(* it: the mapping's target and the "active" fallback belong to the        *)
(* account, and the walk up from them never leaves the account's tree.    *)
OnlyOwnPermissionsAuthorize ==
    verdict = "ok" =>
        \E g \in request.signed : g \in DOMAIN perms /\ perms[g].owner = request.account

(* The resolution loops terminate: the parent chains of the store end at  *)
(* a root, so every resolution started reaches a verdict.                  *)
WalkTerminates == (phase # "idle") ~> (phase = "idle")

(* Spec 3: every account roots its own permission forest at its own       *)
(* "owner"/"active" permissions, so an account can always add a root       *)
(* permission under a name it does not use yet (while the table has room). *)
(* The by_name index of permission_index is unique on the name alone.      *)
CanAddOwnName ==
    \A a \in accounts, n \in PermNames :
        (/\ phase = "idle"
         /\ nextId < MaxPerms
         /\ ~\E i \in DOMAIN perms : perms[i].owner = a /\ perms[i].name = n)
        => ENABLED updateauth(a, n, NoParent)
====
