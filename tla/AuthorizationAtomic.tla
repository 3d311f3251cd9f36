------------------------- MODULE AuthorizationAtomic -------------------------
(***************************************************************************)
(* What permission resolution promises (account_object.hpp lines 158-180,  *)
(* spec 4.B), stated as one atomic decision over the store.  A request of  *)
(* account a under the scope permission s, signed with the permissions g,  *)
(* is decided "ok" exactly when some signed permission is the required    *)
(* permission or one of its ancestors, where the required permission is   *)
(* the target of the mapping of a at the nearest ancestor-or-self of s     *)
(* that has one, and otherwise the "active" permission of a ("notfound"   *)
(* if a has none).  Store changes happen between requests.                 *)
(***************************************************************************)
EXTENDS PermissionStore

VARIABLES
    request,    \* the request last submitted: account, scope, signed
    verdict,    \* "none" while undecided, then "ok", "denied" or "notfound"
    busy        \* a request is being decided

avars == <<storeVars, request, verdict, busy>>

InitialRequest == [account |-> CHOOSE a \in AccountNames : TRUE, scope |-> 0, signed |-> {}]

(* Senior(x, y): y is x or an ancestor of x in the permission forest, i.e. *)
(* y lies in every set of permissions that holds x and, with each member,  *)
(* its parent (the least such set is the parent chain of x).               *)
ParentClosed(S) ==
    \A z \in S : perms[z].parent \in DOMAIN perms => perms[z].parent \in S

Senior(x, y) ==
    /\ x \in DOMAIN perms
    /\ \A S \in SUBSET DOMAIN perms : x \in S /\ ParentClosed(S) => y \in S

(* The ancestors-or-self of s at which a has a mapping, and the nearest.  *)
MappedScopes(a, s) == {y \in DOMAIN perms : Senior(s, y) /\ <<a, y>> \in DOMAIN links}
NearestMapped(a, s) ==
    {y \in MappedScopes(a, s) : \A z \in MappedScopes(a, s) : Senior(z, y) => z = y}

(* The permission the request requires (at most one).                      *)
RequiredFor(a, s) ==
    IF MappedScopes(a, s) # {}
    THEN {links[<<a, y>>] : y \in NearestMapped(a, s)}
    ELSE ActivePermissionOf(a)

RefVerdict(r) ==
    LET req == RequiredFor(r.account, r.scope)
    IN  IF req = {} THEN "notfound"
        ELSE IF \E q \in req, g \in r.signed : Senior(q, g) THEN "ok"
        ELSE "denied"

AInit ==
    /\ StoreInit
    /\ request = InitialRequest
    /\ verdict = "none"
    /\ busy = FALSE

Submit(a, s, g) ==
    /\ ~busy
    /\ a \in accounts
    /\ s \in DOMAIN perms
    /\ request' = [account |-> a, scope |-> s, signed |-> g]
    /\ verdict' = "none"
    /\ busy' = TRUE
    /\ UNCHANGED storeVars

Decide ==
    /\ busy
    /\ verdict' = RefVerdict(request)
    /\ busy' = FALSE
    /\ UNCHANGED <<storeVars, request>>

StoreChange ==
    /\ ~busy
    /\ StoreNext
    /\ verdict' = "none"
    /\ UNCHANGED <<request, busy>>

ANext ==
    \/ \E a \in AccountNames, s \in DOMAIN perms, g \in Signatures : Submit(a, s, g)
    \/ Decide
    \/ StoreChange

ASpec == AInit /\ [][ANext]_avars
====
