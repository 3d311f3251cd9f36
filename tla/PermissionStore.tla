--------------------------- MODULE PermissionStore ---------------------------
(***************************************************************************)
(* The account and permission tables of the chain database,                *)
(* src/libraries/chain/include/eos/chain/account_object.hpp:               *)
(*   account_index            (lines 59-78)   accounts, unique by name;    *)
(*   permission_index         (lines 80-114)  permissions with owner,      *)
(*                                            parent and name;             *)
(*   action_permission_index  (lines 181-203) (owner, scope permission) -> *)
(*                                            required owner permission.   *)
(* An insert into a chainbase multi-index container fails when any of its  *)
(* ordered_unique keys collides with a row already present; that is the   *)
(* guard of every insert below.  The handlers that insert (account         *)
(* creation, updateauth, linkauth) are not under src/ and are modelled     *)
(* from the spec; the authority (threshold, keys, accounts) of a           *)
(* permission is left out, since resolution only decides which permission *)
(* must be satisfied.                                                      *)
(***************************************************************************)
EXTENDS Naturals, FiniteSets

CONSTANTS
    AccountNames,   \* values of AccountName
    PermNames,      \* values of permission_name
    Active,         \* the name "active", the default requirement
    NoParent,       \* the parent of a root permission (no permission)
    MaxPerms,       \* bound on the number of permission rows
    MaxLinks        \* bound on the number of action_permission rows

ASSUME StoreAssumption ==
    /\ AccountNames # {}
    /\ Active \in PermNames
    /\ NoParent \notin Nat
    /\ MaxPerms \in Nat
    /\ MaxLinks \in Nat

VARIABLES
    accounts,   \* names of the rows of account_index
    perms,      \* permission_index: id -> row
    nextId,     \* the id the next permission row receives
    links       \* action_permission_index: <<owner, scope_permission>> -> owner_permission

storeVars == <<accounts, perms, nextId, links>>

(* A row of permission_index (its authority abstracted away).              *)
Permission == [owner: AccountNames, parent: Nat \cup {NoParent}, name: PermNames]

StoreTypeOK ==
    /\ accounts \subseteq AccountNames
    /\ nextId \in Nat
    /\ perms \in [0..(nextId - 1) -> Permission]
    /\ DOMAIN links \subseteq AccountNames \X Nat
    /\ \A k \in DOMAIN links : links[k] \in Nat

StoreInit ==
    /\ accounts = {}
    /\ perms = [i \in {} |-> CHOOSE p \in Permission : TRUE]
    /\ nextId = 0
    /\ links = [k \in {} |-> 0]

(* account_index: ordered_unique by_id (fresh) and by_name.                *)
AccountIndexAdmits(a) == a \notin accounts

(* permission_index: by_id, by_parent (parent, id) and by_owner (owner,    *)
(* name, id) all contain the fresh id, so only by_name, unique on the name *)
(* alone, can refuse a row.                                                *)
PermissionIndexAdmits(row) == \A i \in DOMAIN perms : perms[i].name # row.name

(* action_permission_index: ordered_unique by_owner_scope (owner, scope).  *)
ActionPermissionIndexAdmits(owner, scope) == <<owner, scope>> \notin DOMAIN links

(* The permissions a transaction is signed under: one of the store's.      *)
Signatures == {{i} : i \in DOMAIN perms}

(* The by_owner lookup (account, "active") of the resolution's fallback.   *)
ActivePermissionOf(a) ==
    {i \in DOMAIN perms : perms[i].owner = a /\ perms[i].name = Active}

(* Account creation: a new row of account_index.                          *)
newaccount(a) ==
    /\ AccountIndexAdmits(a)
    /\ accounts' = accounts \cup {a}
    /\ UNCHANGED <<perms, nextId, links>>

(* A new permission n of account a under parent par (a root if NoParent):  *)
(* the parent must be a permission of the same account, and the insert     *)
(* must pass the unique keys of permission_index.                          *)
updateauth(a, n, par) ==
    LET row == [owner |-> a, parent |-> par, name |-> n]
    IN /\ a \in accounts
       /\ nextId < MaxPerms
       /\ par = NoParent \/ (par \in DOMAIN perms /\ perms[par].owner = a)
       /\ PermissionIndexAdmits(row)
       /\ perms' = [i \in DOMAIN perms \cup {nextId} |->
                      IF i = nextId THEN row ELSE perms[i]]
       /\ nextId' = nextId + 1
       /\ UNCHANGED <<accounts, links>>

(* Mutant of linkauth: the target may be a permission of another account. *)
linkauthAnyTarget(a, scope, target) ==
    /\ a \in accounts
    /\ scope \in DOMAIN perms
    /\ target \in DOMAIN perms
    /\ Cardinality(DOMAIN links) < MaxLinks
    /\ ActionPermissionIndexAdmits(a, scope)
    /\ links' = [k \in DOMAIN links \cup {<<a, scope>>} |->
                   IF k = <<a, scope>> THEN target ELSE links[k]]
    /\ UNCHANGED <<accounts, perms, nextId>>

(* A mapping (a, scope) -> target, target a permission of a.               *)
linkauth(a, scope, target) ==
    /\ a \in accounts
    /\ scope \in DOMAIN perms
    /\ target \in DOMAIN perms
    /\ perms[target].owner = a
    /\ Cardinality(DOMAIN links) < MaxLinks
    /\ ActionPermissionIndexAdmits(a, scope)
    /\ links' = [k \in DOMAIN links \cup {<<a, scope>>} |->
                   IF k = <<a, scope>> THEN target ELSE links[k]]
    /\ UNCHANGED <<accounts, perms, nextId>>

StoreNext ==
    \/ \E a \in AccountNames : newaccount(a)
    \/ \E a \in AccountNames, n \in PermNames, par \in {NoParent} \cup DOMAIN perms :
          updateauth(a, n, par)
    \/ \E a \in AccountNames, s, t \in DOMAIN perms : linkauth(a, s, t)
====
