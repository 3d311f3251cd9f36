------------------------- MODULE AuthorizationProofs -------------------------
(***************************************************************************)
(* Proof that permission resolution only ever authorizes a request by a    *)
(* permission of the requesting account, for every store the inserts can  *)
(* build and every size of the tables.  The invariant is not inductive by *)
(* itself: it rests on the store's structure (parents and mapping targets *)
(* stay within one account) and on the walk staying inside the requesting *)
(* account's tree.                                                         *)
(***************************************************************************)
EXTENDS Authorization, TLAPS

(* The walk's position is a permission of the store; in phase "signer" it *)
(* is one of the requesting account.                                       *)
WalkInAccount ==
    /\ phase \in {"scope", "signer"} => cur \in DOMAIN perms
    /\ phase = "signer" => perms[cur].owner = request.account

IInv ==
    /\ TypeOK
    /\ ParentsOwned
    /\ LinksOwned
    /\ WalkInAccount
    /\ OnlyOwnPermissionsAuthorize

USE StoreAssumption DEF storeVars

LEMMA InitIInv == Init => IInv
<1> SUFFICES ASSUME Init PROVE IInv
  OBVIOUS
<1>1. StoreTypeOK /\ DOMAIN perms = {} /\ DOMAIN links = {}
  <2>1. 0..(0 - 1) = {}
    OBVIOUS
  <2> QED BY <2>1 DEF Init, StoreInit, StoreTypeOK
<1>2. request \in [account: AccountNames, scope: Nat, signed: SUBSET Nat]
  BY DEF Init, Atomic!InitialRequest
<1> QED BY <1>1, <1>2 DEF Init, IInv, TypeOK, Verdicts, ParentsOwned, LinksOwned,
                         WalkInAccount, OnlyOwnPermissionsAuthorize

(* A store step keeps the old rows, so the walk-related facts carry over. *)
LEMMA StoreIInv == IInv /\ StoreStep => IInv'
<1> SUFFICES ASSUME IInv, StoreStep PROVE IInv'
  OBVIOUS
<1>1. phase' = "idle" /\ verdict' = "none" /\ UNCHANGED <<request, cur, required>>
  BY DEF StoreStep
<1>2. WalkInAccount' /\ OnlyOwnPermissionsAuthorize'
  BY <1>1 DEF WalkInAccount, OnlyOwnPermissionsAuthorize
<1>3. CASE \E a \in AccountNames : newaccount(a)
  <2> PICK a \in AccountNames : newaccount(a)
    BY <1>3
  <2>1. accounts' = accounts \cup {a} /\ UNCHANGED <<perms, nextId, links>>
    BY DEF newaccount
  <2>2. TypeOK'
    BY <1>1, <2>1 DEF IInv, TypeOK, StoreTypeOK, Verdicts
  <2>3. ParentsOwned' /\ LinksOwned'
    BY <2>1 DEF IInv, ParentsOwned, LinksOwned
  <2> QED BY <1>2, <2>2, <2>3 DEF IInv
<1>4. CASE \E a \in AccountNames, n \in PermNames, par \in {NoParent} \cup DOMAIN perms :
              updateauth(a, n, par)
  <2> PICK a \in AccountNames, n \in PermNames, par \in {NoParent} \cup DOMAIN perms :
              updateauth(a, n, par)
    BY <1>4
  <2> DEFINE row == [owner |-> a, parent |-> par, name |-> n]
  <2>1. perms' = [i \in DOMAIN perms \cup {nextId} |-> IF i = nextId THEN row ELSE perms[i]]
        /\ nextId' = nextId + 1 /\ UNCHANGED <<accounts, links>>
        /\ (par = NoParent \/ (par \in DOMAIN perms /\ perms[par].owner = a))
    BY DEF updateauth
  <2>2. nextId \notin DOMAIN perms /\ DOMAIN perms \cup {nextId} = 0..(nextId' - 1)
    BY <2>1 DEF IInv, TypeOK, StoreTypeOK
  <2>3. row \in Permission
    BY <2>1 DEF IInv, TypeOK, StoreTypeOK, Permission
  <2>4. perms' \in [0..(nextId' - 1) -> Permission]
    BY <2>1, <2>2, <2>3 DEF IInv, TypeOK, StoreTypeOK
  <2>5a. nextId' \in Nat
    BY <2>1 DEF IInv, TypeOK, StoreTypeOK
  <2>4a. TypeOK'
    BY <1>1, <2>1, <2>4, <2>5a DEF IInv, TypeOK, StoreTypeOK, Verdicts
  <2>5. ParentsOwned'
    BY <2>1, <2>2 DEF IInv, ParentsOwned
  <2>6. LinksOwned'
    BY <2>1, <2>2 DEF IInv, LinksOwned
  <2> QED BY <1>2, <2>4a, <2>5, <2>6 DEF IInv
<1>5. CASE \E a \in AccountNames, s, t \in DOMAIN perms : linkauth(a, s, t)
  <2> PICK a \in AccountNames, s, t \in DOMAIN perms : linkauth(a, s, t)
    BY <1>5
  <2>1. links' = [k \in DOMAIN links \cup {<<a, s>>} |-> IF k = <<a, s>> THEN t ELSE links[k]]
        /\ perms[t].owner = a /\ UNCHANGED <<accounts, perms, nextId>>
    BY DEF linkauth
  <2>1a. s \in Nat /\ t \in Nat
    BY DEF IInv, TypeOK, StoreTypeOK
  <2>1b. StoreTypeOK'
    BY <2>1, <2>1a DEF IInv, TypeOK, StoreTypeOK
  <2>2. TypeOK'
    BY <1>1, <2>1b DEF IInv, TypeOK, Verdicts
  <2>3. ParentsOwned'
    BY <2>1 DEF IInv, ParentsOwned
  <2>4. LinksOwned'
    BY <2>1 DEF IInv, LinksOwned
  <2> QED BY <1>2, <2>2, <2>3, <2>4 DEF IInv
<1> QED BY <1>3, <1>4, <1>5 DEF StoreStep, StoreNext

(* Starting a resolution: the scope permission is a permission of the store. *)
LEMMA RequestIInv ==
    ASSUME IInv, NEW a \in AccountNames, NEW s \in DOMAIN perms, NEW g \in Signatures,
           Request(a, s, g)
    PROVE  IInv'
<1>1. g \in SUBSET Nat /\ s \in Nat
  BY DEF Signatures, IInv, TypeOK, StoreTypeOK
<1>2. request' \in [account: AccountNames, scope: Nat, signed: SUBSET Nat]
  BY <1>1 DEF Request
<1>3. UNCHANGED storeVars /\ phase' = "scope" /\ cur' = s /\ verdict' = "none"
      /\ UNCHANGED required
  BY DEF Request
<1>4. TypeOK'
  BY <1>2, <1>3, <1>1 DEF IInv, TypeOK, StoreTypeOK, Verdicts
<1>5. ParentsOwned' /\ LinksOwned' /\ WalkInAccount' /\ OnlyOwnPermissionsAuthorize'
  BY <1>3 DEF IInv, ParentsOwned, LinksOwned, WalkInAccount, OnlyOwnPermissionsAuthorize
<1> QED BY <1>4, <1>5 DEF IInv

(* Each loop step keeps the walk inside the store and, in phase "signer", *)
(* inside the requesting account's tree.                                   *)
LEMMA WalkIInv == IInv /\ Walk => IInv'
<1> SUFFICES ASSUME IInv, Walk PROVE IInv'
  OBVIOUS
<1> USE DEF IInv
<1>1. CASE ScopeMapped
  BY <1>1 DEF ScopeMapped, Mapped, TypeOK, StoreTypeOK, ParentsOwned, LinksOwned,
              WalkInAccount, OnlyOwnPermissionsAuthorize
<1>2. CASE ScopeUp
  BY <1>2 DEF ScopeUp, TypeOK, StoreTypeOK, ParentsOwned, LinksOwned,
              WalkInAccount, OnlyOwnPermissionsAuthorize
<1>3. CASE ScopeDefault
  BY <1>3 DEF ScopeDefault, ActivePermissionOf, TypeOK, StoreTypeOK, ParentsOwned,
              LinksOwned, WalkInAccount, OnlyOwnPermissionsAuthorize
<1>4. CASE ScopeNoActive
  BY <1>4 DEF ScopeNoActive, TypeOK, StoreTypeOK, ParentsOwned, LinksOwned,
              WalkInAccount, OnlyOwnPermissionsAuthorize, Verdicts
<1>5. CASE SignerHas
  <2>1. cur \in request.signed /\ cur \in DOMAIN perms /\ perms[cur].owner = request.account
    BY <1>5 DEF SignerHas, WalkInAccount
  <2> QED BY <1>5, <2>1 DEF SignerHas, TypeOK, StoreTypeOK, ParentsOwned, LinksOwned,
                           WalkInAccount, OnlyOwnPermissionsAuthorize, Verdicts
<1>6. CASE SignerUp
  BY <1>6 DEF SignerUp, TypeOK, StoreTypeOK, ParentsOwned, LinksOwned,
              WalkInAccount, OnlyOwnPermissionsAuthorize
<1>7. CASE SignerExhausted
  BY <1>7 DEF SignerExhausted, TypeOK, StoreTypeOK, ParentsOwned, LinksOwned,
              WalkInAccount, OnlyOwnPermissionsAuthorize, Verdicts
<1> QED BY <1>1, <1>2, <1>3, <1>4, <1>5, <1>6, <1>7 DEF Walk

LEMMA NextIInv == IInv /\ [Next]_vars => IInv'
<1> SUFFICES ASSUME IInv, [Next]_vars PROVE IInv'
  OBVIOUS
<1>1. CASE StoreStep
  BY <1>1, StoreIInv
<1>2. CASE \E a \in AccountNames, s \in DOMAIN perms, g \in Signatures : Request(a, s, g)
  BY <1>2, RequestIInv
<1>3. CASE Walk
  BY <1>3, WalkIInv
<1>4. CASE UNCHANGED vars
  BY <1>4 DEF vars, storeVars, IInv, TypeOK, StoreTypeOK, ParentsOwned, LinksOwned,
              WalkInAccount, OnlyOwnPermissionsAuthorize
<1> QED BY <1>1, <1>2, <1>3, <1>4 DEF Next

(* Resolution authorizes a request only through a permission of the        *)
(* account that makes it (the mapping targets, the "active" fallback and   *)
(* the parent walk all stay within that account), whatever the store.      *)
THEOREM OwnAuthoritySafe == Spec => []OnlyOwnPermissionsAuthorize
<1>1. Init => IInv
  BY InitIInv
<1>2. IInv /\ [Next]_vars => IInv'
  BY NextIInv
<1>3. IInv => OnlyOwnPermissionsAuthorize
  BY DEF IInv
<1> QED BY <1>1, <1>2, <1>3, PTL DEF Spec

-----------------------------------------------------------------------------
(* The ranking of the walk.  A permission's parent was created before it,  *)
(* so has a smaller id: updateauth takes the parent among the rows already *)
(* present and gives the new row the next id.                              *)
ParentsBelow ==
    \A i \in DOMAIN perms : perms[i].parent = NoParent \/ perms[i].parent < i

LEMMA InitParentsBelow == Init => ParentsBelow
<1> SUFFICES ASSUME Init PROVE ParentsBelow
  OBVIOUS
<1>1. DOMAIN perms = {}
  <2>1. 0..(0 - 1) = {}
    OBVIOUS
  <2> QED BY <2>1 DEF Init, StoreInit
<1> QED BY <1>1 DEF ParentsBelow

LEMMA StoreParentsBelow == IInv /\ ParentsBelow /\ StoreStep => ParentsBelow'
<1> SUFFICES ASSUME IInv, ParentsBelow, StoreStep PROVE ParentsBelow'
  OBVIOUS
<1>1. CASE \E a \in AccountNames : newaccount(a)
  BY <1>1 DEF newaccount, ParentsBelow
<1>2. CASE \E a \in AccountNames, n \in PermNames, par \in {NoParent} \cup DOMAIN perms :
              updateauth(a, n, par)
  <2> PICK a \in AccountNames, n \in PermNames, par \in {NoParent} \cup DOMAIN perms :
              updateauth(a, n, par)
    BY <1>2
  <2>1. perms' = [i \in DOMAIN perms \cup {nextId} |->
                    IF i = nextId THEN [owner |-> a, parent |-> par, name |-> n]
                    ELSE perms[i]]
    BY DEF updateauth
  <2>2. DOMAIN perms = 0..(nextId - 1) /\ nextId \in Nat
    BY DEF IInv, TypeOK, StoreTypeOK
  <2>3. par = NoParent \/ par < nextId
    BY <2>2
  <2>4. nextId \notin DOMAIN perms
    BY <2>2
  <2> QED BY <2>1, <2>3, <2>4 DEF ParentsBelow
<1>3. CASE \E a \in AccountNames, s, t \in DOMAIN perms : linkauth(a, s, t)
  BY <1>3 DEF linkauth, ParentsBelow
<1> QED BY <1>1, <1>2, <1>3 DEF StoreStep, StoreNext

LEMMA NextParentsBelow == IInv /\ ParentsBelow /\ [Next]_vars => ParentsBelow'
<1> SUFFICES ASSUME IInv, ParentsBelow, [Next]_vars PROVE ParentsBelow'
  OBVIOUS
<1>1. CASE StoreStep
  BY <1>1, StoreParentsBelow
<1>2. CASE ~StoreStep
  <2>1. perms' = perms
    BY <1>2 DEF Next, Request, Walk, ScopeMapped, ScopeUp, ScopeDefault, ScopeNoActive,
                SignerHas, SignerUp, SignerExhausted, vars, storeVars
  <2> QED BY <2>1 DEF ParentsBelow
<1> QED BY <1>1, <1>2
====
