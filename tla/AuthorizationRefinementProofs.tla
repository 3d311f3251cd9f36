--------------------- MODULE AuthorizationRefinementProofs ---------------------
(***************************************************************************)
(* Proof that the step-by-step resolution of account_object.hpp lines     *)
(* 158-180 (Authorization) implements the atomic decision of              *)
(* AuthorizationAtomic under the mapping busy <- phase # "idle": every     *)
(* loop step but the last is a stutter, and the last gives the reference   *)
(* verdict RefVerdict(request), for every store the inserts can build.     *)
(*                                                                         *)
(* The argument rests on three facts about Senior (the ancestor-or-self    *)
(* relation): it unfolds along the parent (SeniorUnfold), it never rises  *)
(* in id (SeniorBelow, from ParentsBelow), hence it is antisymmetric; and  *)
(* on two invariants of the walk: in phase "scope" the requirement seen    *)
(* from the current permission is the one seen from the scope             *)
(* (ScopeAgrees), and in phase "signer" a signed ancestor-or-self of the   *)
(* required permission exists exactly when one of the current permission *)
(* does (SignerAgrees).  The "active" fallback needs the uniqueness of     *)
(* permission names that the by_name index enforces (NamesUnique).         *)
(***************************************************************************)
EXTENDS AuthorizationProofs

(* The by_name index: no two permission rows share a name.                *)
NamesUnique ==
    \A i, j \in DOMAIN perms : perms[i].name = perms[j].name => i = j

ScopeAgrees ==
    phase = "scope" =>
        Atomic!RequiredFor(request.account, request.scope)
            = Atomic!RequiredFor(request.account, cur)

SignerAgrees ==
    phase = "signer" =>
        /\ Atomic!RequiredFor(request.account, request.scope) = {required}
        /\ (\E g \in request.signed : Atomic!Senior(required, g))
              <=> (\E g \in request.signed : Atomic!Senior(cur, g))

RInv ==
    /\ IInv
    /\ ParentsBelow
    /\ NamesUnique
    /\ ScopeAgrees
    /\ SignerAgrees

-----------------------------------------------------------------------------
(* Lemmas about Senior.                                                    *)

(* A permission is its own ancestor-or-self.                               *)
LEMMA SeniorRefl ==
    ASSUME NEW x \in DOMAIN perms
    PROVE  Atomic!Senior(x, x)
BY DEF Atomic!Senior

(* An ancestor-or-self of a permission is a permission.                    *)
LEMMA SeniorInDomain ==
    ASSUME NEW x, NEW y, Atomic!Senior(x, y)
    PROVE  y \in DOMAIN perms
<1>1. DOMAIN perms \in SUBSET DOMAIN perms /\ x \in DOMAIN perms
      /\ Atomic!ParentClosed(DOMAIN perms)
  BY DEF Atomic!Senior, Atomic!ParentClosed
<1> QED BY <1>1 DEF Atomic!Senior

(* The ancestors-or-self of x are x and those of its parent.               *)
LEMMA SeniorUnfold ==
    ASSUME NEW x \in DOMAIN perms, NEW y
    PROVE  Atomic!Senior(x, y)
             <=> (y = x \/ (perms[x].parent \in DOMAIN perms
                            /\ Atomic!Senior(perms[x].parent, y)))
<1>1. ASSUME perms[x].parent \in DOMAIN perms, Atomic!Senior(perms[x].parent, y)
      PROVE  Atomic!Senior(x, y)
  <2> SUFFICES ASSUME NEW S \in SUBSET DOMAIN perms, x \in S, Atomic!ParentClosed(S)
               PROVE  y \in S
    BY DEF Atomic!Senior
  <2>1. perms[x].parent \in S
    BY <1>1 DEF Atomic!ParentClosed
  <2> QED BY <1>1, <2>1 DEF Atomic!Senior
<1>2. ASSUME Atomic!Senior(x, y), y # x
      PROVE  perms[x].parent \in DOMAIN perms /\ Atomic!Senior(perms[x].parent, y)
  <2>1. CASE perms[x].parent \notin DOMAIN perms
    <3>1. {x} \in SUBSET DOMAIN perms /\ Atomic!ParentClosed({x})
      BY <2>1 DEF Atomic!ParentClosed
    <3> QED BY <1>2, <3>1 DEF Atomic!Senior
  <2>2. CASE perms[x].parent \in DOMAIN perms
    <3> DEFINE S0 == {x} \cup {z \in DOMAIN perms : Atomic!Senior(perms[x].parent, z)}
    <3>1. Atomic!Senior(perms[x].parent, perms[x].parent)
      BY <2>2, SeniorRefl
    <3>2. ASSUME NEW z \in DOMAIN perms, Atomic!Senior(perms[x].parent, z),
                 perms[z].parent \in DOMAIN perms
          PROVE  Atomic!Senior(perms[x].parent, perms[z].parent)
      BY <3>2 DEF Atomic!Senior, Atomic!ParentClosed
    <3>3. S0 \in SUBSET DOMAIN perms /\ Atomic!ParentClosed(S0)
      BY <2>2, <3>1, <3>2 DEF Atomic!ParentClosed
    <3>4. y \in S0
      BY <1>2, <3>3 DEF Atomic!Senior
    <3> QED BY <1>2, <2>2, <3>4
  <2> QED BY <2>1, <2>2
<1> QED BY <1>1, <1>2, SeniorRefl

(* Ancestors have smaller ids: the permissions up to x form a set closed   *)
(* under the parent.                                                       *)
LEMMA SeniorBelow ==
    ASSUME TypeOK, ParentsBelow, NEW x, NEW y, Atomic!Senior(x, y)
    PROVE  y <= x
<1>1. x \in DOMAIN perms /\ DOMAIN perms \subseteq Nat
  BY DEF Atomic!Senior, TypeOK, StoreTypeOK
<1> DEFINE S == {z \in DOMAIN perms : z <= x}
<1>2. ASSUME NEW z \in S, perms[z].parent \in DOMAIN perms PROVE perms[z].parent \in S
  <2>1. perms[z].parent # NoParent
    BY <1>1, <1>2, StoreAssumption
  <2> QED BY <1>1, <1>2, <2>1 DEF ParentsBelow
<1>3. S \in SUBSET DOMAIN perms /\ x \in S /\ Atomic!ParentClosed(S)
  BY <1>1, <1>2 DEF Atomic!ParentClosed
<1> QED BY <1>3 DEF Atomic!Senior

(* Two permissions each the ancestor-or-self of the other are the same.    *)
LEMMA SeniorAntisym ==
    ASSUME TypeOK, ParentsBelow, NEW x, NEW y, Atomic!Senior(x, y), Atomic!Senior(y, x)
    PROVE  x = y
<1>1. x \in Nat /\ y \in Nat
  BY SeniorInDomain DEF TypeOK, StoreTypeOK
<1> QED BY <1>1, SeniorBelow

-----------------------------------------------------------------------------
(* What the requirement is, seen from each position of the scope loop.    *)

(* Without a mapping at cur, cur's requirement is its parent's.           *)
LEMMA RequiredUp ==
    ASSUME NEW a, NEW c \in DOMAIN perms, <<a, c>> \notin DOMAIN links,
           perms[c].parent \in DOMAIN perms
    PROVE  Atomic!RequiredFor(a, c) = Atomic!RequiredFor(a, perms[c].parent)
<1>1. Atomic!MappedScopes(a, c) = Atomic!MappedScopes(a, perms[c].parent)
  <2>1. ASSUME NEW y \in DOMAIN perms, <<a, y>> \in DOMAIN links
        PROVE  Atomic!Senior(c, y) <=> Atomic!Senior(perms[c].parent, y)
    <3>1. y # c
      BY <2>1
    <3> QED BY <3>1, SeniorUnfold
  <2> QED BY <2>1 DEF Atomic!MappedScopes
<1> QED BY <1>1 DEF Atomic!RequiredFor, Atomic!NearestMapped

(* A mapping at cur is the nearest one: the requirement is its target.     *)
LEMMA RequiredMapped ==
    ASSUME TypeOK, ParentsBelow, NEW a, NEW c \in DOMAIN perms, <<a, c>> \in DOMAIN links
    PROVE  Atomic!RequiredFor(a, c) = {links[<<a, c>>]}
<1> DEFINE M == Atomic!MappedScopes(a, c)
<1>1. c \in M
  BY SeniorRefl DEF Atomic!MappedScopes
<1>2. ASSUME NEW z \in M PROVE Atomic!Senior(c, z)
  BY DEF Atomic!MappedScopes
<1>3. c \in Atomic!NearestMapped(a, c)
  <2>1. ASSUME NEW z \in M, Atomic!Senior(z, c) PROVE z = c
    BY <1>2, <2>1, SeniorAntisym
  <2> QED BY <1>1, <2>1 DEF Atomic!NearestMapped
<1>4. ASSUME NEW y \in Atomic!NearestMapped(a, c) PROVE y = c
  <2>1. y \in M /\ (Atomic!Senior(c, y) => c = y)
    BY <1>1, <1>4 DEF Atomic!NearestMapped
  <2> QED BY <1>2, <2>1
<1>5. Atomic!NearestMapped(a, c) = {c}
  BY <1>3, <1>4
<1> QED BY <1>1, <1>5 DEF Atomic!RequiredFor

(* Past the root without a mapping, the requirement is the "active"        *)
(* permission of the account.                                              *)
LEMMA RequiredRoot ==
    ASSUME NEW a, NEW c \in DOMAIN perms, <<a, c>> \notin DOMAIN links,
           perms[c].parent \notin DOMAIN perms
    PROVE  Atomic!RequiredFor(a, c) = ActivePermissionOf(a)
<1>1. ASSUME NEW y, Atomic!Senior(c, y) PROVE y = c
  BY <1>1, SeniorUnfold
<1>2. Atomic!MappedScopes(a, c) = {}
  BY <1>1 DEF Atomic!MappedScopes
<1> QED BY <1>2 DEF Atomic!RequiredFor, Atomic!ActivePermissionOf, ActivePermissionOf

(* The by_name index leaves an account at most one "active" permission.   *)
LEMMA ActiveUnique ==
    ASSUME NamesUnique, NEW a, NEW act \in ActivePermissionOf(a)
    PROVE  ActivePermissionOf(a) = {act}
BY DEF NamesUnique, ActivePermissionOf

(* A signed ancestor-or-self of cur, when cur itself is not signed, is one *)
(* of its parent.                                                          *)
LEMMA SignedUp ==
    ASSUME NEW c \in DOMAIN perms, NEW G, c \notin G
    PROVE  (\E g \in G : Atomic!Senior(c, g))
             <=> (perms[c].parent \in DOMAIN perms
                  /\ \E g \in G : Atomic!Senior(perms[c].parent, g))
<1>1. ASSUME NEW g \in G
      PROVE  Atomic!Senior(c, g)
               <=> (perms[c].parent \in DOMAIN perms /\ Atomic!Senior(perms[c].parent, g))
  <2>1. g # c
    BY <1>1
  <2> QED BY <2>1, SeniorUnfold
<1> QED BY <1>1

-----------------------------------------------------------------------------
(* The invariant RInv.                                                     *)

(* The reference decision reads only the store, which a loop step leaves   *)
(* alone.                                                                  *)
LEMMA FrozenStore ==
    ASSUME UNCHANGED storeVars
    PROVE  /\ \A a, c : Atomic!RequiredFor(a, c)' = Atomic!RequiredFor(a, c)
           /\ \A x, y : Atomic!Senior(x, y)' = Atomic!Senior(x, y)
BY DEF storeVars, Atomic!RequiredFor, Atomic!MappedScopes, Atomic!NearestMapped,
       Atomic!Senior, Atomic!ParentClosed, Atomic!ActivePermissionOf

LEMMA InitRInv == Init => RInv
<1> SUFFICES ASSUME Init PROVE RInv
  OBVIOUS
<1>1. IInv /\ ParentsBelow
  BY InitIInv, InitParentsBelow
<1>2. DOMAIN perms = {}
  <2>1. 0..(0 - 1) = {}
    OBVIOUS
  <2> QED BY <2>1 DEF Init, StoreInit
<1> QED BY <1>1, <1>2 DEF Init, RInv, NamesUnique, ScopeAgrees, SignerAgrees

(* A new permission row passes the by_name key, so names stay unique.      *)
LEMMA StoreRInv == RInv /\ StoreStep => RInv'
<1> SUFFICES ASSUME RInv, StoreStep PROVE RInv'
  OBVIOUS
<1>1. IInv' /\ ParentsBelow'
  BY StoreIInv, StoreParentsBelow DEF RInv
<1>2. ScopeAgrees' /\ SignerAgrees'
  BY DEF StoreStep, ScopeAgrees, SignerAgrees
<1>3. NamesUnique'
  <2>1. CASE \E a \in AccountNames, n \in PermNames, par \in {NoParent} \cup DOMAIN perms :
                updateauth(a, n, par)
    <3> PICK a \in AccountNames, n \in PermNames, par \in {NoParent} \cup DOMAIN perms :
                updateauth(a, n, par)
      BY <2>1
    <3>1. perms' = [i \in DOMAIN perms \cup {nextId} |->
                      IF i = nextId THEN [owner |-> a, parent |-> par, name |-> n]
                      ELSE perms[i]]
          /\ \A i \in DOMAIN perms : perms[i].name # n
      BY DEF updateauth, PermissionIndexAdmits
    <3>2. nextId \notin DOMAIN perms
      BY DEF RInv, IInv, TypeOK, StoreTypeOK
    <3> QED BY <3>1, <3>2 DEF RInv, NamesUnique
  <2>2. CASE ~\E a \in AccountNames, n \in PermNames, par \in {NoParent} \cup DOMAIN perms :
                 updateauth(a, n, par)
    <3>1. perms' = perms
      BY <2>2 DEF StoreStep, StoreNext, newaccount, linkauth
    <3> QED BY <3>1 DEF RInv, NamesUnique
  <2> QED BY <2>1, <2>2
<1> QED BY <1>1, <1>2, <1>3 DEF RInv

(* A resolution starts with the scope permission as the current one.       *)
LEMMA RequestRInv ==
    ASSUME RInv, NEW a \in AccountNames, NEW s \in DOMAIN perms, NEW g \in Signatures,
           Request(a, s, g)
    PROVE  RInv'
<1>1. IInv'
  BY RequestIInv DEF RInv
<1>2. UNCHANGED storeVars /\ phase' = "scope" /\ cur' = request'.scope
  BY DEF Request
<1>3. ParentsBelow' /\ NamesUnique'
  BY <1>2 DEF storeVars, RInv, ParentsBelow, NamesUnique
<1>4. ScopeAgrees' /\ SignerAgrees'
  BY <1>2 DEF ScopeAgrees, SignerAgrees
<1> QED BY <1>1, <1>3, <1>4 DEF RInv

(* Facts every loop step starts from: the store is well formed and cur is *)
(* one of its permissions.                                                 *)
LEMMA WalkFacts ==
    ASSUME RInv, phase # "idle"
    PROVE  /\ TypeOK /\ ParentsBelow /\ ParentsOwned
           /\ cur \in DOMAIN perms
           /\ NoParent \notin DOMAIN perms
<1>1. phase \in {"scope", "signer"}
  BY DEF RInv, IInv, TypeOK
<1>2. DOMAIN perms \subseteq Nat
  BY DEF RInv, IInv, TypeOK, StoreTypeOK
<1>3. cur \in DOMAIN perms
  BY <1>1 DEF RInv, IInv, WalkInAccount
<1>4. NoParent \notin DOMAIN perms
  BY <1>2, StoreAssumption
<1> QED BY <1>3, <1>4 DEF RInv, IInv

(* Moving cur to its parent keeps the requirement seen from cur.           *)
LEMMA ScopeUpRInv == RInv /\ ScopeUp => RInv'
<1> SUFFICES ASSUME RInv, ScopeUp PROVE RInv'
  OBVIOUS
<1>1. IInv'
  BY WalkIInv DEF RInv, Walk
<1>2. TypeOK /\ ParentsOwned /\ cur \in DOMAIN perms
  BY WalkFacts DEF ScopeUp
<1>3. perms[cur].parent \in DOMAIN perms
  BY <1>2 DEF ScopeUp, ParentsOwned
<1>4. Atomic!RequiredFor(request.account, cur)
        = Atomic!RequiredFor(request.account, perms[cur].parent)
  BY <1>2, <1>3, RequiredUp DEF ScopeUp, Mapped
<1>5. ScopeAgrees'
  BY <1>4, FrozenStore DEF ScopeUp, RInv, ScopeAgrees
<1>6. ParentsBelow' /\ NamesUnique' /\ SignerAgrees'
  BY DEF ScopeUp, storeVars, RInv, ParentsBelow, NamesUnique, SignerAgrees
<1> QED BY <1>1, <1>5, <1>6 DEF RInv

(* A mapping at cur fixes the requirement: the signer loop starts from it. *)
LEMMA ScopeMappedRInv == RInv /\ ScopeMapped => RInv'
<1> SUFFICES ASSUME RInv, ScopeMapped PROVE RInv'
  OBVIOUS
<1>1. IInv'
  BY WalkIInv DEF RInv, Walk
<1>2. TypeOK /\ ParentsBelow /\ cur \in DOMAIN perms
  BY WalkFacts DEF ScopeMapped
<1>3. Atomic!RequiredFor(request.account, request.scope) = {required'}
  <2>1. Atomic!RequiredFor(request.account, cur) = {links[<<request.account, cur>>]}
    BY <1>2, RequiredMapped DEF ScopeMapped, Mapped
  <2> QED BY <2>1 DEF ScopeMapped, RInv, ScopeAgrees
<1>4. SignerAgrees'
  BY <1>3, FrozenStore DEF ScopeMapped, SignerAgrees
<1>5. ParentsBelow' /\ NamesUnique' /\ ScopeAgrees'
  BY DEF ScopeMapped, storeVars, RInv, ParentsBelow, NamesUnique, ScopeAgrees
<1> QED BY <1>1, <1>4, <1>5 DEF RInv

(* At the root without a mapping, the requirement is the one "active"      *)
(* permission, and the signer loop starts from it.                         *)
LEMMA ScopeDefaultRInv == RInv /\ ScopeDefault => RInv'
<1> SUFFICES ASSUME RInv, ScopeDefault PROVE RInv'
  OBVIOUS
<1>1. IInv'
  BY WalkIInv DEF RInv, Walk
<1>2. cur \in DOMAIN perms /\ NoParent \notin DOMAIN perms
  BY WalkFacts DEF ScopeDefault
<1>3. required' \in ActivePermissionOf(request.account)
  BY DEF ScopeDefault
<1>4. Atomic!RequiredFor(request.account, cur) = ActivePermissionOf(request.account)
  BY <1>2, RequiredRoot DEF ScopeDefault, Mapped
<1>5. Atomic!RequiredFor(request.account, request.scope) = {required'}
  BY <1>3, <1>4, ActiveUnique DEF ScopeDefault, RInv, ScopeAgrees
<1>6. SignerAgrees'
  BY <1>5, FrozenStore DEF ScopeDefault, SignerAgrees
<1>7. ParentsBelow' /\ NamesUnique' /\ ScopeAgrees'
  BY DEF ScopeDefault, storeVars, RInv, ParentsBelow, NamesUnique, ScopeAgrees
<1> QED BY <1>1, <1>6, <1>7 DEF RInv

(* An unsigned cur hands the question to its parent.                       *)
LEMMA SignerUpRInv == RInv /\ SignerUp => RInv'
<1> SUFFICES ASSUME RInv, SignerUp PROVE RInv'
  OBVIOUS
<1>1. IInv'
  BY WalkIInv DEF RInv, Walk
<1>2. ParentsOwned /\ cur \in DOMAIN perms
  BY WalkFacts DEF SignerUp
<1>3. perms[cur].parent \in DOMAIN perms
  BY <1>2 DEF SignerUp, ParentsOwned
<1>4. (\E g \in request.signed : Atomic!Senior(cur, g))
        <=> (\E g \in request.signed : Atomic!Senior(perms[cur].parent, g))
  BY <1>2, <1>3, SignedUp DEF SignerUp
<1>5. SignerAgrees'
  BY <1>4, FrozenStore DEF SignerUp, RInv, SignerAgrees
<1>6. ParentsBelow' /\ NamesUnique' /\ ScopeAgrees'
  BY DEF SignerUp, storeVars, RInv, ParentsBelow, NamesUnique, ScopeAgrees
<1> QED BY <1>1, <1>5, <1>6 DEF RInv

(* The steps that decide return to "idle", where nothing more is claimed.  *)
LEMMA DecideRInv ==
    RInv /\ (ScopeNoActive \/ SignerHas \/ SignerExhausted) => RInv'
<1> SUFFICES ASSUME RInv, ScopeNoActive \/ SignerHas \/ SignerExhausted PROVE RInv'
  OBVIOUS
<1>1. IInv'
  BY WalkIInv DEF RInv, Walk
<1>2. phase' = "idle" /\ UNCHANGED storeVars
  BY DEF ScopeNoActive, SignerHas, SignerExhausted
<1> QED BY <1>1, <1>2 DEF storeVars, RInv, ParentsBelow, NamesUnique,
                          ScopeAgrees, SignerAgrees

LEMMA NextRInv == RInv /\ [Next]_vars => RInv'
<1> SUFFICES ASSUME RInv, [Next]_vars PROVE RInv'
  OBVIOUS
<1>1. CASE StoreStep
  BY <1>1, StoreRInv
<1>2. CASE \E a \in AccountNames, s \in DOMAIN perms, g \in Signatures : Request(a, s, g)
  BY <1>2, RequestRInv
<1>3. CASE Walk
  BY <1>3, ScopeUpRInv, ScopeMappedRInv, ScopeDefaultRInv, SignerUpRInv, DecideRInv
  DEF Walk
<1>4. CASE UNCHANGED vars
  <2>1. IInv'
    BY <1>4, NextIInv DEF RInv
  <2>2. UNCHANGED storeVars /\ UNCHANGED <<request, phase, cur, required>>
    BY <1>4 DEF vars
  <2>3. ParentsBelow' /\ NamesUnique'
    BY <2>2 DEF storeVars, RInv, ParentsBelow, NamesUnique
  <2>4. ScopeAgrees' /\ SignerAgrees'
    BY <2>2, FrozenStore DEF RInv, ScopeAgrees, SignerAgrees
  <2> QED BY <2>1, <2>3, <2>4 DEF RInv
<1> QED BY <1>1, <1>2, <1>3, <1>4 DEF Next

-----------------------------------------------------------------------------
(* The refinement.                                                         *)

(* The last loop step gives the reference verdict of the request.          *)
LEMMA DecideVerdict ==
    ASSUME RInv
    PROVE  /\ ScopeNoActive => verdict' = Atomic!RefVerdict(request)
           /\ SignerHas => verdict' = Atomic!RefVerdict(request)
           /\ SignerExhausted => verdict' = Atomic!RefVerdict(request)
<1>1. ASSUME ScopeNoActive PROVE verdict' = Atomic!RefVerdict(request)
  <2>1. cur \in DOMAIN perms /\ NoParent \notin DOMAIN perms
    BY <1>1, WalkFacts DEF ScopeNoActive
  <2>2. Atomic!RequiredFor(request.account, cur) = ActivePermissionOf(request.account)
    BY <1>1, <2>1, RequiredRoot DEF ScopeNoActive, Mapped
  <2>3. Atomic!RequiredFor(request.account, request.scope) = {}
    BY <1>1, <2>2 DEF ScopeNoActive, RInv, ScopeAgrees
  <2> QED BY <1>1, <2>3 DEF ScopeNoActive, Atomic!RefVerdict
<1>2. ASSUME SignerHas PROVE verdict' = Atomic!RefVerdict(request)
  <2>1. cur \in DOMAIN perms
    BY <1>2, WalkFacts DEF SignerHas
  <2>2. \E g \in request.signed : Atomic!Senior(cur, g)
    BY <1>2, <2>1, SeniorRefl DEF SignerHas
  <2>3. /\ Atomic!RequiredFor(request.account, request.scope) = {required}
        /\ \E g \in request.signed : Atomic!Senior(required, g)
    BY <1>2, <2>2 DEF SignerHas, RInv, SignerAgrees
  <2> QED BY <1>2, <2>3 DEF SignerHas, Atomic!RefVerdict
<1>3. ASSUME SignerExhausted PROVE verdict' = Atomic!RefVerdict(request)
  <2>1. cur \in DOMAIN perms /\ NoParent \notin DOMAIN perms
    BY <1>3, WalkFacts DEF SignerExhausted
  <2>2. ~\E g \in request.signed : Atomic!Senior(cur, g)
    BY <1>3, <2>1, SignedUp DEF SignerExhausted
  <2>3. /\ Atomic!RequiredFor(request.account, request.scope) = {required}
        /\ ~\E g \in request.signed : Atomic!Senior(required, g)
    BY <1>3, <2>2 DEF SignerExhausted, RInv, SignerAgrees
  <2> QED BY <1>3, <2>3 DEF SignerExhausted, Atomic!RefVerdict
<1> QED BY <1>1, <1>2, <1>3

(* Every step of the resolution is a step of the atomic decision or leaves *)
(* its variables alone.                                                    *)
LEMMA StepSimulation == RInv /\ [Next]_vars => [Atomic!ANext]_Atomic!avars
<1> SUFFICES ASSUME RInv, [Next]_vars PROVE [Atomic!ANext]_Atomic!avars
  OBVIOUS
<1>1. CASE StoreStep
  <2>1. Atomic!StoreNext
    BY <1>1 DEF StoreStep, StoreNext, Atomic!StoreNext, newaccount, Atomic!newaccount,
                updateauth, Atomic!updateauth, linkauth, Atomic!linkauth,
                AccountIndexAdmits, Atomic!AccountIndexAdmits,
                PermissionIndexAdmits, Atomic!PermissionIndexAdmits,
                ActionPermissionIndexAdmits, Atomic!ActionPermissionIndexAdmits,
                Cardinality, Atomic!Cardinality
  <2>2. Atomic!StoreChange
    BY <1>1, <2>1 DEF StoreStep, Atomic!StoreChange
  <2> QED BY <2>2 DEF Atomic!ANext
<1>2. CASE \E a \in AccountNames, s \in DOMAIN perms, g \in Signatures : Request(a, s, g)
  <2> PICK a \in AccountNames, s \in DOMAIN perms, g \in Signatures : Request(a, s, g)
    BY <1>2
  <2>1. Atomic!Submit(a, s, g)
    BY DEF Request, Atomic!Submit, storeVars, Atomic!storeVars
  <2> QED BY <2>1 DEF Atomic!ANext, Atomic!Signatures, Signatures
<1>3. CASE ScopeUp \/ ScopeMapped \/ ScopeDefault \/ SignerUp
  BY <1>3 DEF ScopeUp, ScopeMapped, ScopeDefault, SignerUp, Atomic!avars,
              storeVars, Atomic!storeVars
<1>4. CASE ScopeNoActive \/ SignerHas \/ SignerExhausted
  <2>1. verdict' = Atomic!RefVerdict(request)
    BY <1>4, DecideVerdict
  <2>2. Atomic!Decide
    BY <1>4, <2>1 DEF ScopeNoActive, SignerHas, SignerExhausted, Atomic!Decide,
                   storeVars, Atomic!storeVars
  <2> QED BY <2>2 DEF Atomic!ANext
<1>5. CASE UNCHANGED vars
  BY <1>5 DEF vars, Atomic!avars, storeVars, Atomic!storeVars
<1> QED BY <1>1, <1>2, <1>3, <1>4, <1>5 DEF Next, Walk

(* Permission resolution as the code runs it, loop step by loop step, is a *)
(* correct implementation of the atomic decision: whatever the store the   *)
(* inserts build, a request is answered with the verdict of the nearest    *)
(* mapping up its scope chain (else the "active" permission), checked by   *)
(* the inclusive walk up from the required permission.                     *)
THEOREM AuthorizationRefines == Spec => AuthorizationRefinement
<1>1. Init => Atomic!AInit
  BY DEF Init, Atomic!AInit, StoreInit, Atomic!StoreInit, Atomic!InitialRequest
<1>2. Init => RInv
  BY InitRInv
<1>3. RInv /\ [Next]_vars => RInv'
  BY NextRInv
<1>4. RInv /\ [Next]_vars => [Atomic!ANext]_Atomic!avars
  BY StepSimulation
<1> QED BY <1>1, <1>2, <1>3, <1>4, PTL DEF Spec, AuthorizationRefinement, Atomic!ASpec
====
