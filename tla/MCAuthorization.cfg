CONSTANTS
    alice = alice
    bob = bob
    owner = owner
    active = active
    trading = trading
    none = none
    AccountNames <- MCAccountNames
    PermNames <- MCPermNames
    Active = active
    NoParent = none
    MaxPerms = 3
    MaxLinks = 1
SPECIFICATION Spec
INVARIANTS OnlyOwnPermissionsAuthorize
PROPERTIES AuthorizationRefinement WalkTerminates
