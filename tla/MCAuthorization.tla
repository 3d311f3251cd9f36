--------------------------- MODULE MCAuthorization ---------------------------
EXTENDS Authorization, TLC

CONSTANTS alice, bob, owner, active, trading, none

MCAccountNames == {alice, bob}
MCPermNames == {owner, active, trading}
====
