---------------------------- MODULE MCClientSession ----------------------------
\* The user logs in as alice, and later as bob.
EXTENDS ClientSession

CONSTANTS alice, bob

MCAccounts  == {alice, bob}
MCAccountOf == <<alice, bob>>
MCSlots     == 1..2
===============================================================================
