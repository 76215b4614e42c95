SPECIFICATION Spec
CONSTANTS
    alice = alice
    bob = bob
    kitty = kitty
    puppy = puppy
    reg1 = reg1
    reg2 = reg2
    hook1 = hook1
    hook2 = hook2
    dereg = dereg
    look = look
    Nobody = Nobody
    Logins <- MCLogins
    Ckeys <- MCCkeys
    Registers <- MCRegisters
    Redeems <- MCRedeems
    Deregisters <- MCDeregisters
    Lookups <- MCLookups
    MaxFaults <- MCMaxFaults
SYMMETRY Symmetry
INVARIANT
    DeregisteredIsUnknown
\* Every goroutine runs once: the run stops when all have ended.
CHECK_DEADLOCK FALSE
