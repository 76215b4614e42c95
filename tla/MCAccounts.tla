----------------------------- MODULE MCAccounts -----------------------------
(***************************************************************************)
(* Accounts on two logins and two ckeys: two !register, two token          *)
(* webhooks, a !deregister and a !login, a failing statement, a restart.   *)
(***************************************************************************)
EXTENDS Accounts, TLC

CONSTANTS alice, bob, kitty, puppy, reg1, reg2, hook1, hook2, dereg, look

MCLogins == {alice, bob}
MCCkeys == {kitty, puppy}
MCRegisters == {reg1, reg2}
MCRedeems == {hook1, hook2}
MCDeregisters == {dereg}
MCLookups == {look}
MCMaxFaults == 1

\* The members of each set are interchangeable.
Symmetry ==
    Permutations(MCLogins) \cup Permutations(MCCkeys)
        \cup Permutations(MCRegisters) \cup Permutations(MCRedeems)
=============================================================================
