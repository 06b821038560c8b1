----------------------------- MODULE MCAccounts -----------------------------
\* Accounts with interchangeable handlers, persons, names and devices.  Only
\* invariants and action properties are checked, so the symmetry is sound.
EXTENDS Accounts, TLC

Symmetry ==
    Permutations(Handlers) \cup Permutations(Persons)
        \cup Permutations(Usernames) \cup Permutations(DeviceKeys)
=============================================================================
