----------------------------- MODULE MCAccounts -----------------------------
EXTENDS Accounts, TLC

\* Pages and passwords are alike; so are usernames.
Symmetry == Permutations(Pages) \cup Permutations(Secrets) \cup Permutations(Logins)
=============================================================================
