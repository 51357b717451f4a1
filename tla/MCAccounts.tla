---------------------------- MODULE MCAccounts ----------------------------
(* Instances of Accounts for TLC.                                          *)
EXTENDS Accounts, TLC

AccountSymmetry == Permutations(Browser) \cup Permutations(Passkey) \cup Permutations(User)
                     \cup Permutations(Contact) \cup Permutations(Invite)
=============================================================================
