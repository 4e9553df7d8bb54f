----------------------------- MODULE MCAccounts -----------------------------
(***************************************************************************)
(* Accounts on a small instance: registrations, slugs, requests and        *)
(* documents are interchangeable.                                          *)
(***************************************************************************)
EXTENDS Accounts, TLC

AccountsSymmetry ==
  Permutations(Founders) \cup Permutations(Slugs)
    \cup Permutations(Requests) \cup Permutations(Docs)
=============================================================================
