----------------------------- MODULE MCAccounts ------------------------------
(* Accounts for TLC: two names that differ in case only. *)
EXTENDS Accounts, TLC

MCNames == {"Work", "work"}
MCFold == "Work" :> "work" @@ "work" :> "work"

Interchangeable == Permutations(Clients) \union Permutations(Sessions)
=============================================================================
