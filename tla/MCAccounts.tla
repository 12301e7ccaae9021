----------------------------- MODULE MCAccounts -----------------------------
(* Small instances of Accounts for TLC. *)
EXTENDS Accounts

S(n, a) == [ns |-> n, acts |-> a]
MCLists == {<<S("admin", {"x"}), S("user", {})>>,
            <<S("admin", {"read", "write"}), S("", {"r"}), S("admin", {"r"})>>}
MCNeeds == {<<>>, <<S("", {"r"})>>, <<S("admin", {"r"}), S("user", {"w"})>>,
            <<S("admin", {"x"}), S("admin", {"r"})>>, <<S("user", {"r"}), S("other", {})>>}
Symmetry == Permutations(Request) \cup Permutations(Command) \cup Permutations(Password)
=============================================================================
