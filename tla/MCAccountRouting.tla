-------------------------- MODULE MCAccountRouting --------------------------
(* Small instances of AccountRouting.                                        *)
EXTENDS AccountRouting

Keys(token, role, ext) ==
  [chain |-> FALSE, profile |-> "", key |-> "k", token |-> token, role |-> role,
   ext |-> ext]
Chain(profile, role) ==
  [chain |-> TRUE, profile |-> profile, key |-> "", token |-> "", role |-> role,
   ext |-> ""]

(* Accounts with keys, with a role on top of them, with a profile, and two   *)
(* that cannot be used: one without keys, one with an option but no role.    *)
SomeAccounts ==
  {[name |-> "a", creds |-> c] : c \in
     {Keys(t, r, "") : t \in {"", "t"}, r \in {"", "r"}}
     \cup {Keys("", "r", "e"), Keys("", "", "e"), [Keys("", "", "") EXCEPT !.key = ""]}
     \cup {Chain(p, r) : p \in {"", "p"}, r \in {"", "r"}}}
  \cup {[name |-> "b", creds |-> c] : c \in {Keys("", "", ""), Chain("", "")}}
=============================================================================
