-------------------------- MODULE MCConversationLog --------------------------
(* Instances of ConversationLog: a group of an owner and one or two others. *)
EXTENDS ConversationLog, TLC
CONSTANTS o, a, m
Trio == {o, a, m}
Pair == {o, a}
AllOps == {"send", "add", "leave", "remove", "role", "transfer", "disband", "read", "hide"}
TransferOnly == {"transfer"}
\* Transactions differ by name only.
Symmetry == Permutations(Txs)
==============================================================================
