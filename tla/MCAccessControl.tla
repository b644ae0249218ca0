-------------------------- MODULE MCAccessControl --------------------------
(* AccessControl for TLC: three admin keys, one of them the governance     *)
(* multisig, one protocol, and room for two keys in each list, so that     *)
(* lists are full, and full lists are handed over.                         *)
EXTENDS AccessControl, TLC

CONSTANTS Gov, Alice, Bob, Vault, None

MCAccounts == {Gov, Alice, Bob}
MCProtocols == {Vault}

Entries(keys, values) == [addr : keys, value : values]
UpTo2(entries) == UNION {[1..n -> entries] : n \in 1..2}

(* Two entries are enough for duplicates, swaps and add-then-remove.       *)
MCAuthUpdates == UpTo2(Entries(MCAccounts \cup {None}, BOOLEAN))
MCClassUpdates == UpTo2(Entries({Vault, Alice, Bob, None}, 0..2))

AliceBobSymmetry == Permutations({Alice, Bob})

=============================================================================
