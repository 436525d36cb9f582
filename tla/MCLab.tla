------------------------------- MODULE MCLab -------------------------------
(* Instances of Lab for TLC. *)
EXTENDS Lab

NoFlags == {{}}
EachFlag == {{}} \cup {{f} : f \in Flags}
SlotFlags == {{}, {"state_indeterminate"}}
Varied == {"candidate", "refreshed", "rebuilt", "incumbent", "short", "target_out_of_scope"}
Troubled == {"candidate", "divergent", "revoked", "rogue", "unchecked"}
Builds == {"candidate", "rebuilt"}
Withdrawn == {"candidate", "issuer_grant_deleted", "status_invalid"}
Alone == {"candidate"}
Pair == {"candidate", "rival"}

Symmetric == Permutations(Requests)
=============================================================================
