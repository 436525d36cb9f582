------------------------------ MODULE Records ------------------------------
(***************************************************************************)
(* The proof objects an admission is evaluated over (model.py), the        *)
(* content digests that bind them to one another, and the consistent set   *)
(* of them that every caller starts from (valid_fixture in harness.py).    *)
(*                                                                         *)
(* Field names are those of the dataclasses.  Contents that no check looks *)
(* into (bytes, rule texts, versions) are strings that are only compared.  *)
(***************************************************************************)
EXTENDS ProofGraph, Oracle

CONSTANTS
    Now,        \* the instant at which valid_fixture is built, in minutes
    MaxAge,     \* max_age of the observation contract
    Span        \* half the width of every validity window

ASSUME TimeAssumption ==
    /\ Now \in Nat /\ MaxAge \in Nat /\ Span \in Nat
    /\ 1 < MaxAge /\ MaxAge <= Span /\ Span <= Now

-----------------------------------------------------------------------------
(* Content digests: what each one covers, and by omission what it does not. *)

\* Only the obligation's bytes: not its scope, window, or revocation.
ObligationDigest(o) == Digest(Restrict(o, {"content"}))

\* The policy's bytes and version: not its scope, rules, or design.
PolicyDigest(p) == Digest(Restrict(p, {"content", "version"}))

\* The register's lineage and grants: not the flags observed about it.
RegisterDigest(r) ==
    Digest(Restrict(r, {"register_id", "version", "parent_digest", "grants"}))

-----------------------------------------------------------------------------
(* Scopes and windows. *)

ScopeContains(outer, inner) ==
    /\ inner.targets \subseteq outer.targets
    /\ outer.jurisdiction = inner.jurisdiction
    /\ outer.consequence_class = inner.consequence_class

WindowContains(w, t) == w.valid_from <= t /\ t < w.valid_until

-----------------------------------------------------------------------------
(* The consistent fixture every caller starts from. *)

Window == [valid_from |-> Now - Span, valid_until |-> Now + Span]

Device7 == [targets |-> {"device-7"}, jurisdiction |-> "GB",
            consequence_class |-> "governed-commit"]

\* Who holds which capability in the declared register.
Holder ==
    [g_register |-> <<"obligation-issuer", "REGISTER_OBLIGATION">>,
     g_derive   |-> <<"deriver", "DERIVE_POLICY">>,
     g_approve  |-> <<"approver", "APPROVE_POLICY">>,
     g_activate |-> <<"activator", "ACTIVATE_POLICY">>,
     g_contract |-> <<"contract-issuer", "DECLARE_OBSERVATION_CONTRACT">>,
     g_revoke   |-> <<"revoker", "REVOKE_AUTHORITY">>,
     g_resolve  |-> <<"resolver", "RESOLVE_CONFLICT">>]

Grant(id) ==
    [principal |-> Holder[id][1], capability |-> Holder[id][2],
     scope |-> Device7, window |-> Window, register_version |-> 1,
     revoked |-> FALSE, self_authored |-> FALSE]

Register ==
    [register_id |-> "register-main", version |-> 1,
     parent_digest |-> "genesis", grants |-> [id \in DOMAIN Holder |-> Grant(id)],
     trusted_time_observed |-> TRUE, current_version |-> 1,
     fork_detected |-> FALSE]

Obligation ==
    [obligation_id |-> "obl-1", content |-> "block export unless reviewed",
     scope |-> Device7, window |-> Window, superseded |-> FALSE,
     revoked |-> FALSE, declared_conflicts |-> {}, actual_conflicts |-> {},
     resolved_by |-> ""]

\* A candidate is named by its id, which also stands for its bytes.
Policy(id) ==
    [policy_id |-> id, content |-> id, version |-> 1, scope |-> Device7,
     rules |-> {"deny_export", "require_review"},
     design_digest |-> Digest([design |-> "v1"])]

Dependencies == [rules_lib |-> "rules v1", data_json |-> "data v1"]

\* rule_inventory None is [known |-> FALSE]: the rules cannot be enumerated.
Closure(p) ==
    [root_policy_digest |-> PolicyDigest(p),
     rule_inventory |-> [known |-> TRUE, rules |-> p.rules],
     dependencies |-> Dependencies,
     aggregate_digest |-> Digest([root |-> PolicyDigest(p),
                                  dependencies |-> Dependencies]),
     runtime_dependencies |-> Dependencies]

\* The checked chain and what the runtime reports of it, field for field.
\* versions are those of the canonicaliser, the parser and the loader.
Interpretation(p) ==
    LET chain == [source |-> BytesDigest(p.content), versions |-> <<"1", "1", "1">>,
                  include |-> "rules v1", defaults |-> "deny",
                  environment |-> "sealed",
                  normalised_executable |-> Closure(p).aggregate_digest,
                  engine_instance_id |-> "engine-1",
                  loaded_closure |-> Closure(p).aggregate_digest]
    IN  [bound |-> chain, runtime |-> chain]

\* derivation None is status "ABSENT".  coverage is the set of mapped rules.
Derivation(p) ==
    Signed([status |-> "CURRENT", obligation_digest |-> ObligationDigest(Obligation),
            policy_digest |-> PolicyDigest(p), coverage |-> p.rules,
            assumptions |-> "declared-inputs-only", principal |-> "deriver",
            grant_id |-> "g_derive"], "deriver")

Approval(p) ==
    Signed([policy_digest |-> PolicyDigest(p), closure_digest |-> Digest(Closure(p)),
            interpretation_digest |-> Digest(Interpretation(p)),
            attestation_digest |-> Digest(Signable(Derivation(p))),
            design_digest |-> p.design_digest, scope_digest |-> Digest(p.scope),
            principal |-> "approver", grant_id |-> "g_approve",
            approved_at |-> Now - 2, activation_requested_at |-> Now - 1], "approver")

Contract ==
    Signed([contract_id |-> "obs-contract-1", version |-> 1, status |-> "CURRENT",
            issuer |-> "contract-issuer", issuer_grant_id |-> "g_contract",
            source_id |-> "revocation-source-A", source_role |-> "REVOCATION_STATUS",
            endpoint |-> "revocation.example", namespace |-> "authority/main",
            object_classes |-> {"obligation", "grant", "policy"},
            permitted_predicates |-> {"NOT_REVOKED", "REVOKED"},
            absence_establishes |-> {"NOT_REVOKED"}, max_age |-> MaxAge,
            temporal_policy_id |-> "utc-strict-v1",
            interpretation_rule |-> "signed-record-v1"], "contract-issuer")

Observation ==
    [contract_id |-> Contract.contract_id, contract_version |-> Contract.version,
     contract_digest |-> Digest(Signable(Contract)), source_id |-> Contract.source_id,
     source_role |-> Contract.source_role, endpoint |-> Contract.endpoint,
     namespace |-> Contract.namespace, queried_object_class |-> "obligation",
     observed_at |-> Now - 1, next_update |-> Now - 1 + MaxAge,
     proposition |-> "NOT_REVOKED", evidence_state |-> "POSITIVELY_ESTABLISHED",
     temporal_policy_id |-> Contract.temporal_policy_id,
     interpretation_rule |-> Contract.interpretation_rule]

\* proof_graph is what validate_graph answers for the fixture's nodes and
\* manifest; flags are the test hooks that admit itself reads.
ValidFixture(id) ==
    [now |-> Now, obligation |-> Obligation, claimed_obligation_id |-> "obl-1",
     obligation_issuer |-> "obligation-issuer",
     obligation_issuer_grant_id |-> "g_register",
     policy |-> Policy(id), register |-> Register, closure |-> Closure(Policy(id)),
     interpretation |-> Interpretation(Policy(id)),
     derivation |-> Derivation(Policy(id)), approval |-> Approval(Policy(id)),
     observation_contract |-> Contract, observation |-> Observation,
     tcb_digest |-> "tcb 0.6", actual_tcb_digest |-> "tcb 0.6",
     scope_evaluator_version |-> "scope-v1",
     actual_scope_evaluator_version |-> "scope-v1",
     target_set_digest |-> Digest(Device7.targets),
     actual_target_set_digest |-> Digest(Device7.targets),
     activation_principal |-> "activator", activation_grant_id |-> "g_activate",
     decision_target |-> "device-7", checker_enabled |-> TRUE,
     verification_configured |-> TRUE, latest_policy_version |-> 1,
     policy_source_current_digest |-> ObligationDigest(Obligation),
     flags |-> {}, proof_graph |-> FixtureGraph,
     incumbent_standing |-> "ALLOW", fallback_standing |-> None]

=============================================================================
