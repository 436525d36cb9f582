------------------------------- MODULE Drifts -------------------------------
(***************************************************************************)
(* The single mutations that scenarios.py makes to the consistent fixture  *)
(* before (or after) an admission, each a function of the fixture, and     *)
(* its helpers that re-sign what was mutated.  Inputs no attack makes are    *)
(* marked: time passing, short windows, evidence exactly at its limit.     *)
(***************************************************************************)
EXTENDS Admission

DriftNames ==
    {"target_elsewhere", "target_widened", "jurisdiction_changed",
     "issuer_grant_deleted", "issuer_grant_expired", "issuer_grant_self_authored",
     "deriver_grant_short", "policy_superseded", "design_changed",
     "derivation_absent", "coverage_emptied", "assumptions_changed",
     "derived_by_activator", "approved_too_late", "approved_other_policy",
     "conflict_undeclared", "exception_generalised", "snapshot_race",
     "runtime_dependency_changed", "rule_unmapped", "rules_unknown",
     "parser_changed", "include_changed", "executable_changed",
     "register_rolled_back", "source_bytes_changed", "obligation_misclaimed",
     "status_invalid", "source_unavailable", "absence_unwarranted",
     "source_substituted", "role_substituted", "predicate_not_permitted",
     "tcb_changed", "scope_evaluator_changed", "checker_disabled", "graph_cyclic",
     "activator_rogue", "target_out_of_scope", "observed_at_limit",
     "obligation_short"}

Targets(f, ids) == [f EXCEPT !.policy.scope.targets = ids]

Revised(f, grant_id, grant) == [f EXCEPT !.register.grants[grant_id] = grant]

Until(grant, t) == [grant EXCEPT !.window.valid_until = t]

Drift(d, f) ==
    LET issuer == f.register.grants[f.obligation_issuer_grant_id]
        deriver == f.register.grants["g_derive"]
    IN
    CASE d = "target_elsewhere" -> Targets(f, {"device-99"})
      [] d = "target_widened" -> Targets(f, {"device-7", "device-8"})
      [] d = "jurisdiction_changed" -> [f EXCEPT !.policy.scope.jurisdiction = "US"]
      [] d = "issuer_grant_deleted" ->
            [f EXCEPT !.register.grants = Restrict(@, DOMAIN @ \ {"g_register"})]
      [] d = "issuer_grant_expired" -> Revised(f, "g_register", Until(issuer, f.now - 1))
      [] d = "issuer_grant_self_authored" ->
            Revised(f, "g_register", [issuer EXCEPT !.self_authored = TRUE])
      [] d = "deriver_grant_short" ->                              \* no attack
            Revised(f, "g_derive", Until(deriver, f.now + 1))
      [] d = "policy_superseded" ->
            [f EXCEPT !.policy.version = 0, !.latest_policy_version = 1]
      [] d = "design_changed" -> [f EXCEPT !.policy.design_digest = Digest([design |-> "v2"])]
      [] d = "derivation_absent" -> [f EXCEPT !.derivation.status = "ABSENT"]
      [] d = "coverage_emptied" -> [f EXCEPT !.derivation.coverage = {}]
      [] d = "assumptions_changed" ->
            [f EXCEPT !.derivation.assumptions = "mutated-after-snapshot"]
      [] d = "derived_by_activator" -> [f EXCEPT !.derivation.principal = "activator"]
      [] d = "approved_too_late" ->
            [f EXCEPT !.approval.approved_at = f.now,
                      !.approval.activation_requested_at = f.now - 1]
      [] d = "approved_other_policy" ->
            [f EXCEPT !.approval.policy_digest = Digest([other |-> "policy"])]
      [] d = "conflict_undeclared" ->
            [f EXCEPT !.obligation.actual_conflicts = {"conflict-1"}]
      [] d = "obligation_short" ->                                 \* no attack
            [f EXCEPT !.obligation.window.valid_until = f.now + 1]
      [] d \in {"exception_generalised", "snapshot_race"} -> [f EXCEPT !.flags = @ \cup {d}]
      [] d = "runtime_dependency_changed" ->
            [f EXCEPT !.closure.runtime_dependencies.rules_lib = "rules v2"]
      [] d = "rule_unmapped" ->
            [f EXCEPT !.closure.rule_inventory =
                          [known |-> TRUE, rules |-> f.policy.rules \cup {"unmapped_rule"}]]
      [] d = "rules_unknown" -> [f EXCEPT !.closure.rule_inventory.known = FALSE]
      [] d = "parser_changed" ->
            [f EXCEPT !.interpretation.runtime.versions = <<"1", "2", "1">>]
      [] d = "include_changed" ->
            [f EXCEPT !.interpretation.runtime.include = "includes changed"]
      [] d = "executable_changed" ->
            [f EXCEPT !.interpretation.runtime.normalised_executable = Digest([executed |-> "B"])]
      [] d = "register_rolled_back" -> [f EXCEPT !.register.current_version = 2]
      [] d = "source_bytes_changed" ->
            [f EXCEPT !.policy_source_current_digest = Digest([changed |-> "bytes"])]
      [] d = "obligation_misclaimed" ->
            [f EXCEPT !.claimed_obligation_id = "wrong-obligation"]
      [] d = "status_invalid" ->
            [f EXCEPT !.observation.evidence_state = "POSITIVELY_INVALID"]
      [] d = "observed_at_limit" ->                                \* no attack
            [f EXCEPT !.observation.observed_at = f.now - f.observation_contract.max_age,
                      !.observation.next_update = f.now + 2]
      [] d = "source_unavailable" ->
            [f EXCEPT !.observation.evidence_state = "SOURCE_UNAVAILABLE"]
      [] d = "absence_unwarranted" ->
            [f EXCEPT !.observation.evidence_state = "ABSENCE_OBSERVED",
                      !.observation_contract.absence_establishes = {}]
      [] d = "source_substituted" ->
            [f EXCEPT !.observation.source_id = "revocation-source-B"]
      [] d = "role_substituted" -> [f EXCEPT !.observation.source_role = "MIRROR_ONLY"]
      [] d = "predicate_not_permitted" ->
            [f EXCEPT !.observation_contract.permitted_predicates = {"REVOKED"},
                      !.observation_contract.absence_establishes = {}]
      [] d = "tcb_changed" -> [f EXCEPT !.actual_tcb_digest = "tcb modified"]
      [] d = "scope_evaluator_changed" ->
            [f EXCEPT !.actual_scope_evaluator_version = "scope-v2"]
      [] d = "checker_disabled" -> [f EXCEPT !.checker_enabled = FALSE]
      [] d = "graph_cyclic" -> [f EXCEPT !.proof_graph = CyclicGraph]
      [] d = "activator_rogue" -> [f EXCEPT !.activation_principal = "rogue-actor"]
      [] d = "target_out_of_scope" -> [f EXCEPT !.decision_target = "device-99"]

\* A mutation reaches into objects that must be there to be mutated.
Applicable(d, f) ==
    /\ d \in {"issuer_grant_deleted", "issuer_grant_expired", "issuer_grant_self_authored"}
           => f.obligation_issuer_grant_id \in DOMAIN f.register.grants
    /\ d \in {"coverage_emptied", "assumptions_changed", "derived_by_activator"}
           => f.derivation.status # "ABSENT"

\* Not a statement of the lab: minutes pass before the call.
Aged(f, minutes) == [f EXCEPT !.now = @ + minutes]

-----------------------------------------------------------------------------
(* The principals sign again what was mutated under them. *)

ResignDerivation(f) == [f EXCEPT !.derivation = Signed(@, @.principal)]

ResignApproval(f) == [f EXCEPT !.approval = Signed(@, @.principal)]

RebindApproval(f) ==
    ResignApproval(
        [f EXCEPT !.approval.policy_digest = PolicyDigest(f.policy),
                  !.approval.closure_digest = Digest(f.closure),
                  !.approval.interpretation_digest = Digest(f.interpretation),
                  !.approval.attestation_digest = Digest(Signable(f.derivation)),
                  !.approval.design_digest = f.policy.design_digest,
                  !.approval.scope_digest = Digest(f.policy.scope)])

ResignContract(f) ==
    LET c == Signed(f.observation_contract, f.observation_contract.issuer) IN
    [f EXCEPT !.observation_contract = c,
              !.observation.contract_digest = Digest(Signable(c)),
              !.observation.contract_version = c.version]

=============================================================================
