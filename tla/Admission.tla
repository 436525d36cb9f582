----------------------------- MODULE Admission -----------------------------
(***************************************************************************)
(* The admission decision of AdmissionHarness.admit: a fixture of proof    *)
(* objects in, a typed verdict out, and on ALLOW the snapshot and the      *)
(* standing record that bind it.  The code is one long chain of early      *)
(* returns, so the model is one sequence of checks: the first one that     *)
(* fails gives the verdict and the typed reason.                           *)
(***************************************************************************)
EXTENDS Records, FiniteSets, SequencesExt

Deny(fails, reason, predicate) ==
    [fails |-> fails, admission |-> "DENY", reason |-> reason,
     predicate |-> predicate, engine_mode |-> "READY"]

Hold(fails, reason, predicate) ==
    [Deny(fails, reason, predicate) EXCEPT !.admission = "HOLD"]

Halt(fails, reason, predicate) ==
    [Deny(fails, reason, predicate) EXCEPT !.engine_mode = "HALTED"]

Fails(check) == check.fails

\* The first check that fails, or passed when none does.
FirstFailure(checks, passed) ==
    LET i == SelectInSeq(checks, Fails) IN IF i = 0 THEN passed ELSE checks[i]

-----------------------------------------------------------------------------
(* Authority: does the register let this principal do this here and now?   *)

GrantChecks(f, g, principal, capability, scope) ==
    LET Check(fails, reason) == Deny(fails, reason, "") IN
    <<  Check(g.principal # principal \/ g.capability # capability,
              "AUTHORITY_ROLE_SUBSTITUTION"),
        Check(g.register_version # f.register.version,
              "AUTHORITY_REGISTER_VERSION_MISMATCH"),
        Check(g.revoked, "AUTHORITY_REVOKED"),
        Check(~WindowContains(g.window, f.now), "DELEGATION_EXPIRED"),
        Check(~ScopeContains(g.scope, scope), "AUTHORITY_SCOPE_MISMATCH"),
        Check(g.self_authored, "SELF_AUTHORISATION") >>

Established == Deny(FALSE, "AUTHORITY_ESTABLISHED", "")

GrantFailure(f, g, principal, capability, scope) ==
    FirstFailure(GrantChecks(f, g, principal, capability, scope), Established).reason

Authorised(f, principal, capability, grant_id, scope) ==
    IF grant_id \notin DOMAIN f.register.grants
    THEN "AUTHORITY_GRANT_MISSING"
    ELSE GrantFailure(f, f.register.grants[grant_id], principal, capability, scope)

Refused(reason) == reason # "AUTHORITY_ESTABLISHED"

-----------------------------------------------------------------------------
(* _validate_observation: is the external evidence the contract's kind of  *)
(* evidence, is it fresh, and is it positive?                              *)

\* Mutant of Stale: the age that the contract allows is forgotten.
StaleByUpdate(f) ==
    \/ f.now >= f.observation.next_update
    \/ f.observation.evidence_state = "SOURCE_STALE"

Stale(f) ==
    \/ f.now - f.observation.observed_at > f.observation_contract.max_age
    \/ f.now >= f.observation.next_update
    \/ f.observation.evidence_state = "SOURCE_STALE"

ObservationChecks(f) ==
    LET c == f.observation_contract
        o == f.observation
        authority == Authorised(f, c.issuer, "DECLARE_OBSERVATION_CONTRACT",
                                c.issuer_grant_id, f.policy.scope)
    IN <<
    Deny(Refused(authority), authority, "observation_contract_authority"),
    Deny(c.status # "CURRENT" \/ ~Verify(c.issuer, c.signed_digest, c.signature),
         "OBSERVATION_CONTRACT_INVALID", "observation_contract"),
    Deny(\/ o.contract_id # c.contract_id \/ o.contract_version # c.version
         \/ o.contract_digest # Digest(Signable(c)),
         "OBSERVATION_CONTRACT_MISMATCH", "observation_contract"),
    Hold(o.source_id # c.source_id \/ o.endpoint # c.endpoint,
         "WRONG_SOURCE", "observation_source"),
    Hold(o.namespace # c.namespace \/ o.queried_object_class \notin c.object_classes,
         "WRONG_NAMESPACE", "observation_namespace"),
    Deny(o.source_role # c.source_role \/ o.proposition \notin c.permitted_predicates,
         "OBSERVATION_CONTRACT_MISMATCH", "observation_jurisdiction"),
    Hold(\/ o.temporal_policy_id # c.temporal_policy_id
         \/ o.interpretation_rule # c.interpretation_rule,
         "OBSERVATION_SEMANTICS_UNRESOLVED", "observation_temporal_semantics"),
    Hold(o.evidence_state = "SOURCE_UNAVAILABLE",
         "REVOCATION_SOURCE_UNAVAILABLE", "revocation_current"),
    Hold(o.evidence_state = "MALFORMED_RESPONSE",
         "MALFORMED_OBSERVATION", "revocation_current"),
    Hold(Stale(f), "SOURCE_STALE", "revocation_current"),
    Hold(o.evidence_state = "ABSENCE_OBSERVED" /\ o.proposition \notin c.absence_establishes,
         "NEGATIVE_EVIDENCE_UNWARRANTED", "revocation_current"),
    Hold(o.evidence_state = "CONFLICT", "OBSERVATION_CONFLICT", "revocation_current"),
    Deny(o.evidence_state = "POSITIVELY_INVALID",
         "SOURCE_OBLIGATION_SUPERSEDED", "revocation_current"),
    Hold(o.evidence_state # "POSITIVELY_ESTABLISHED",
         "OBSERVATION_UNKNOWN", "revocation_current") >>

-----------------------------------------------------------------------------
(* _validate_interpretation: is what the runtime loaded what was checked?  *)

\* Mutant of Diverges: the executed form is taken on trust.
DivergesUnexecuted(f, fields) ==
    Restrict(f.interpretation.bound, fields \ {"normalised_executable"})
        # Restrict(f.interpretation.runtime, fields \ {"normalised_executable"})

\* The runtime's account of these fields is not the checked one.
Diverges(f, fields) ==
    Restrict(f.interpretation.bound, fields) # Restrict(f.interpretation.runtime, fields)

InterpretationChecks(f) ==
    LET Check(fails, reason) == Deny(fails, reason, "interpretation_identity")
        Differ(fields) == Diverges(f, fields)
    IN <<
    Check(f.interpretation.bound.source # BytesDigest(f.policy.content),
          "SOURCE_BYTES_MISMATCH"),
    Check(Differ({"versions"}), "INTERPRETATION_VERSION_MISMATCH"),
    Check(Differ({"source"}), "LOADED_SOURCE_MISMATCH"),
    Check(Differ({"include", "defaults", "environment"}), "LOADED_CLOSURE_MISMATCH"),
    Check(Differ({"normalised_executable"}), "EXECUTED_FORM_MISMATCH"),
    Check(Differ({"engine_instance_id", "loaded_closure"}),
          "ENGINE_INTERPRETATION_MISMATCH") >>

InterpretationBound(f) == SelectInSeq(InterpretationChecks(f), Fails) = 0

-----------------------------------------------------------------------------
(* admit, in the order of its early returns. *)

ObligationChecks(f) ==
    LET o == f.obligation
        issuer == Authorised(f, f.obligation_issuer, "REGISTER_OBLIGATION",
                             f.obligation_issuer_grant_id, o.scope)
        resolver == Authorised(f, o.resolved_by, "RESOLVE_CONFLICT", "g_resolve", o.scope)
    IN <<
    Halt(~f.checker_enabled \/ ~f.verification_configured,
         "CHECKER_DISABLED", "verification_configuration"),
    Deny(f.claimed_obligation_id # o.obligation_id,
         "OBLIGATION_ID_MISMATCH", "obligation_identity"),
    Deny(f.policy_source_current_digest # ObligationDigest(o),
         "OBLIGATION_CONTENT_DIGEST_MISMATCH", "obligation_identity"),
    Deny(o.superseded \/ o.revoked, "SOURCE_OBLIGATION_SUPERSEDED", "obligation_current"),
    Deny(~WindowContains(o.window, f.now), "OBLIGATION_EXPIRED", "obligation_current"),
    Deny(~ScopeContains(o.scope, f.policy.scope),
         IF o.scope.jurisdiction # f.policy.scope.jurisdiction
         THEN "JURISDICTION_NOT_COVERED_BY_OBLIGATION" ELSE "DERIVED_SCOPE_EXCEEDS_SOURCE",
         "obligation_scope"),
    Deny(f.register.version < f.register.current_version,
         "AUTHORITY_REGISTER_ROLLBACK", "authority_register_lineage"),
    Hold(f.register.fork_detected, "AUTHORITY_REGISTER_FORK", "authority_register_lineage"),
    Hold(~f.register.trusted_time_observed, "TRUSTED_TIME_ABSENT", "currentness"),
    Deny(Refused(issuer),
         IF issuer \in {"AUTHORITY_GRANT_MISSING", "AUTHORITY_ROLE_SUBSTITUTION"}
         THEN "ISSUER_NOT_AUTHORISED" ELSE issuer,
         "obligation_issuer_authority"),
    Hold(o.actual_conflicts \ o.declared_conflicts # {},
         "UNRESOLVED_CONFLICT_UNDECLARED", "conflict_resolution"),
    Deny(o.resolved_by # "" /\ Refused(resolver), resolver, "conflict_resolution"),
    Deny(f.policy.version < f.latest_policy_version,
         "SUPERSEDED_VERSION_REPLAY", "policy_version"),
    Deny("exception_generalised" \in f.flags,
         "EXCEPTION_GENERALISED", "policy_exception_scope") >>

SignatureValid(rec) ==
    /\ rec.signed_digest = Digest(Signable(rec))
    /\ Verify(rec.principal, rec.signed_digest, rec.signature)

\* The rules in the closure that the derivation maps to nothing.
Unmapped(f) == f.closure.rule_inventory.rules \ f.derivation.coverage

\* Mutant of Unsupported: judged by the number of rules that are unmapped.
UnsupportedByCount(f) == Cardinality(Unmapped(f)) > Cardinality(f.policy.rules)

\* The derivation maps no rule at all.
Unsupported(f) == Unmapped(f) # {} /\ f.derivation.coverage = {}

DerivationChecks(f) ==
    LET d == f.derivation
        authority == Authorised(f, d.principal, "DERIVE_POLICY", d.grant_id, f.policy.scope)
    IN <<
    Hold(d.status = "ABSENT", "DERIVATION_ABSENT_OR_UNVERIFIABLE", "derivation_attestation"),
    Hold(d.status # "CURRENT", "DERIVATION_STATUS_UNRESOLVED", "derivation_attestation"),
    Deny(\/ d.obligation_digest # ObligationDigest(f.obligation)
         \/ d.policy_digest # PolicyDigest(f.policy),
         "DERIVATION_DIGEST_MISMATCH", "derivation_attestation"),
    Deny(~SignatureValid(d), "DERIVATION_SIGNATURE_INVALID", "derivation_attestation"),
    Deny(Refused(authority), authority, "derive_operation_authority"),
    Hold(~f.closure.rule_inventory.known, "RULE_SET_UNRESOLVED", "total_rule_coverage"),
    Hold(Unsupported(f), "DERIVATION_UNSUPPORTED", "total_rule_coverage"),
    Deny(Unmapped(f) # {}, "UNMAPPED_EXECUTABLE_RULE", "total_rule_coverage") >>

\* Mutant of ApprovalBound: the derivation may be replaced under the approval.
ApprovalUnattested(f) ==
    /\ f.approval.policy_digest = PolicyDigest(f.policy)
    /\ f.approval.closure_digest = Digest(f.closure)
    /\ f.approval.interpretation_digest = Digest(f.interpretation)
    /\ f.approval.scope_digest = Digest(f.policy.scope)

\* The five digests by which an approval names exactly what it approves.
ApprovalBound(f) ==
    /\ f.approval.policy_digest = PolicyDigest(f.policy)
    /\ f.approval.closure_digest = Digest(f.closure)
    /\ f.approval.interpretation_digest = Digest(f.interpretation)
    /\ f.approval.attestation_digest = Digest(Signable(f.derivation))
    /\ f.approval.scope_digest = Digest(f.policy.scope)

ApprovalChecks(f) ==
    LET a == f.approval
        authority == Authorised(f, a.principal, "APPROVE_POLICY", a.grant_id, f.policy.scope)
    IN <<
    Deny(a.approved_at > a.activation_requested_at,
         "APPROVAL_AFTER_USE", "approval_temporal_order"),
    Deny(~ApprovalBound(f), "APPROVAL_NOT_BOUND_TO_ARTEFACT", "approval_binding"),
    Deny(a.design_digest # f.policy.design_digest,
         "APPROVAL_INHERITED_ACROSS_CHANGE", "approval_binding"),
    Deny(~SignatureValid(a), "APPROVAL_SIGNATURE_INVALID", "approval_binding"),
    Deny(Refused(authority), authority, "approve_operation_authority") >>

ClosureChecks(f) == <<
    Deny(f.closure.root_policy_digest # PolicyDigest(f.policy),
         "CLOSURE_ROOT_MISMATCH", "executable_closure"),
    Deny(f.closure.dependencies # f.closure.runtime_dependencies,
         "CLOSURE_MISMATCH", "executable_closure") >>

EnvironmentChecks(f) == <<
    Hold(f.scope_evaluator_version # f.actual_scope_evaluator_version,
         "SCOPE_EVALUATOR_MISMATCH", "canonical_scope"),
    Deny(f.target_set_digest # f.actual_target_set_digest,
         "TARGET_SET_MISMATCH", "canonical_scope"),
    Hold(f.actual_tcb_digest # f.tcb_digest,
         "TCB_VERSION_MISMATCH", "trusted_computing_base"),
    Hold("snapshot_race" \in f.flags, "SNAPSHOT_COHERENCE_FAILED", "atomic_snapshot") >>

GraphChecks(f) ==
    << Halt(f.proof_graph # "PROOF_GRAPH_VALID", f.proof_graph, "proof_graph") >>

\* Mutant of AdmissionChecks: the approval is asked for before anything else.
AdmissionChecksApprovalFirst(f) ==
    ApprovalChecks(f) \o ObligationChecks(f) \o DerivationChecks(f) \o ClosureChecks(f)
    \o InterpretationChecks(f) \o EnvironmentChecks(f) \o ObservationChecks(f)
    \o GraphChecks(f)

AdmissionChecks(f) ==
    ObligationChecks(f) \o DerivationChecks(f) \o ApprovalChecks(f) \o ClosureChecks(f)
    \o InterpretationChecks(f) \o EnvironmentChecks(f) \o ObservationChecks(f)
    \o GraphChecks(f)

-----------------------------------------------------------------------------
(* What an ALLOW leaves behind. *)

\* AdmissionSnapshot: the exact objects that were checked, by digest.
Snapshot(f) ==
    [checked_at |-> f.now, obligation_digest |-> ObligationDigest(f.obligation),
     attestation_digest |-> Digest(Signable(f.derivation)),
     approval_digest |-> Digest(Signable(f.approval)),
     register_digest |-> RegisterDigest(f.register),
     register_version |-> f.register.version,
     observation_contract_digest |-> Digest(Signable(f.observation_contract)),
     observation_digest |-> Digest(f.observation),
     candidate_digest |-> PolicyDigest(f.policy), closure_digest |-> Digest(f.closure),
     interpretation_digest |-> Digest(f.interpretation),
     canonical_scope_digest |-> Digest(f.policy.scope),
     target_set_digest |-> f.target_set_digest,
     scope_evaluator_version |-> f.scope_evaluator_version, tcb_digest |-> f.tcb_digest]

\* Mutant of RevalidateBy: the obligation's own window is forgotten.
RevalidateBySource(f) ==
    Min({f.observation.next_update,
         f.observation.observed_at + f.observation_contract.max_age})

\* The instant from which the standing must be established afresh.
RevalidateBy(f) ==
    Min({f.observation.next_update,
         f.observation.observed_at + f.observation_contract.max_age,
         f.obligation.window.valid_until})

\* StandingRecord: how long the snapshot may be relied upon.
Standing(f) ==
    [policy_id |-> f.policy.policy_id, snapshot_digest |-> Digest(Snapshot(f)),
     evaluated_at |-> f.now, revalidate_by |-> RevalidateBy(f),
     observation_freshness_basis |-> Digest(f.observation)]

Passed == Deny(FALSE, "ALL_REQUIRED_PREDICATES_ESTABLISHED", "")

Evaluation(f) ==
    LET first == FirstFailure(AdmissionChecks(f), Passed) IN
    IF first.fails
    THEN [admission |-> first.admission, reason |-> first.reason,
          predicate |-> first.predicate, engine_mode |-> first.engine_mode,
          snapshot |-> None, standing |-> None]
    ELSE [admission |-> "ALLOW", reason |-> first.reason,
          predicate |-> first.predicate, engine_mode |-> first.engine_mode,
          snapshot |-> Snapshot(f), standing |-> Standing(f)]

Allowed(f) == Evaluation(f).admission = "ALLOW"

\* The policy as far as any digest covers it: its rules are the closure's.
Identity(p) == Restrict(p, {"content", "version", "scope", "design_digest"})

=============================================================================
