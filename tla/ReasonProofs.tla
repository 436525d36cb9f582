---------------------------- MODULE ReasonProofs ----------------------------
(***************************************************************************)
(* A refusal's typed reason is never an accident of two mutations.  Before *)
(* any time has passed, every departure of the fixture from the one that   *)
(* was built is traced to a mutation that it suffered; so the check that   *)
(* refuses it blames a mutation, and that mutation alone earns the reason. *)
(***************************************************************************)
EXTENDS AdmissionDriftProofs, FixtureProofs

-----------------------------------------------------------------------------
(* What each mutation reaches. *)

\* The policy that the fixture was built for.
Candidate == Policy("policy-1")

TargetDrifts == {"target_elsewhere", "target_widened"}

PolicyDrifts == TargetDrifts \cup {"jurisdiction_changed", "policy_superseded", "design_changed"}

ObligationDrifts == {"conflict_undeclared", "obligation_short"}

RegisterDrifts ==
    {"issuer_grant_deleted", "issuer_grant_expired", "issuer_grant_self_authored",
     "deriver_grant_short", "register_rolled_back"}

ClosureDrifts == {"runtime_dependency_changed", "rule_unmapped", "rules_unknown"}

InterpretationDrifts == {"parser_changed", "include_changed", "executable_changed"}

DerivationDrifts ==
    {"derivation_absent", "coverage_emptied", "assumptions_changed", "derived_by_activator"}

ApprovalDrifts == {"approved_too_late", "approved_other_policy"}

ContractDrifts == {"absence_unwarranted", "predicate_not_permitted"}

ObservationDrifts ==
    {"status_invalid", "observed_at_limit", "source_unavailable", "absence_unwarranted",
     "source_substituted", "role_substituted"}

PlainDrifts ==
    {"checker_disabled", "obligation_misclaimed", "source_bytes_changed",
     "scope_evaluator_changed", "tcb_changed", "graph_cyclic", "exception_generalised",
     "snapshot_race", "activator_rogue", "target_out_of_scope"}

-----------------------------------------------------------------------------
(* Part by part, the fixture is as it was built but for what its mutations,  *)
(* D, have made of it.                                                       *)

\* The records agree but for these fields.
SameBut(r, b, fields) ==
    IsRecord(r, DOMAIN b) /\ \A x \in DOMAIN b \ fields : r[x] = b[x]

\* What a field holds: the mutated value once the mutation has happened.
After(d, D, mutated, built) == IF d \in D THEN mutated ELSE built

\* The fields that no mutation reaches.
Fixed ==
    {"obligation_issuer", "obligation_issuer_grant_id", "tcb_digest",
     "scope_evaluator_version", "target_set_digest", "actual_target_set_digest",
     "verification_configured", "latest_policy_version"}

PlainTraced(f, D) ==
    /\ \A x \in Fixed : f[x] = Built[x]
    /\ f.checker_enabled <=> "checker_disabled" \notin D
    /\ f.claimed_obligation_id = After("obligation_misclaimed", D, "wrong-obligation", "obl-1")
    /\ f.policy_source_current_digest =
           After("source_bytes_changed", D,
                 Digest([changed |-> "bytes"]), ObligationDigest(Obligation))
    /\ f.actual_scope_evaluator_version =
           After("scope_evaluator_changed", D, "scope-v2", "scope-v1")
    /\ f.actual_tcb_digest = After("tcb_changed", D, "tcb modified", "tcb 0.6")
    /\ f.proof_graph = After("graph_cyclic", D, CyclicGraph, FixtureGraph)
    /\ f.flags = D \cap {"exception_generalised", "snapshot_race"}

PolicyTraced(p, D) ==
    /\ SameBut(p, Candidate, {"scope", "version", "design_digest"})
    /\ SameBut(p.scope, Device7, {"targets", "jurisdiction"})
    /\ p.scope.targets \subseteq {"device-7"} => p.scope.targets = {"device-7"}
    /\ p.scope.targets = {"device-7"} <=> D \cap TargetDrifts = {}
    /\ p.scope.jurisdiction = After("jurisdiction_changed", D, "US", "GB")
    /\ p.version = After("policy_superseded", D, 0, 1)
    /\ p.design_digest =
           After("design_changed", D, Digest([design |-> "v2"]), Candidate.design_digest)

ObligationTraced(o, D) ==
    /\ SameBut(o, Obligation, {"window", "actual_conflicts"})
    /\ WindowContains(o.window, Now)
    /\ o.actual_conflicts = After("conflict_undeclared", D, {"conflict-1"}, {})

GrantTraced(id, g, D) ==
    /\ SameBut(g, Grant(id), {"window", "self_authored"})
    /\ ~WindowContains(g.window, Now) <=> id = "g_register" /\ "issuer_grant_expired" \in D
    /\ g.self_authored <=> id = "g_register" /\ "issuer_grant_self_authored" \in D

RegisterTraced(r, D) ==
    /\ SameBut(r, Register, {"grants", "current_version"})
    /\ r.current_version = After("register_rolled_back", D, 2, 1)
    /\ DOMAIN r.grants =
           DOMAIN Holder \ After("issuer_grant_deleted", D, {"g_register"}, {})
    /\ \A id \in DOMAIN r.grants : GrantTraced(id, r.grants[id], D)

ClosureTraced(c, D) ==
    /\ SameBut(c, Closure(Candidate), {"runtime_dependencies", "rule_inventory"})
    /\ c.runtime_dependencies =
           After("runtime_dependency_changed", D,
                 [Dependencies EXCEPT !.rules_lib = "rules v2"], Dependencies)
    /\ IsRecord(c.rule_inventory, {"known", "rules"})
    /\ c.rule_inventory.rules =
           Candidate.rules \cup After("rule_unmapped", D, {"unmapped_rule"}, {})
    /\ c.rule_inventory.known \/ "rules_unknown" \in D
    /\ ~c.rule_inventory.known \/ "rules_unknown" \notin D \/ "rule_unmapped" \in D
    /\ D \cap ClosureDrifts = {} => c = Closure(Candidate)

InterpretationTraced(i, D) ==
    /\ SameBut(i, Interpretation(Candidate), {"runtime"})
    /\ SameBut(i.runtime, i.bound, {"versions", "include", "normalised_executable"})
    /\ i.runtime.versions = After("parser_changed", D, <<"1", "2", "1">>, <<"1", "1", "1">>)
    /\ i.runtime.include = After("include_changed", D, "includes changed", "rules v1")
    /\ i.runtime.normalised_executable =
           After("executable_changed", D,
                 Digest([executed |-> "B"]), Closure(Candidate).aggregate_digest)

DerivationTraced(d, D) ==
    /\ SameBut(d, Derivation(Candidate), {"status", "coverage", "assumptions", "principal",
                                          "signature", "signed_digest"})
    /\ d.status = After("derivation_absent", D, "ABSENT", "CURRENT")
    /\ d.coverage = After("coverage_emptied", D, {}, Candidate.rules)
    /\ d.assumptions =
           After("assumptions_changed", D, "mutated-after-snapshot", "declared-inputs-only")
    /\ d.principal = After("derived_by_activator", D, "activator", "deriver")
    /\ SignatureValid(d) \/ D \cap DerivationDrifts # {}

\* An approval may be older than what has happened to the rest: its digests
\* are those of the fixture as built unless a mutation reached what they name.
ApprovalTraced(a, D) ==
    /\ IsRecord(a, DOMAIN Approval(Candidate))
    /\ a.principal = "approver" /\ a.grant_id = "g_approve"
    /\ a.activation_requested_at = Now - 1
    /\ a.approved_at = After("approved_too_late", D, Now, Now - 2)
    /\ D \cap {"policy_superseded", "approved_other_policy"} = {} =>
           a.policy_digest = PolicyDigest(Candidate)
    /\ D \cap ClosureDrifts = {} => a.closure_digest = Digest(Closure(Candidate))
    /\ D \cap InterpretationDrifts = {} =>
           a.interpretation_digest = Digest(Interpretation(Candidate))
    /\ D \cap DerivationDrifts = {} =>
           a.attestation_digest = Digest(Signable(Derivation(Candidate)))
    /\ "design_changed" \notin D => a.design_digest = Candidate.design_digest
    /\ D \cap (TargetDrifts \cup {"jurisdiction_changed"}) = {} =>
           a.scope_digest = Digest(Device7)
    /\ \/ SignatureValid(a)
       \/ "approved_too_late" \in D
       \/ a.policy_digest = Digest([other |-> "policy"])

ContractTraced(c, D) ==
    /\ SameBut(c, Contract, {"permitted_predicates", "absence_establishes",
                             "signature", "signed_digest"})
    /\ c.permitted_predicates =
           After("predicate_not_permitted", D, {"REVOKED"}, {"NOT_REVOKED", "REVOKED"})
    /\ c.absence_establishes = IF D \cap ContractDrifts = {} THEN {"NOT_REVOKED"} ELSE {}
    /\ c.signature = Sign("contract-issuer", c.signed_digest)

\* What the observation's state of the evidence is traced to.
StateTraced(state, D) ==
    \/ /\ state = "POSITIVELY_ESTABLISHED"
       /\ D \cap {"absence_unwarranted", "status_invalid", "source_unavailable"} = {}
    \/ state = "ABSENCE_OBSERVED" /\ "absence_unwarranted" \in D
    \/ state = "POSITIVELY_INVALID" /\ "status_invalid" \in D
    \/ state = "SOURCE_UNAVAILABLE" /\ "source_unavailable" \in D

ObservationTraced(o, D) ==
    /\ SameBut(o, Observation, {"contract_digest", "source_id", "source_role",
                                "observed_at", "next_update", "evidence_state"})
    /\ D \cap ContractDrifts = {} => o.contract_digest = Digest(Signable(Contract))
    /\ o.source_id = After("source_substituted", D, "revocation-source-B", "revocation-source-A")
    /\ o.source_role = After("role_substituted", D, "MIRROR_ONLY", "REVOCATION_STATUS")
    /\ Now - o.observed_at <= MaxAge /\ Now < o.next_update
    /\ StateTraced(o.evidence_state, D)

Traced(f, D) ==
    /\ f.now = Now
    /\ PlainTraced(f, D)
    /\ PolicyTraced(f.policy, D)
    /\ ObligationTraced(f.obligation, D)
    /\ RegisterTraced(f.register, D)
    /\ ClosureTraced(f.closure, D)
    /\ InterpretationTraced(f.interpretation, D)
    /\ DerivationTraced(f.derivation, D)
    /\ ApprovalTraced(f.approval, D)
    /\ ContractTraced(f.observation_contract, D)
    /\ ObservationTraced(f.observation, D)

-----------------------------------------------------------------------------
(* The fixture as built. *)

\* Nothing has happened to the fixture that was built (valid_fixture).
LEMMA BuiltIsTraced == Traced(Built, {})
<1> DEFINE p == Candidate
<1>1. /\ Built.now = Now /\ Built.obligation = Obligation /\ Built.register = Register
      /\ Built.policy = p /\ Built.closure = Closure(p)
      /\ Built.interpretation = Interpretation(p) /\ Built.derivation = Derivation(p)
      /\ Built.approval = Approval(p) /\ Built.observation_contract = Contract
      /\ Built.observation = Observation /\ Built.flags = {}
      /\ Built.proof_graph = FixtureGraph
  BY FixtureParts DEF Built, Candidate
<1>2. PlainTraced(Built, {})
  <2>1. /\ Built.checker_enabled /\ Built.claimed_obligation_id = "obl-1"
        /\ Built.policy_source_current_digest = ObligationDigest(Obligation)
        /\ Built.actual_scope_evaluator_version = "scope-v1"
        /\ Built.actual_tcb_digest = "tcb 0.6"
    BY DEF Built, ValidFixture
  <2> QED  BY <1>1, <2>1 DEF PlainTraced, After
<1>3. PolicyTraced(p, {})
  BY DEF PolicyTraced, Candidate, Policy, Device7, SameBut, IsRecord, After
<1>4. ObligationTraced(Obligation, {})
  <2>1. Obligation.window = Window
    BY DEF Obligation
  <2> QED
    BY <2>1, WithinWindow DEF ObligationTraced, Obligation, SameBut, IsRecord, After
<1>5. RegisterTraced(Register, {})
  <2>1. ASSUME NEW id \in DOMAIN Holder PROVE GrantTraced(id, Grant(id), {})
    <3>1. Grant(id).window = Window /\ ~Grant(id).self_authored
      BY DEF Grant
    <3>2. SameBut(Grant(id), Grant(id), {"window", "self_authored"})
      BY DEF Grant, SameBut, IsRecord
    <3> QED  BY <3>1, <3>2, WithinWindow DEF GrantTraced
  <2>2. /\ Register.grants = [id \in DOMAIN Holder |-> Grant(id)]
        /\ Register.current_version = 1
        /\ SameBut(Register, Register, {"grants", "current_version"})
    BY DEF Register, SameBut, IsRecord
  <2> QED  BY <2>1, <2>2 DEF RegisterTraced, After
<1>6. ClosureTraced(Closure(p), {})
  BY DEF ClosureTraced, Closure, SameBut, IsRecord, After
<1>7. InterpretationTraced(Interpretation(p), {})
  BY DEF InterpretationTraced, Interpretation, SameBut, IsRecord, After
<1>8. DerivationTraced(Derivation(p), {})
  <2>1. SignatureValid(Derivation(p))
    BY <1>1, BuiltIsAttested DEF Attested
  <2> HIDE DEF p
  <2>2. SameBut(Derivation(p), Derivation(p), {"status", "coverage", "assumptions",
                    "principal", "signature", "signed_digest"})
    BY DEF Derivation, Signed, SameBut, IsRecord
  <2>3. /\ Derivation(p).status = "CURRENT" /\ Derivation(p).coverage = p.rules
        /\ Derivation(p).assumptions = "declared-inputs-only"
        /\ Derivation(p).principal = "deriver"
    BY DEF Derivation, Signed
  <2> QED  BY <2>1, <2>2, <2>3 DEF DerivationTraced, After, p
<1>9. ApprovalTraced(Approval(p), {})
  <2> DEFINE a == [policy_digest |-> PolicyDigest(p), closure_digest |-> Digest(Closure(p)),
                   interpretation_digest |-> Digest(Interpretation(p)),
                   attestation_digest |-> Digest(Signable(Derivation(p))),
                   design_digest |-> p.design_digest, scope_digest |-> Digest(p.scope),
                   principal |-> "approver", grant_id |-> "g_approve",
                   approved_at |-> Now - 2, activation_requested_at |-> Now - 1]
  <2>1. Approval(p) = Signed(a, "approver")
    BY DEF Approval
  <2>2. "principal" \in DOMAIN a /\ a.principal = "approver"
    OBVIOUS
  <2>3. p.scope = Device7
    BY DEF Candidate, Policy
  <2>4. SignatureValid(Signed(a, "approver"))
    <3> HIDE DEF a
    <3> QED  BY <2>2, SignedIsValid
  <2> HIDE DEF p
  <2>5. /\ IsRecord(Signed(a, "approver"), DOMAIN Signed(a, "approver"))
        /\ \A x \in DOMAIN a : Signed(a, "approver")[x] = a[x]
    BY DEF Signed, IsRecord
  <2> DEFINE s == Signed(a, "approver")
  <2> HIDE DEF s
  <2>6. /\ s.principal = "approver" /\ s.grant_id = "g_approve"
        /\ s.approved_at = Now - 2 /\ s.activation_requested_at = Now - 1
        /\ s.policy_digest = PolicyDigest(p) /\ s.closure_digest = Digest(Closure(p))
        /\ s.interpretation_digest = Digest(Interpretation(p))
        /\ s.attestation_digest = Digest(Signable(Derivation(p)))
        /\ s.design_digest = p.design_digest /\ s.scope_digest = Digest(p.scope)
    BY <2>5 DEF s
  <2> QED  BY <2>1, <2>3, <2>4, <2>5, <2>6 DEF ApprovalTraced, After, p, s
<1>10. ContractTraced(Contract, {})
  <2>1. SameBut(Contract, Contract, {"permitted_predicates", "absence_establishes",
                                     "signature", "signed_digest"})
    BY DEF Contract, Signed, SameBut, IsRecord
  <2>2. /\ Contract.permitted_predicates = {"NOT_REVOKED", "REVOKED"}
        /\ Contract.absence_establishes = {"NOT_REVOKED"}
        /\ Contract.signature = Sign("contract-issuer", Contract.signed_digest)
    BY DEF Contract, Signed
  <2> QED  BY <2>1, <2>2 DEF ContractTraced, After
<1>11. ObservationTraced(Observation, {})
  <2>1. SameBut(Observation, Observation, {"contract_digest", "source_id", "source_role",
                                           "observed_at", "next_update", "evidence_state"})
    BY DEF Observation, SameBut, IsRecord
  <2>2. Contract.source_id = "revocation-source-A" /\ Contract.source_role = "REVOCATION_STATUS"
    BY DEF Contract, Signed
  <2>3. /\ Observation.contract_digest = Digest(Signable(Contract))
        /\ Observation.source_id = Contract.source_id
        /\ Observation.source_role = Contract.source_role
        /\ Observation.observed_at = Now - 1 /\ Observation.next_update = Now - 1 + MaxAge
        /\ Observation.evidence_state = "POSITIVELY_ESTABLISHED"
    BY DEF Observation
  <2>4. Now - (Now - 1) <= MaxAge /\ Now < Now - 1 + MaxAge
    BY TimeAssumption
  <2> QED  BY <2>1, <2>2, <2>3, <2>4 DEF ObservationTraced, StateTraced, After
<1> HIDE DEF p
<1> QED
  BY <1>1, <1>2, <1>3, <1>4, <1>5, <1>6, <1>7, <1>8, <1>9, <1>10, <1>11 DEF Traced, p

-----------------------------------------------------------------------------
(* A mutation is traced: what it reaches is as it says, and it reaches no    *)
(* other part.                                                               *)

\* What a mutation does not reach is traced as it was.
LEMMA OtherPartsTraced ==
    ASSUME NEW D, NEW d
    PROVE  LET E == D \cup {d} IN
           /\ \A f, g : PlainTraced(f, D) /\ d \notin PlainDrifts
                        /\ (\A x \in FixtureFields \ {"policy", "obligation", "register",
                                 "closure", "interpretation", "derivation", "approval",
                                 "observation_contract", "observation"} : g[x] = f[x])
                            => PlainTraced(g, E)
           /\ \A v : PolicyTraced(v, D) /\ d \notin PolicyDrifts => PolicyTraced(v, E)
           /\ \A v : ObligationTraced(v, D) /\ d \notin ObligationDrifts
                          => ObligationTraced(v, E)
           /\ \A v : RegisterTraced(v, D) /\ d \notin RegisterDrifts => RegisterTraced(v, E)
           /\ \A v : ClosureTraced(v, D) /\ d \notin ClosureDrifts => ClosureTraced(v, E)
           /\ \A v : InterpretationTraced(v, D) /\ d \notin InterpretationDrifts
                          => InterpretationTraced(v, E)
           /\ \A v : DerivationTraced(v, D) /\ d \notin DerivationDrifts
                          => DerivationTraced(v, E)
           /\ \A v : ApprovalTraced(v, D) /\ d \notin ApprovalDrifts => ApprovalTraced(v, E)
           /\ \A v : ContractTraced(v, D) /\ d \notin ContractDrifts => ContractTraced(v, E)
           /\ \A v : ObservationTraced(v, D) /\ d \notin ObservationDrifts
                          => ObservationTraced(v, E)
<1> DEFINE E == D \cup {d}
<1>1. ASSUME NEW f, NEW g, PlainTraced(f, D), d \notin PlainDrifts,
             \A x \in FixtureFields \ {"policy", "obligation", "register",
                     "closure", "interpretation", "derivation", "approval",
                     "observation_contract", "observation"} : g[x] = f[x]
      PROVE  PlainTraced(g, E)
  <2>1. /\ \A x \in Fixed : g[x] = f[x]
        /\ g.checker_enabled = f.checker_enabled
        /\ g.claimed_obligation_id = f.claimed_obligation_id
        /\ g.policy_source_current_digest = f.policy_source_current_digest
        /\ g.actual_scope_evaluator_version = f.actual_scope_evaluator_version
        /\ g.actual_tcb_digest = f.actual_tcb_digest
        /\ g.proof_graph = f.proof_graph /\ g.flags = f.flags
    BY <1>1 DEF FixtureFields, Fixed
  <2> QED  BY <1>1, <2>1 DEF PlainTraced, PlainDrifts, After
<1>2. ASSUME NEW v, PolicyTraced(v, D), d \notin PolicyDrifts PROVE PolicyTraced(v, E)
  BY <1>2 DEF PolicyTraced, PolicyDrifts, TargetDrifts, After
<1>3. ASSUME NEW v, ObligationTraced(v, D), d \notin ObligationDrifts
      PROVE  ObligationTraced(v, E)
  BY <1>3 DEF ObligationTraced, ObligationDrifts, After
<1>4. ASSUME NEW v, RegisterTraced(v, D), d \notin RegisterDrifts PROVE RegisterTraced(v, E)
  BY <1>4 DEF RegisterTraced, GrantTraced, RegisterDrifts, After
<1>5. ASSUME NEW v, ClosureTraced(v, D), d \notin ClosureDrifts PROVE ClosureTraced(v, E)
  BY <1>5 DEF ClosureTraced, ClosureDrifts, After
<1>6. ASSUME NEW v, InterpretationTraced(v, D), d \notin InterpretationDrifts
      PROVE  InterpretationTraced(v, E)
  BY <1>6 DEF InterpretationTraced, InterpretationDrifts, After
<1>7. ASSUME NEW v, DerivationTraced(v, D), d \notin DerivationDrifts
      PROVE  DerivationTraced(v, E)
  BY <1>7 DEF DerivationTraced, DerivationDrifts, After
<1>8. ASSUME NEW v, ApprovalTraced(v, D), d \notin ApprovalDrifts PROVE ApprovalTraced(v, E)
  BY <1>8 DEF ApprovalTraced, ApprovalDrifts, After
<1>9. ASSUME NEW v, ContractTraced(v, D), d \notin ContractDrifts PROVE ContractTraced(v, E)
  BY <1>9 DEF ContractTraced, ContractDrifts, After
<1>10. ASSUME NEW v, ObservationTraced(v, D), d \notin ObservationDrifts
       PROVE  ObservationTraced(v, E)
  BY <1>10 DEF ObservationTraced, StateTraced, ObservationDrifts, After
<1> QED  BY <1>1, <1>2, <1>3, <1>4, <1>5, <1>6, <1>7, <1>8, <1>9, <1>10

\* A mutation that replaces one part is traced when that part is.
LEMMA MutationTraced ==
    ASSUME NEW f, Shaped(f), NEW D, Traced(f, D), NEW d, NEW v
    PROVE  LET E == D \cup {d} IN
           /\ d \in PolicyDrifts /\ PolicyTraced(v, E)
                  => Traced([f EXCEPT !.policy = v], E)
           /\ d \in ObligationDrifts /\ ObligationTraced(v, E)
                  => Traced([f EXCEPT !.obligation = v], E)
           /\ d \in RegisterDrifts /\ RegisterTraced(v, E)
                  => Traced([f EXCEPT !.register = v], E)
           /\ d \in ClosureDrifts /\ ClosureTraced(v, E)
                  => Traced([f EXCEPT !.closure = v], E)
           /\ d \in InterpretationDrifts /\ InterpretationTraced(v, E)
                  => Traced([f EXCEPT !.interpretation = v], E)
           /\ d \in DerivationDrifts /\ DerivationTraced(v, E)
                  => Traced([f EXCEPT !.derivation = v], E)
           /\ d \in ApprovalDrifts /\ ApprovalTraced(v, E)
                  => Traced([f EXCEPT !.approval = v], E)
           /\ d = "predicate_not_permitted" /\ ContractTraced(v, E)
                  => Traced([f EXCEPT !.observation_contract = v], E)
           /\ d \in ObservationDrifts \ ContractDrifts /\ ObservationTraced(v, E)
                  => Traced([f EXCEPT !.observation = v], E)
<1> DEFINE E == D \cup {d}
           Replaced(x, g) == DOMAIN g = FixtureFields /\ g[x] = v
                             /\ \A y \in FixtureFields \ {x} : g[y] = f[y]
<1>1. DOMAIN f = FixtureFields
  BY DEF Shaped
<1>2. ASSUME d \in PolicyDrifts, PolicyTraced(v, E)
      PROVE  Traced([f EXCEPT !.policy = v], E)
  <2> DEFINE g == [f EXCEPT !.policy = v]
  <2>1. Replaced("policy", g)
    BY <1>1 DEF FixtureFields
  <2> HIDE DEF g
  <2>2. Traced(g, E)
    BY <1>2, <2>1, OtherPartsTraced DEF Traced, FixtureFields, PolicyDrifts, TargetDrifts,
       ObligationDrifts, RegisterDrifts, ClosureDrifts, InterpretationDrifts,
       DerivationDrifts, ApprovalDrifts, ContractDrifts, ObservationDrifts, PlainDrifts
  <2> QED  BY <2>2 DEF g
<1>3. ASSUME d \in ObligationDrifts, ObligationTraced(v, E)
      PROVE  Traced([f EXCEPT !.obligation = v], E)
  <2> DEFINE g == [f EXCEPT !.obligation = v]
  <2>1. Replaced("obligation", g)
    BY <1>1 DEF FixtureFields
  <2> HIDE DEF g
  <2>2. Traced(g, E)
    BY <1>3, <2>1, OtherPartsTraced DEF Traced, FixtureFields, PolicyDrifts, TargetDrifts,
       ObligationDrifts, RegisterDrifts, ClosureDrifts, InterpretationDrifts,
       DerivationDrifts, ApprovalDrifts, ContractDrifts, ObservationDrifts, PlainDrifts
  <2> QED  BY <2>2 DEF g
<1>4. ASSUME d \in RegisterDrifts, RegisterTraced(v, E)
      PROVE  Traced([f EXCEPT !.register = v], E)
  <2> DEFINE g == [f EXCEPT !.register = v]
  <2>1. Replaced("register", g)
    BY <1>1 DEF FixtureFields
  <2> HIDE DEF g
  <2>2. Traced(g, E)
    BY <1>4, <2>1, OtherPartsTraced DEF Traced, FixtureFields, PolicyDrifts, TargetDrifts,
       ObligationDrifts, RegisterDrifts, ClosureDrifts, InterpretationDrifts,
       DerivationDrifts, ApprovalDrifts, ContractDrifts, ObservationDrifts, PlainDrifts
  <2> QED  BY <2>2 DEF g
<1>5. ASSUME d \in ClosureDrifts, ClosureTraced(v, E)
      PROVE  Traced([f EXCEPT !.closure = v], E)
  <2> DEFINE g == [f EXCEPT !.closure = v]
  <2>1. Replaced("closure", g)
    BY <1>1 DEF FixtureFields
  <2> HIDE DEF g
  <2>2. Traced(g, E)
    BY <1>5, <2>1, OtherPartsTraced DEF Traced, FixtureFields, PolicyDrifts, TargetDrifts,
       ObligationDrifts, RegisterDrifts, ClosureDrifts, InterpretationDrifts,
       DerivationDrifts, ApprovalDrifts, ContractDrifts, ObservationDrifts, PlainDrifts
  <2> QED  BY <2>2 DEF g
<1>6. ASSUME d \in InterpretationDrifts, InterpretationTraced(v, E)
      PROVE  Traced([f EXCEPT !.interpretation = v], E)
  <2> DEFINE g == [f EXCEPT !.interpretation = v]
  <2>1. Replaced("interpretation", g)
    BY <1>1 DEF FixtureFields
  <2> HIDE DEF g
  <2>2. Traced(g, E)
    BY <1>6, <2>1, OtherPartsTraced DEF Traced, FixtureFields, PolicyDrifts, TargetDrifts,
       ObligationDrifts, RegisterDrifts, ClosureDrifts, InterpretationDrifts,
       DerivationDrifts, ApprovalDrifts, ContractDrifts, ObservationDrifts, PlainDrifts
  <2> QED  BY <2>2 DEF g
<1>7. ASSUME d \in DerivationDrifts, DerivationTraced(v, E)
      PROVE  Traced([f EXCEPT !.derivation = v], E)
  <2> DEFINE g == [f EXCEPT !.derivation = v]
  <2>1. Replaced("derivation", g)
    BY <1>1 DEF FixtureFields
  <2> HIDE DEF g
  <2>2. Traced(g, E)
    BY <1>7, <2>1, OtherPartsTraced DEF Traced, FixtureFields, PolicyDrifts, TargetDrifts,
       ObligationDrifts, RegisterDrifts, ClosureDrifts, InterpretationDrifts,
       DerivationDrifts, ApprovalDrifts, ContractDrifts, ObservationDrifts, PlainDrifts
  <2> QED  BY <2>2 DEF g
<1>8. ASSUME d \in ApprovalDrifts, ApprovalTraced(v, E)
      PROVE  Traced([f EXCEPT !.approval = v], E)
  <2> DEFINE g == [f EXCEPT !.approval = v]
  <2>1. Replaced("approval", g)
    BY <1>1 DEF FixtureFields
  <2> HIDE DEF g
  <2>2. Traced(g, E)
    BY <1>8, <2>1, OtherPartsTraced DEF Traced, FixtureFields, PolicyDrifts, TargetDrifts,
       ObligationDrifts, RegisterDrifts, ClosureDrifts, InterpretationDrifts,
       DerivationDrifts, ApprovalDrifts, ContractDrifts, ObservationDrifts, PlainDrifts
  <2> QED  BY <2>2 DEF g
<1>9. ASSUME d = "predicate_not_permitted", ContractTraced(v, E)
      PROVE  Traced([f EXCEPT !.observation_contract = v], E)
  <2> DEFINE g == [f EXCEPT !.observation_contract = v]
  <2>1. Replaced("observation_contract", g)
    BY <1>1 DEF FixtureFields
  <2> HIDE DEF g
  <2>2. Traced(g, E)
    BY <1>9, <2>1, OtherPartsTraced DEF Traced, FixtureFields, PolicyDrifts, TargetDrifts,
       ObligationDrifts, RegisterDrifts, ClosureDrifts, InterpretationDrifts,
       DerivationDrifts, ApprovalDrifts, ContractDrifts, ObservationDrifts, PlainDrifts
  <2> QED  BY <2>2 DEF g
<1>10. ASSUME d \in ObservationDrifts \ ContractDrifts, ObservationTraced(v, E)
      PROVE  Traced([f EXCEPT !.observation = v], E)
  <2> DEFINE g == [f EXCEPT !.observation = v]
  <2>1. Replaced("observation", g)
    BY <1>1 DEF FixtureFields
  <2> HIDE DEF g
  <2>2. Traced(g, E)
    BY <1>10, <2>1, OtherPartsTraced DEF Traced, FixtureFields, PolicyDrifts, TargetDrifts,
       ObligationDrifts, RegisterDrifts, ClosureDrifts, InterpretationDrifts,
       DerivationDrifts, ApprovalDrifts, ContractDrifts, ObservationDrifts, PlainDrifts
  <2> QED  BY <2>2 DEF g
<1> QED  BY <1>2, <1>3, <1>4, <1>5, <1>6, <1>7, <1>8, <1>9, <1>10


\* A record in which one of the excepted fields is replaced.
LEMMA FieldReplaced ==
    ASSUME NEW r, NEW b, NEW fields, SameBut(r, b, fields),
           NEW x \in fields, x \in DOMAIN b, NEW w
    PROVE  LET v == [r EXCEPT ![x] = w] IN
           /\ SameBut(v, b, fields) /\ DOMAIN v = DOMAIN r
           /\ v[x] = w /\ \A y \in DOMAIN b \ {x} : v[y] = r[y]
BY DEF SameBut, IsRecord

\* A policy that was traced to its mutations stays so when one more of its
\* own replaces it (scenarios.py).
LEMMA PolicyMutationTraced ==
    ASSUME NEW f, Shaped(f), NEW D, Traced(f, D), NEW d \in PolicyDrifts
    PROVE  Traced(Drift(d, f), D \cup {d})
<1> DEFINE E == D \cup {d}
           p == f.policy
           s == p.scope
           fields == {"scope", "version", "design_digest"}
           reached == {"targets", "jurisdiction"}
<1>1. PolicyTraced(p, D)
  BY DEF Traced
<1>2. SameBut(p, Candidate, fields) /\ SameBut(s, Device7, reached)
  BY <1>1 DEF PolicyTraced
<1>3. fields \subseteq DOMAIN Candidate /\ reached \subseteq DOMAIN Device7
  BY DEF Candidate, Policy, Device7
<1>4. ASSUME NEW v, PolicyTraced(v, E) PROVE Traced([f EXCEPT !.policy = v], E)
  BY <1>4, MutationTraced
<1>5. CASE d \in TargetDrifts
  <2> DEFINE t == IF d = "target_elsewhere" THEN {"device-99"} ELSE {"device-7", "device-8"}
             z == [s EXCEPT !.targets = t]
             v == [p EXCEPT !.scope = z]
  <2>1. Drift(d, f) = [f EXCEPT !.policy = v]
    BY <1>5 DEF Drift, Targets, TargetDrifts
  <2>2. ~(t \subseteq {"device-7"})
    OBVIOUS
  <2> HIDE DEF t
  <2>3. /\ SameBut(z, Device7, reached) /\ z.targets = t
        /\ z.jurisdiction = s.jurisdiction
    BY <1>2, <1>3, FieldReplaced
  <2> HIDE DEF z
  <2>4. /\ SameBut(v, Candidate, fields) /\ v.scope = z /\ v.version = p.version
        /\ v.design_digest = p.design_digest
    BY <1>2, <1>3, FieldReplaced
  <2> HIDE DEF v
  <2>5. PolicyTraced(v, E)
    BY <1>1, <1>5, <2>2, <2>3, <2>4 DEF PolicyTraced, After, TargetDrifts
  <2> QED  BY <1>4, <2>1, <2>5
<1>6. CASE d = "jurisdiction_changed"
  <2> DEFINE z == [s EXCEPT !.jurisdiction = "US"]
             v == [p EXCEPT !.scope = z]
  <2>1. Drift(d, f) = [f EXCEPT !.policy = v]
    BY <1>6 DEF Drift
  <2>2. /\ SameBut(z, Device7, reached) /\ z.jurisdiction = "US" /\ z.targets = s.targets
    BY <1>2, <1>3, FieldReplaced
  <2> HIDE DEF z
  <2>3. /\ SameBut(v, Candidate, fields) /\ v.scope = z /\ v.version = p.version
        /\ v.design_digest = p.design_digest
    BY <1>2, <1>3, FieldReplaced
  <2> HIDE DEF v
  <2>4. PolicyTraced(v, E)
    BY <1>1, <1>6, <2>2, <2>3 DEF PolicyTraced, After, TargetDrifts
  <2> QED  BY <1>4, <2>1, <2>4
<1>7. CASE d = "policy_superseded"
  <2> DEFINE v == [p EXCEPT !.version = 0]
  <2>1. Drift(d, f) = [f EXCEPT !.policy = v]
    <3> DEFINE g == [f EXCEPT !.policy = v]
    <3>1. f.latest_policy_version = 1
      BY DEF Traced, PlainTraced, Fixed, Built, ValidFixture
    <3>2. Drift(d, f) = [g EXCEPT !.latest_policy_version = 1]
      BY <1>7 DEF Drift
    <3>3. IsRecord(g, DOMAIN f) /\ g.latest_policy_version = 1
      BY <3>1 DEF IsRecord
    <3> HIDE DEF g
    <3>4. [g EXCEPT !.latest_policy_version = 1] = g
      BY <3>3 DEF IsRecord
    <3> QED  BY <3>2, <3>4 DEF g
  <2>2. /\ SameBut(v, Candidate, fields) /\ v.scope = s /\ v.version = 0
        /\ v.design_digest = p.design_digest
    BY <1>2, <1>3, FieldReplaced
  <2> HIDE DEF v
  <2>3. PolicyTraced(v, E)
    BY <1>1, <1>7, <2>2 DEF PolicyTraced, After, TargetDrifts
  <2> QED  BY <1>4, <2>1, <2>3
<1>8. CASE d = "design_changed"
  <2> DEFINE v == [p EXCEPT !.design_digest = Digest([design |-> "v2"])]
  <2>1. Drift(d, f) = [f EXCEPT !.policy = v]
    BY <1>8 DEF Drift
  <2>2. /\ SameBut(v, Candidate, fields) /\ v.scope = s /\ v.version = p.version
        /\ v.design_digest = Digest([design |-> "v2"])
    BY <1>2, <1>3, FieldReplaced
  <2> HIDE DEF v
  <2>3. PolicyTraced(v, E)
    BY <1>1, <1>8, <2>2 DEF PolicyTraced, After, TargetDrifts
  <2> QED  BY <1>4, <2>1, <2>3
<1> QED  BY <1>5, <1>6, <1>7, <1>8 DEF PolicyDrifts

\* One more mutation of the obligation leaves it traced.
LEMMA ObligationMutationTraced ==
    ASSUME NEW f, Shaped(f), NEW D, Traced(f, D), NEW d \in ObligationDrifts
    PROVE  Traced(Drift(d, f), D \cup {d})
<1> DEFINE E == D \cup {d}
           o == f.obligation
           fields == {"window", "actual_conflicts"}
<1>1. ObligationTraced(o, D) /\ f.now = Now
  BY DEF Traced
<1>2. SameBut(o, Obligation, fields) /\ fields \subseteq DOMAIN Obligation
  BY <1>1 DEF ObligationTraced, Obligation
<1>3. ASSUME NEW v, ObligationTraced(v, E) PROVE Traced([f EXCEPT !.obligation = v], E)
  BY <1>3, MutationTraced
<1>4. CASE d = "conflict_undeclared"
  <2> DEFINE v == [o EXCEPT !.actual_conflicts = {"conflict-1"}]
  <2>1. Drift(d, f) = [f EXCEPT !.obligation = v]
    BY <1>4 DEF Drift
  <2>2. /\ SameBut(v, Obligation, fields) /\ v.actual_conflicts = {"conflict-1"}
        /\ v.window = o.window
    BY <1>2, FieldReplaced
  <2> HIDE DEF v
  <2>3. ObligationTraced(v, E)
    BY <1>1, <1>4, <2>2 DEF ObligationTraced, After
  <2> QED  BY <1>3, <2>1, <2>3
<1>5. CASE d = "obligation_short"
  <2> DEFINE w == [o.window EXCEPT !.valid_until = f.now + 1]
             v == [o EXCEPT !.window = w]
  <2>1. Drift(d, f) = [f EXCEPT !.obligation = v]
    BY <1>5 DEF Drift
  <2>2. WindowContains(w, Now)
    <3>1. w.valid_from = Now - Span /\ w.valid_until = Now + 1
      BY <1>1 DEF Shaped, ObligationOK, WindowOK, IsRecord
    <3> HIDE DEF w
    <3> QED  BY <3>1, TimeAssumption DEF WindowContains
  <2> HIDE DEF w
  <2>3. /\ SameBut(v, Obligation, fields) /\ v.window = w
        /\ v.actual_conflicts = o.actual_conflicts
    BY <1>2, FieldReplaced
  <2> HIDE DEF v
  <2>4. ObligationTraced(v, E)
    BY <1>1, <1>5, <2>2, <2>3 DEF ObligationTraced, After
  <2> QED  BY <1>3, <2>1, <2>4
<1> QED  BY <1>4, <1>5 DEF ObligationDrifts

\* One more mutation of what the runtime reports it loaded leaves the
\* interpretation traced.
LEMMA InterpretationMutationTraced ==
    ASSUME NEW f, Shaped(f), NEW D, Traced(f, D), NEW d \in InterpretationDrifts
    PROVE  Traced(Drift(d, f), D \cup {d})
<1> DEFINE E == D \cup {d}
           i == f.interpretation
           r == i.runtime
           b == Interpretation(Candidate)
           reached == {"versions", "include", "normalised_executable"}
<1>1. InterpretationTraced(i, D)
  BY DEF Traced
<1>2. /\ SameBut(i, b, {"runtime"}) /\ SameBut(r, i.bound, reached)
      /\ {"bound", "runtime"} \subseteq DOMAIN b /\ reached \subseteq DOMAIN i.bound
  <2>1. DOMAIN b = {"bound", "runtime"} /\ reached \subseteq DOMAIN b.bound
    BY DEF Interpretation
  <2>2. SameBut(i, b, {"runtime"}) /\ SameBut(r, i.bound, reached)
    BY <1>1 DEF InterpretationTraced
  <2> HIDE DEF b, i, reached
  <2>3. i.bound = b.bound
    BY <2>1, <2>2 DEF SameBut
  <2> QED  BY <2>1, <2>2, <2>3
<1>3. ASSUME NEW v, InterpretationTraced(v, E)
      PROVE  Traced([f EXCEPT !.interpretation = v], E)
  BY <1>3, MutationTraced
<1>4. ASSUME NEW x \in reached, NEW w,
             w = CASE x = "versions" -> <<"1", "2", "1">>
                   [] x = "include" -> "includes changed"
                   [] x = "normalised_executable" -> Digest([executed |-> "B"]),
             d = CASE x = "versions" -> "parser_changed"
                   [] x = "include" -> "include_changed"
                   [] x = "normalised_executable" -> "executable_changed"
      PROVE  InterpretationTraced([i EXCEPT !.runtime = [r EXCEPT ![x] = w]], E)
  <2> DEFINE z == [r EXCEPT ![x] = w]
             v == [i EXCEPT !.runtime = z]
  <2>1. /\ SameBut(z, i.bound, reached) /\ z[x] = w
        /\ \A y \in reached \ {x} : z[y] = r[y]
    BY <1>2, FieldReplaced
  <2> HIDE DEF z
  <2>2. SameBut(v, b, {"runtime"}) /\ v.runtime = z /\ v.bound = i.bound
    BY <1>2, FieldReplaced
  <2> HIDE DEF v
  <2>3. /\ z.versions = After("parser_changed", E, <<"1", "2", "1">>, <<"1", "1", "1">>)
        /\ z.include = After("include_changed", E, "includes changed", "rules v1")
        /\ z.normalised_executable =
               After("executable_changed", E, Digest([executed |-> "B"]),
                     Closure(Candidate).aggregate_digest)
    <3>1. /\ r.versions = After("parser_changed", D, <<"1", "2", "1">>, <<"1", "1", "1">>)
          /\ r.include = After("include_changed", D, "includes changed", "rules v1")
          /\ r.normalised_executable =
                 After("executable_changed", D, Digest([executed |-> "B"]),
                       Closure(Candidate).aggregate_digest)
      BY <1>1 DEF InterpretationTraced
    <3>2. CASE x = "versions"
      BY <1>4, <2>1, <3>1, <3>2 DEF After
    <3>3. CASE x = "include"
      BY <1>4, <2>1, <3>1, <3>3 DEF After
    <3>4. CASE x = "normalised_executable"
      BY <1>4, <2>1, <3>1, <3>4 DEF After
    <3> QED  BY <3>2, <3>3, <3>4
  <2>4. InterpretationTraced(v, E)
    BY <2>1, <2>2, <2>3 DEF InterpretationTraced
  <2> QED  BY <2>4 DEF v, z
<1>5. CASE d = "parser_changed"
  <2>1. Drift(d, f) = [f EXCEPT !.interpretation =
                           [i EXCEPT !.runtime = [r EXCEPT !.versions = <<"1", "2", "1">>]]]
    BY <1>5 DEF Drift
  <2> QED  BY <1>3, <1>4, <1>5, <2>1
<1>6. CASE d = "include_changed"
  <2>1. Drift(d, f) = [f EXCEPT !.interpretation =
                           [i EXCEPT !.runtime = [r EXCEPT !.include = "includes changed"]]]
    BY <1>6 DEF Drift
  <2> QED  BY <1>3, <1>4, <1>6, <2>1
<1>7. CASE d = "executable_changed"
  <2>1. Drift(d, f) =
            [f EXCEPT !.interpretation =
                 [i EXCEPT !.runtime =
                      [r EXCEPT !.normalised_executable = Digest([executed |-> "B"])]]]
    BY <1>7 DEF Drift
  <2> QED  BY <1>3, <1>4, <1>7, <2>1
<1> QED  BY <1>5, <1>6, <1>7 DEF InterpretationDrifts

\* One more mutation of the register or of a grant in it leaves it traced.
LEMMA RegisterMutationTraced ==
    ASSUME NEW f, Shaped(f), NEW D, Traced(f, D), NEW d \in RegisterDrifts, Applicable(d, f)
    PROVE  Traced(Drift(d, f), D \cup {d})
<1> DEFINE E == D \cup {d}
           r == f.register
           grants == r.grants
           fields == {"grants", "current_version"}
           changes == {"window", "self_authored"}
<1>1. RegisterTraced(r, D) /\ f.now = Now /\ f.obligation_issuer_grant_id = "g_register"
  BY DEF Traced, PlainTraced, Fixed, Built, ValidFixture
<1>2. SameBut(r, Register, fields) /\ fields \subseteq DOMAIN Register
  BY <1>1 DEF RegisterTraced, Register
<1>3. ASSUME NEW v, RegisterTraced(v, E) PROVE Traced([f EXCEPT !.register = v], E)
  BY <1>3, MutationTraced
<1>4. /\ r.current_version = After("register_rolled_back", D, 2, 1)
      /\ DOMAIN grants = DOMAIN Holder \ After("issuer_grant_deleted", D, {"g_register"}, {})
      /\ \A id \in DOMAIN grants : GrantTraced(id, grants[id], D)
  BY <1>1 DEF RegisterTraced
<1>5. ASSUME NEW id, NEW g, GrantTraced(id, g, D),
             id # "g_register" \/ d \notin {"issuer_grant_expired", "issuer_grant_self_authored"}
      PROVE  GrantTraced(id, g, E)
  BY <1>5 DEF GrantTraced
<1>6. ASSUME NEW id \in DOMAIN grants, NEW g, GrantTraced(id, g, E),
             d \notin {"issuer_grant_deleted", "register_rolled_back"},
             id = "g_register" \/ d = "deriver_grant_short"
      PROVE  Traced([f EXCEPT !.register = [r EXCEPT !.grants = [grants EXCEPT ![id] = g]]], E)
  <2> DEFINE h == [grants EXCEPT ![id] = g]
             v == [r EXCEPT !.grants = h]
  <2>1. DOMAIN h = DOMAIN grants /\ h[id] = g /\ \A x \in DOMAIN grants \ {id} : h[x] = grants[x]
    OBVIOUS
  <2> HIDE DEF h
  <2>2. SameBut(v, Register, fields) /\ v.grants = h /\ v.current_version = r.current_version
    BY <1>2, FieldReplaced
  <2> HIDE DEF v, grants
  <2>3. \A x \in DOMAIN h : GrantTraced(x, h[x], E)
    BY <1>4, <1>5, <1>6, <2>1
  <2>4. RegisterTraced(v, E)
    BY <1>4, <1>6, <2>1, <2>2, <2>3 DEF RegisterTraced, After
  <2> QED  BY <1>3, <2>4 DEF v, h, grants
<1>7. ASSUME NEW id \in DOMAIN grants
      PROVE  /\ GrantTraced(id, grants[id], D) /\ GrantOK(grants[id])
             /\ SameBut(grants[id], Grant(id), changes)
             /\ changes \subseteq DOMAIN Grant(id)
  BY <1>4 DEF Shaped, RegisterOK, GrantTraced, Grant
<1>8. ASSUME NEW id \in DOMAIN grants, NEW t \in Int,
             \/ d = "issuer_grant_expired" /\ id = "g_register" /\ t = Now - 1
             \/ d = "deriver_grant_short" /\ id = "g_derive" /\ t = Now + 1
      PROVE  GrantTraced(id, Until(grants[id], t), E)
  <2> DEFINE g == grants[id]
             w == [g.window EXCEPT !.valid_until = t]
             z == [g EXCEPT !.window = w]
  <2>1. WindowContains(w, Now) <=> id = "g_derive"
    <3>1. w.valid_from = g.window.valid_from /\ w.valid_until = t
      BY <1>7 DEF GrantOK, WindowOK, IsRecord
    <3>2. id = "g_derive" => WindowContains(g.window, Now)
      BY <1>7 DEF GrantTraced
    <3> HIDE DEF w, g
    <3> QED  BY <1>8, <3>1, <3>2, TimeAssumption DEF WindowContains
  <2> HIDE DEF w
  <2>2. /\ SameBut(z, Grant(id), changes) /\ z.window = w
        /\ z.self_authored = g.self_authored
    <3>1. SameBut(g, Grant(id), changes) /\ changes \subseteq DOMAIN Grant(id)
      BY <1>7
    <3> HIDE DEF g
    <3> QED  BY <3>1, FieldReplaced
  <2>3. Until(g, t) = z
    BY DEF Until, w
  <2> HIDE DEF z
  <2>4. GrantTraced(id, z, E)
    BY <1>7, <1>8, <2>1, <2>2 DEF GrantTraced
  <2> QED  BY <2>3, <2>4
<1>9. {"g_derive", "g_register"} \subseteq DOMAIN Holder
  BY DEF Holder
<1>10. CASE d = "issuer_grant_deleted"
  <2> DEFINE h == Restrict(grants, DOMAIN grants \ {"g_register"})
             v == [r EXCEPT !.grants = h]
  <2>1. Drift(d, f) = [f EXCEPT !.register = v]
    BY <1>10 DEF Drift
  <2>2. /\ DOMAIN h = DOMAIN grants \ {"g_register"}
        /\ \A x \in DOMAIN h : h[x] = grants[x]
    BY DEF Restrict
  <2> HIDE DEF h
  <2>3. SameBut(v, Register, fields) /\ v.grants = h /\ v.current_version = r.current_version
    BY <1>2, FieldReplaced
  <2> HIDE DEF v, grants
  <2>4. \A x \in DOMAIN h : GrantTraced(x, h[x], E)
    BY <1>4, <1>5, <2>2
  <2>5. RegisterTraced(v, E)
    BY <1>4, <1>10, <2>2, <2>3, <2>4 DEF RegisterTraced, After
  <2> QED  BY <1>3, <2>1, <2>5
<1>11. CASE d = "register_rolled_back"
  <2> DEFINE v == [r EXCEPT !.current_version = 2]
  <2>1. Drift(d, f) = [f EXCEPT !.register = v]
    BY <1>11 DEF Drift
  <2>2. SameBut(v, Register, fields) /\ v.grants = grants /\ v.current_version = 2
    BY <1>2, FieldReplaced
  <2> HIDE DEF v
  <2>3. RegisterTraced(v, E)
    BY <1>4, <1>5, <1>11, <2>2 DEF RegisterTraced, After
  <2> QED  BY <1>3, <2>1, <2>3
<1>12. CASE d = "issuer_grant_expired"
  <2> DEFINE g == Until(grants["g_register"], f.now - 1)
  <2>1. "g_register" \in DOMAIN grants
    BY <1>1, <1>12 DEF Applicable
  <2>2. Drift(d, f) =
            [f EXCEPT !.register = [r EXCEPT !.grants = [grants EXCEPT !["g_register"] = g]]]
    BY <1>1, <1>12 DEF Drift, Revised
  <2>3. GrantTraced("g_register", g, E)
    <3>1. f.now - 1 \in Int
      BY <1>1, TimeAssumption
    <3> QED  BY <1>1, <1>8, <1>12, <2>1, <3>1
  <2> HIDE DEF g
  <2> QED  BY <1>6, <1>12, <2>1, <2>2, <2>3
<1>13. CASE d = "issuer_grant_self_authored"
  <2> DEFINE g == [grants["g_register"] EXCEPT !.self_authored = TRUE]
  <2>1. "g_register" \in DOMAIN grants
    BY <1>1, <1>13 DEF Applicable
  <2>2. Drift(d, f) =
            [f EXCEPT !.register = [r EXCEPT !.grants = [grants EXCEPT !["g_register"] = g]]]
    BY <1>1, <1>13 DEF Drift, Revised
  <2>3. GrantTraced("g_register", g, E)
    <3>1. /\ SameBut(g, Grant("g_register"), changes) /\ g.self_authored
          /\ g.window = grants["g_register"].window
      <4> DEFINE h == grants["g_register"]
      <4>1. SameBut(h, Grant("g_register"), changes) /\ changes \subseteq DOMAIN Grant("g_register")
        BY <1>7, <2>1
      <4> HIDE DEF h
      <4>2. /\ SameBut([h EXCEPT !.self_authored = TRUE], Grant("g_register"), changes)
            /\ [h EXCEPT !.self_authored = TRUE].window = h.window
            /\ [h EXCEPT !.self_authored = TRUE].self_authored = TRUE
        BY <4>1, FieldReplaced
      <4> QED  BY <4>2 DEF h
    <3> HIDE DEF g
    <3> QED  BY <1>7, <1>13, <2>1, <3>1 DEF GrantTraced
  <2> HIDE DEF g
  <2>4. Traced([f EXCEPT !.register =
                    [r EXCEPT !.grants = [grants EXCEPT !["g_register"] = g]]], E)
    BY <1>6, <1>13, <2>1, <2>3
  <2> QED  BY <2>2, <2>4
<1>14. CASE d = "deriver_grant_short"
  <2> DEFINE g == Until(grants["g_derive"], f.now + 1)
  <2>1. "g_derive" \in DOMAIN grants
    BY <1>4, <1>9 DEF After
  <2>2. Drift(d, f) =
            [f EXCEPT !.register = [r EXCEPT !.grants = [grants EXCEPT !["g_derive"] = g]]]
    BY <1>14 DEF Drift, Revised
  <2>3. GrantTraced("g_derive", g, E)
    BY <1>1, <1>8, <1>14, <2>1, TimeAssumption
  <2> HIDE DEF g
  <2> QED  BY <1>6, <1>14, <2>1, <2>2, <2>3
<1> QED  BY <1>10, <1>11, <1>12, <1>13, <1>14 DEF RegisterDrifts

\* One more mutation of the closure leaves it traced.
LEMMA ClosureMutationTraced ==
    ASSUME NEW f, Shaped(f), NEW D, Traced(f, D), NEW d \in ClosureDrifts
    PROVE  Traced(Drift(d, f), D \cup {d})
<1> DEFINE E == D \cup {d}
           c == f.closure
           fields == {"runtime_dependencies", "rule_inventory"}
           mutated == [Dependencies EXCEPT !.rules_lib = "rules v2"]
           added == {"unmapped_rule"}
<1>1. ClosureTraced(c, D) /\ f.policy.rules = Candidate.rules
  BY DEF Traced, PolicyTraced, SameBut, Candidate, Policy
<1>2. /\ SameBut(c, Closure(Candidate), fields) /\ fields \subseteq DOMAIN Closure(Candidate)
      /\ c.runtime_dependencies =
             After("runtime_dependency_changed", D, mutated, Dependencies)
      /\ IsRecord(c.rule_inventory, {"known", "rules"})
      /\ c.rule_inventory.rules = Candidate.rules \cup After("rule_unmapped", D, added, {})
      /\ c.rule_inventory.known \/ "rules_unknown" \in D
      /\ ~c.rule_inventory.known \/ "rules_unknown" \notin D \/ "rule_unmapped" \in D
  BY <1>1 DEF ClosureTraced, Closure
<1>3. ASSUME NEW v, ClosureTraced(v, E) PROVE Traced([f EXCEPT !.closure = v], E)
  BY <1>3, MutationTraced
<1>4. E \cap ClosureDrifts # {}
  OBVIOUS
<1>5. CASE d = "runtime_dependency_changed"
  <2> DEFINE w == [c.runtime_dependencies EXCEPT !.rules_lib = "rules v2"]
             v == [c EXCEPT !.runtime_dependencies = w]
  <2>1. Drift(d, f) = [f EXCEPT !.closure = v]
    BY <1>5 DEF Drift
  <2>2. w = mutated
    BY <1>2 DEF After, Dependencies
  <2> HIDE DEF w, mutated
  <2>3. /\ SameBut(v, Closure(Candidate), fields) /\ v.runtime_dependencies = w
        /\ v.rule_inventory = c.rule_inventory
    BY <1>2, FieldReplaced
  <2> HIDE DEF v
  <2>4. ClosureTraced(v, E)
    BY <1>2, <1>4, <1>5, <2>2, <2>3 DEF ClosureTraced, After, mutated
  <2> QED  BY <1>3, <2>1, <2>4
<1>6. CASE d = "rule_unmapped"
  <2> DEFINE w == [known |-> TRUE, rules |-> f.policy.rules \cup added]
             v == [c EXCEPT !.rule_inventory = w]
  <2>1. Drift(d, f) = [f EXCEPT !.closure = v]
    BY <1>6 DEF Drift
  <2>2. /\ IsRecord(w, {"known", "rules"}) /\ w.known
        /\ w.rules = Candidate.rules \cup added
    BY <1>1 DEF IsRecord
  <2> HIDE DEF w, mutated
  <2>3. /\ SameBut(v, Closure(Candidate), fields) /\ v.rule_inventory = w
        /\ v.runtime_dependencies = c.runtime_dependencies
    BY <1>2, FieldReplaced
  <2> HIDE DEF v
  <2>4. ClosureTraced(v, E)
    BY <1>2, <1>4, <1>6, <2>2, <2>3 DEF ClosureTraced, After, mutated
  <2> QED  BY <1>3, <2>1, <2>4
<1>7. CASE d = "rules_unknown"
  <2> DEFINE w == [c.rule_inventory EXCEPT !.known = FALSE]
             v == [c EXCEPT !.rule_inventory = w]
  <2>1. Drift(d, f) = [f EXCEPT !.closure = v]
    BY <1>7 DEF Drift
  <2>2. /\ IsRecord(w, {"known", "rules"}) /\ ~w.known
        /\ w.rules = c.rule_inventory.rules
    BY <1>2 DEF IsRecord
  <2> HIDE DEF w, mutated
  <2>3. /\ SameBut(v, Closure(Candidate), fields) /\ v.rule_inventory = w
        /\ v.runtime_dependencies = c.runtime_dependencies
    BY <1>2, FieldReplaced
  <2> HIDE DEF v
  <2>4. ClosureTraced(v, E)
    BY <1>2, <1>4, <1>7, <2>2, <2>3 DEF ClosureTraced, After, mutated
  <2> QED  BY <1>3, <2>1, <2>4
<1> QED  BY <1>5, <1>6, <1>7 DEF ClosureDrifts

\* One more mutation of the derivation leaves it traced, whether it was
\* signed again before or not.
LEMMA DerivationMutationTraced ==
    ASSUME NEW f, Shaped(f), NEW D, Traced(f, D), NEW d \in DerivationDrifts
    PROVE  Traced(Drift(d, f), D \cup {d})
<1> DEFINE E == D \cup {d}
           r == f.derivation
           b == Derivation(Candidate)
           reached == {"status", "coverage", "assumptions", "principal"}
           fields == reached \cup {"signature", "signed_digest"}
<1>1. DerivationTraced(r, D)
  BY DEF Traced
<1>2. /\ SameBut(r, b, fields) /\ fields \subseteq DOMAIN b
      /\ r.status = After("derivation_absent", D, "ABSENT", "CURRENT")
      /\ r.coverage = After("coverage_emptied", D, {}, Candidate.rules)
      /\ r.assumptions =
             After("assumptions_changed", D, "mutated-after-snapshot", "declared-inputs-only")
      /\ r.principal = After("derived_by_activator", D, "activator", "deriver")
  <2>1. fields \subseteq DOMAIN b
    BY DEF Derivation, Signed
  <2> HIDE DEF b
  <2> QED  BY <1>1, <2>1 DEF DerivationTraced, b
<1>3. ASSUME NEW x \in reached, NEW w
      PROVE  /\ SameBut([r EXCEPT ![x] = w], b, fields) /\ [r EXCEPT ![x] = w][x] = w
             /\ \A y \in reached \ {x} : [r EXCEPT ![x] = w][y] = r[y]
  <2>1. reached \subseteq fields
    OBVIOUS
  <2> HIDE DEF b, fields, reached
  <2> QED  BY <1>2, <1>3, <2>1, FieldReplaced
<1>4. ASSUME NEW v, DerivationTraced(v, E) PROVE Traced([f EXCEPT !.derivation = v], E)
  BY <1>4, MutationTraced
<1>5. E \cap DerivationDrifts # {}
  OBVIOUS
<1>6. ASSUME NEW v, SameBut(v, b, fields),
             v.status = After("derivation_absent", E, "ABSENT", "CURRENT"),
             v.coverage = After("coverage_emptied", E, {}, Candidate.rules),
             v.assumptions = After("assumptions_changed", E, "mutated-after-snapshot",
                                   "declared-inputs-only"),
             v.principal = After("derived_by_activator", E, "activator", "deriver")
      PROVE  Traced([f EXCEPT !.derivation = v], E)
  <2>1. fields = {"status", "coverage", "assumptions", "principal", "signature", "signed_digest"}
    OBVIOUS
  <2> HIDE DEF b, fields
  <2>2. DerivationTraced(v, E)
    BY <1>5, <1>6, <2>1 DEF DerivationTraced, b
  <2> QED  BY <1>4, <2>2
<1> HIDE DEF b
<1>7. CASE d = "derivation_absent"
  <2> DEFINE v == [r EXCEPT !.status = "ABSENT"]
  <2>1. Drift(d, f) = [f EXCEPT !.derivation = v]
    BY <1>7 DEF Drift
  <2>2. /\ SameBut(v, b, fields) /\ v.status = "ABSENT"
        /\ \A x \in reached \ {"status"} : v[x] = r[x]
    BY <1>3
  <2> HIDE DEF v
  <2>3. v.coverage = r.coverage /\ v.assumptions = r.assumptions /\ v.principal = r.principal
    BY <2>2
  <2>4. /\ v.status = After("derivation_absent", E, "ABSENT", "CURRENT")
        /\ v.coverage = After("coverage_emptied", E, {}, Candidate.rules)
        /\ v.assumptions = After("assumptions_changed", E, "mutated-after-snapshot",
                                 "declared-inputs-only")
        /\ v.principal = After("derived_by_activator", E, "activator", "deriver")
    BY <1>2, <1>7, <2>2, <2>3 DEF After
  <2> QED  BY <1>6, <2>1, <2>2, <2>4
<1>8. CASE d = "coverage_emptied"
  <2> DEFINE v == [r EXCEPT !.coverage = {}]
  <2>1. Drift(d, f) = [f EXCEPT !.derivation = v]
    BY <1>8 DEF Drift
  <2>2. /\ SameBut(v, b, fields) /\ v.coverage = {}
        /\ \A x \in reached \ {"coverage"} : v[x] = r[x]
    BY <1>3
  <2> HIDE DEF v
  <2>3. v.status = r.status /\ v.assumptions = r.assumptions /\ v.principal = r.principal
    BY <2>2
  <2>4. /\ v.status = After("derivation_absent", E, "ABSENT", "CURRENT")
        /\ v.coverage = After("coverage_emptied", E, {}, Candidate.rules)
        /\ v.assumptions = After("assumptions_changed", E, "mutated-after-snapshot",
                                 "declared-inputs-only")
        /\ v.principal = After("derived_by_activator", E, "activator", "deriver")
    BY <1>2, <1>8, <2>2, <2>3 DEF After
  <2> QED  BY <1>6, <2>1, <2>2, <2>4
<1>9. CASE d = "assumptions_changed"
  <2> DEFINE v == [r EXCEPT !.assumptions = "mutated-after-snapshot"]
  <2>1. Drift(d, f) = [f EXCEPT !.derivation = v]
    BY <1>9 DEF Drift
  <2>2. /\ SameBut(v, b, fields) /\ v.assumptions = "mutated-after-snapshot"
        /\ \A x \in reached \ {"assumptions"} : v[x] = r[x]
    BY <1>3
  <2> HIDE DEF v
  <2>3. v.status = r.status /\ v.coverage = r.coverage /\ v.principal = r.principal
    BY <2>2
  <2>4. /\ v.status = After("derivation_absent", E, "ABSENT", "CURRENT")
        /\ v.coverage = After("coverage_emptied", E, {}, Candidate.rules)
        /\ v.assumptions = After("assumptions_changed", E, "mutated-after-snapshot",
                                 "declared-inputs-only")
        /\ v.principal = After("derived_by_activator", E, "activator", "deriver")
    BY <1>2, <1>9, <2>2, <2>3 DEF After
  <2> QED  BY <1>6, <2>1, <2>2, <2>4
<1>10. CASE d = "derived_by_activator"
  <2> DEFINE v == [r EXCEPT !.principal = "activator"]
  <2>1. Drift(d, f) = [f EXCEPT !.derivation = v]
    BY <1>10 DEF Drift
  <2>2. /\ SameBut(v, b, fields) /\ v.principal = "activator"
        /\ \A x \in reached \ {"principal"} : v[x] = r[x]
    BY <1>3
  <2> HIDE DEF v
  <2>3. v.status = r.status /\ v.coverage = r.coverage /\ v.assumptions = r.assumptions
    BY <2>2
  <2>4. /\ v.status = After("derivation_absent", E, "ABSENT", "CURRENT")
        /\ v.coverage = After("coverage_emptied", E, {}, Candidate.rules)
        /\ v.assumptions = After("assumptions_changed", E, "mutated-after-snapshot",
                                 "declared-inputs-only")
        /\ v.principal = After("derived_by_activator", E, "activator", "deriver")
    BY <1>2, <1>10, <2>2, <2>3 DEF After
  <2> QED  BY <1>6, <2>1, <2>2, <2>4
<1> QED  BY <1>7, <1>8, <1>9, <1>10 DEF DerivationDrifts

\* One more mutation of the approval leaves it traced.
LEMMA ApprovalMutationTraced ==
    ASSUME NEW f, Shaped(f), NEW D, Traced(f, D), NEW d \in ApprovalDrifts
    PROVE  Traced(Drift(d, f), D \cup {d})
<1> DEFINE E == D \cup {d}
           a == f.approval
           fields == DOMAIN Approval(Candidate)
<1>1. ApprovalTraced(a, D) /\ f.now = Now
  BY DEF Traced
<1>2. /\ IsRecord(a, fields)
      /\ {"principal", "grant_id", "activation_requested_at", "approved_at",
          "policy_digest", "closure_digest", "interpretation_digest",
          "attestation_digest", "design_digest", "scope_digest"} \subseteq fields
  <2>1. IsRecord(a, fields)
    BY <1>1 DEF ApprovalTraced
  <2> QED  BY <2>1 DEF Approval, Signed
<1> HIDE DEF fields
<1>3. ASSUME NEW v, ApprovalTraced(v, E) PROVE Traced([f EXCEPT !.approval = v], E)
  BY <1>3, MutationTraced
<1>4. CASE d = "approved_too_late"
  <2> DEFINE v == [a EXCEPT !.approved_at = f.now, !.activation_requested_at = f.now - 1]
  <2>1. Drift(d, f) = [f EXCEPT !.approval = v]
    <3>1. Drift(d, f) = [f EXCEPT !.approval.approved_at = f.now,
                                  !.approval.activation_requested_at = f.now - 1]
      BY <1>4 DEF Drift
    <3>2. "approval" \in DOMAIN f
      BY DEF Shaped, FixtureFields
    <3> QED  BY <3>1, <3>2
  <2>2. /\ IsRecord(v, fields) /\ v.approved_at = Now /\ v.activation_requested_at = Now - 1
        /\ \A x \in fields \ {"approved_at", "activation_requested_at"} : v[x] = a[x]
    BY <1>1, <1>2 DEF IsRecord
  <2> HIDE DEF v
  <2>3. ApprovalTraced(v, E)
    BY <1>1, <1>2, <1>4, <2>2 DEF ApprovalTraced, After, fields
  <2> QED  BY <1>3, <2>1, <2>3
<1>5. CASE d = "approved_other_policy"
  <2> DEFINE v == [a EXCEPT !.policy_digest = Digest([other |-> "policy"])]
  <2>1. Drift(d, f) = [f EXCEPT !.approval = v]
    BY <1>5 DEF Drift
  <2>2. /\ IsRecord(v, fields) /\ v.policy_digest = Digest([other |-> "policy"])
        /\ \A x \in fields \ {"policy_digest"} : v[x] = a[x]
    BY <1>1, <1>2 DEF IsRecord
  <2> HIDE DEF v
  <2>3. ApprovalTraced(v, E)
    BY <1>1, <1>2, <1>5, <2>2 DEF ApprovalTraced, After, fields
  <2> QED  BY <1>3, <2>1, <2>3
<1> QED  BY <1>4, <1>5 DEF ApprovalDrifts

\* One more mutation of the observation contract, of the observation or of
\* both leaves them traced.
LEMMA EvidenceMutationTraced ==
    ASSUME NEW f, Shaped(f), NEW D, Traced(f, D),
           NEW d \in ContractDrifts \cup ObservationDrifts
    PROVE  Traced(Drift(d, f), D \cup {d})
<1> DEFINE E == D \cup {d}
           c == f.observation_contract
           o == f.observation
           terms == {"permitted_predicates", "absence_establishes", "signature",
                     "signed_digest"}
           fields == {"contract_digest", "source_id", "source_role", "observed_at",
                      "next_update", "evidence_state"}
<1>1. ContractTraced(c, D) /\ ObservationTraced(o, D) /\ f.now = Now
  BY DEF Traced
<1>2. SameBut(c, Contract, terms) /\ terms \subseteq DOMAIN Contract
  <2>1. terms \subseteq DOMAIN Contract
    BY DEF Contract, Signed
  <2> QED  BY <1>1, <2>1 DEF ContractTraced
<1>3. SameBut(o, Observation, fields) /\ fields \subseteq DOMAIN Observation
  <2>1. fields \subseteq DOMAIN Observation
    BY DEF Observation
  <2> QED  BY <1>1, <2>1 DEF ObservationTraced
<1>4. ASSUME NEW q, SameBut(q, Observation, fields), NEW x \in fields, NEW w
      PROVE  /\ SameBut([q EXCEPT ![x] = w], Observation, fields)
             /\ [q EXCEPT ![x] = w][x] = w
             /\ \A y \in fields \ {x} : [q EXCEPT ![x] = w][y] = q[y]
  <2> HIDE DEF fields
  <2> QED  BY <1>3, <1>4, FieldReplaced
<1>5. ASSUME NEW q, SameBut(q, Contract, terms), NEW x \in terms, NEW w
      PROVE  /\ SameBut([q EXCEPT ![x] = w], Contract, terms)
             /\ [q EXCEPT ![x] = w][x] = w
             /\ \A y \in terms \ {x} : [q EXCEPT ![x] = w][y] = q[y]
  <2> HIDE DEF terms
  <2> QED  BY <1>2, <1>5, FieldReplaced
<1>6. c.max_age = MaxAge
  <2>1. Contract.max_age = MaxAge /\ "max_age" \in DOMAIN Contract \ terms
    BY DEF Contract, Signed
  <2> QED  BY <1>2, <2>1 DEF SameBut
<1>7. ASSUME NEW v, ObservationTraced(v, E), d \notin ContractDrifts
      PROVE  Traced([f EXCEPT !.observation = v], E)
  <2>1. d \in ObservationDrifts \ ContractDrifts
    BY <1>7
  <2> QED  BY <1>7, <2>1, MutationTraced
<1>8. CASE d = "predicate_not_permitted"
  <2> DEFINE w == [c EXCEPT !.permitted_predicates = {"REVOKED"}]
             v == [w EXCEPT !.absence_establishes = {}]
  <2>1. Drift(d, f) = [f EXCEPT !.observation_contract = v]
    BY <1>8 DEF Drift
  <2>2. /\ SameBut(w, Contract, terms) /\ w.permitted_predicates = {"REVOKED"}
        /\ w.signature = c.signature /\ w.signed_digest = c.signed_digest
    BY <1>2, <1>5
  <2> HIDE DEF w
  <2>3. /\ SameBut(v, Contract, terms) /\ v.absence_establishes = {}
        /\ v.permitted_predicates = w.permitted_predicates
        /\ v.signature = w.signature /\ v.signed_digest = w.signed_digest
    BY <1>5, <2>2
  <2> HIDE DEF v
  <2>4. ContractTraced(v, E)
    BY <1>1, <1>8, <2>2, <2>3 DEF ContractTraced, After, ContractDrifts
  <2>5. Traced([f EXCEPT !.observation_contract = v], E)
    BY <1>8, <2>4, MutationTraced
  <2> QED  BY <2>1, <2>5
<1>9. CASE d = "absence_unwarranted"
  <2> DEFINE v == [c EXCEPT !.absence_establishes = {}]
             w == [o EXCEPT !.evidence_state = "ABSENCE_OBSERVED"]
             g == [f EXCEPT !.observation = w, !.observation_contract = v]
  <2>1. Drift(d, f) = g
    BY <1>9 DEF Drift
  <2>2. /\ g.observation = w /\ g.observation_contract = v
        /\ \A x \in FixtureFields \ {"observation", "observation_contract"} : g[x] = f[x]
    BY DEF Shaped, FixtureFields
  <2>3. /\ SameBut(v, Contract, terms) /\ v.absence_establishes = {}
        /\ v.permitted_predicates = c.permitted_predicates
        /\ v.signature = c.signature /\ v.signed_digest = c.signed_digest
    BY <1>2, <1>5
  <2>4. /\ SameBut(w, Observation, fields) /\ w.evidence_state = "ABSENCE_OBSERVED"
        /\ \A x \in fields \ {"evidence_state"} : w[x] = o[x]
    BY <1>3, <1>4
  <2> HIDE DEF g, v, w
  <2>5. ContractTraced(v, E)
    BY <1>1, <1>9, <2>3 DEF ContractTraced, After, ContractDrifts
  <2>6. ObservationTraced(w, E)
    BY <1>1, <1>9, <2>4 DEF ObservationTraced, StateTraced, After, ContractDrifts
  <2>7. Traced(g, E)
    BY <1>9, <2>2, <2>5, <2>6, OtherPartsTraced DEF Traced, FixtureFields, PolicyDrifts,
       TargetDrifts, ObligationDrifts, RegisterDrifts, ClosureDrifts, InterpretationDrifts,
       DerivationDrifts, ApprovalDrifts, PlainDrifts
  <2> QED  BY <2>1, <2>7
<1>10. CASE d = "status_invalid"
  <2> DEFINE w == [o EXCEPT !.evidence_state = "POSITIVELY_INVALID"]
  <2>1. Drift(d, f) = [f EXCEPT !.observation = w]
    BY <1>10 DEF Drift
  <2>2. /\ SameBut(w, Observation, fields) /\ w.evidence_state = "POSITIVELY_INVALID"
        /\ \A x \in fields \ {"evidence_state"} : w[x] = o[x]
    BY <1>3, <1>4
  <2> HIDE DEF w
  <2>3. ObservationTraced(w, E)
    BY <1>1, <1>10, <2>2 DEF ObservationTraced, StateTraced, After, ContractDrifts
  <2> QED  BY <1>7, <1>10, <2>1, <2>3 DEF ContractDrifts
<1>11. CASE d = "source_unavailable"
  <2> DEFINE w == [o EXCEPT !.evidence_state = "SOURCE_UNAVAILABLE"]
  <2>1. Drift(d, f) = [f EXCEPT !.observation = w]
    BY <1>11 DEF Drift
  <2>2. /\ SameBut(w, Observation, fields) /\ w.evidence_state = "SOURCE_UNAVAILABLE"
        /\ \A x \in fields \ {"evidence_state"} : w[x] = o[x]
    BY <1>3, <1>4
  <2> HIDE DEF w
  <2>3. ObservationTraced(w, E)
    BY <1>1, <1>11, <2>2 DEF ObservationTraced, StateTraced, After, ContractDrifts
  <2> QED  BY <1>7, <1>11, <2>1, <2>3 DEF ContractDrifts
<1>12. CASE d = "source_substituted"
  <2> DEFINE w == [o EXCEPT !.source_id = "revocation-source-B"]
  <2>1. Drift(d, f) = [f EXCEPT !.observation = w]
    BY <1>12 DEF Drift
  <2>2. /\ SameBut(w, Observation, fields) /\ w.source_id = "revocation-source-B"
        /\ \A x \in fields \ {"source_id"} : w[x] = o[x]
    BY <1>3, <1>4
  <2> HIDE DEF w
  <2>3. ObservationTraced(w, E)
    BY <1>1, <1>12, <2>2 DEF ObservationTraced, StateTraced, After, ContractDrifts
  <2> QED  BY <1>7, <1>12, <2>1, <2>3 DEF ContractDrifts
<1>13. CASE d = "role_substituted"
  <2> DEFINE w == [o EXCEPT !.source_role = "MIRROR_ONLY"]
  <2>1. Drift(d, f) = [f EXCEPT !.observation = w]
    BY <1>13 DEF Drift
  <2>2. /\ SameBut(w, Observation, fields) /\ w.source_role = "MIRROR_ONLY"
        /\ \A x \in fields \ {"source_role"} : w[x] = o[x]
    BY <1>3, <1>4
  <2> HIDE DEF w
  <2>3. ObservationTraced(w, E)
    BY <1>1, <1>13, <2>2 DEF ObservationTraced, StateTraced, After, ContractDrifts
  <2> QED  BY <1>7, <1>13, <2>1, <2>3 DEF ContractDrifts
<1>14. CASE d = "observed_at_limit"
  <2> DEFINE z == [o EXCEPT !.observed_at = f.now - c.max_age]
             w == [z EXCEPT !.next_update = f.now + 2]
  <2>1. Drift(d, f) = [f EXCEPT !.observation = w]
    <3>1. Drift(d, f) = [f EXCEPT !.observation.observed_at =
                                       f.now - f.observation_contract.max_age,
                                  !.observation.next_update = f.now + 2]
      BY <1>14 DEF Drift
    <3>2. "observation" \in DOMAIN f
      BY DEF Shaped, FixtureFields
    <3> QED  BY <3>1, <3>2
  <2>2. /\ SameBut(z, Observation, fields) /\ z.observed_at = Now - MaxAge
        /\ \A x \in fields \ {"observed_at"} : z[x] = o[x]
    BY <1>1, <1>3, <1>4, <1>6
  <2> HIDE DEF z
  <2>3. /\ SameBut(w, Observation, fields) /\ w.next_update = Now + 2
        /\ \A x \in fields \ {"next_update"} : w[x] = z[x]
    BY <1>1, <1>4, <2>2
  <2> HIDE DEF w
  <2>4. Now - (Now - MaxAge) <= MaxAge /\ Now < Now + 2
    BY TimeAssumption
  <2>5. ObservationTraced(w, E)
    BY <1>1, <1>14, <2>2, <2>3, <2>4 DEF ObservationTraced, StateTraced, After, ContractDrifts
  <2> QED  BY <1>7, <1>14, <2>1, <2>5 DEF ContractDrifts
<1> QED
  BY <1>8, <1>9, <1>10, <1>11, <1>12, <1>13, <1>14 DEF ContractDrifts, ObservationDrifts

\* One more mutation leaves traced what is no proof object: what is claimed,
\* what is actual, the flags and the graph.
LEMMA PlainMutationTraced ==
    ASSUME NEW f, Shaped(f), NEW D, Traced(f, D), NEW d \in PlainDrifts
    PROVE  Traced(Drift(d, f), D \cup {d})
<1> DEFINE E == D \cup {d}
           parts == {"now", "policy", "obligation", "register", "closure",
                     "interpretation", "derivation", "approval", "observation_contract",
                     "observation"}
<1>1. PlainTraced(f, D) /\ DOMAIN f = FixtureFields
  BY DEF Traced, Shaped
<1>2. ASSUME NEW g, PlainTraced(g, E), \A x \in parts : g[x] = f[x] PROVE Traced(g, E)
  BY <1>2, OtherPartsTraced DEF Traced, PlainDrifts, PolicyDrifts, TargetDrifts,
     ObligationDrifts, RegisterDrifts, ClosureDrifts, InterpretationDrifts,
     DerivationDrifts, ApprovalDrifts, ContractDrifts, ObservationDrifts
<1>3. ASSUME NEW g, NEW x \in FixtureFields \ parts, DOMAIN g = FixtureFields,
             \A y \in FixtureFields \ {x} : g[y] = f[y], PlainTraced(g, E)
      PROVE  Traced(g, E)
  <2>1. parts \subseteq FixtureFields \ {x}
    BY DEF FixtureFields
  <2> QED  BY <1>2, <1>3, <2>1
<1>4. CASE d = "checker_disabled"
  <2> DEFINE g == [f EXCEPT !.checker_enabled = FALSE]
  <2>1. /\ Drift(d, f) = g /\ DOMAIN g = FixtureFields /\ g.checker_enabled = FALSE
        /\ \A y \in FixtureFields \ {"checker_enabled"} : g[y] = f[y]
    BY <1>1, <1>4 DEF Drift, FixtureFields
  <2> HIDE DEF g
  <2>2. /\ \A y \in Fixed : g[y] = f[y]
        /\ g.claimed_obligation_id = f.claimed_obligation_id
        /\ g.policy_source_current_digest = f.policy_source_current_digest
        /\ g.actual_scope_evaluator_version = f.actual_scope_evaluator_version
        /\ g.actual_tcb_digest = f.actual_tcb_digest
        /\ g.proof_graph = f.proof_graph
        /\ g.flags = f.flags
    BY <2>1 DEF Fixed, FixtureFields
  <2>3. PlainTraced(g, E)
    BY <1>1, <1>4, <2>1, <2>2 DEF PlainTraced, After
  <2>4. "checker_enabled" \in FixtureFields \ parts
    BY DEF FixtureFields
  <2> QED  BY <1>3, <2>1, <2>3, <2>4
<1>5. CASE d = "obligation_misclaimed"
  <2> DEFINE g == [f EXCEPT !.claimed_obligation_id = "wrong-obligation"]
  <2>1. /\ Drift(d, f) = g /\ DOMAIN g = FixtureFields
        /\ g.claimed_obligation_id = "wrong-obligation"
        /\ \A y \in FixtureFields \ {"claimed_obligation_id"} : g[y] = f[y]
    BY <1>1, <1>5 DEF Drift, FixtureFields
  <2> HIDE DEF g
  <2>2. /\ \A y \in Fixed : g[y] = f[y]
        /\ g.checker_enabled = f.checker_enabled
        /\ g.policy_source_current_digest = f.policy_source_current_digest
        /\ g.actual_scope_evaluator_version = f.actual_scope_evaluator_version
        /\ g.actual_tcb_digest = f.actual_tcb_digest
        /\ g.proof_graph = f.proof_graph
        /\ g.flags = f.flags
    BY <2>1 DEF Fixed, FixtureFields
  <2>3. PlainTraced(g, E)
    BY <1>1, <1>5, <2>1, <2>2 DEF PlainTraced, After
  <2>4. "claimed_obligation_id" \in FixtureFields \ parts
    BY DEF FixtureFields
  <2> QED  BY <1>3, <2>1, <2>3, <2>4
<1>6. CASE d = "source_bytes_changed"
  <2> DEFINE g == [f EXCEPT !.policy_source_current_digest = Digest([changed |-> "bytes"])]
  <2>1. /\ Drift(d, f) = g /\ DOMAIN g = FixtureFields
        /\ g.policy_source_current_digest = Digest([changed |-> "bytes"])
        /\ \A y \in FixtureFields \ {"policy_source_current_digest"} : g[y] = f[y]
    BY <1>1, <1>6 DEF Drift, FixtureFields
  <2> HIDE DEF g
  <2>2. /\ \A y \in Fixed : g[y] = f[y]
        /\ g.checker_enabled = f.checker_enabled
        /\ g.claimed_obligation_id = f.claimed_obligation_id
        /\ g.actual_scope_evaluator_version = f.actual_scope_evaluator_version
        /\ g.actual_tcb_digest = f.actual_tcb_digest
        /\ g.proof_graph = f.proof_graph
        /\ g.flags = f.flags
    BY <2>1 DEF Fixed, FixtureFields
  <2>3. PlainTraced(g, E)
    BY <1>1, <1>6, <2>1, <2>2 DEF PlainTraced, After
  <2>4. "policy_source_current_digest" \in FixtureFields \ parts
    BY DEF FixtureFields
  <2> QED  BY <1>3, <2>1, <2>3, <2>4
<1>7. CASE d = "scope_evaluator_changed"
  <2> DEFINE g == [f EXCEPT !.actual_scope_evaluator_version = "scope-v2"]
  <2>1. /\ Drift(d, f) = g /\ DOMAIN g = FixtureFields
        /\ g.actual_scope_evaluator_version = "scope-v2"
        /\ \A y \in FixtureFields \ {"actual_scope_evaluator_version"} : g[y] = f[y]
    BY <1>1, <1>7 DEF Drift, FixtureFields
  <2> HIDE DEF g
  <2>2. /\ \A y \in Fixed : g[y] = f[y]
        /\ g.checker_enabled = f.checker_enabled
        /\ g.claimed_obligation_id = f.claimed_obligation_id
        /\ g.policy_source_current_digest = f.policy_source_current_digest
        /\ g.actual_tcb_digest = f.actual_tcb_digest
        /\ g.proof_graph = f.proof_graph
        /\ g.flags = f.flags
    BY <2>1 DEF Fixed, FixtureFields
  <2>3. PlainTraced(g, E)
    BY <1>1, <1>7, <2>1, <2>2 DEF PlainTraced, After
  <2>4. "actual_scope_evaluator_version" \in FixtureFields \ parts
    BY DEF FixtureFields
  <2> QED  BY <1>3, <2>1, <2>3, <2>4
<1>8. CASE d = "tcb_changed"
  <2> DEFINE g == [f EXCEPT !.actual_tcb_digest = "tcb modified"]
  <2>1. /\ Drift(d, f) = g /\ DOMAIN g = FixtureFields /\ g.actual_tcb_digest = "tcb modified"
        /\ \A y \in FixtureFields \ {"actual_tcb_digest"} : g[y] = f[y]
    BY <1>1, <1>8 DEF Drift, FixtureFields
  <2> HIDE DEF g
  <2>2. /\ \A y \in Fixed : g[y] = f[y]
        /\ g.checker_enabled = f.checker_enabled
        /\ g.claimed_obligation_id = f.claimed_obligation_id
        /\ g.policy_source_current_digest = f.policy_source_current_digest
        /\ g.actual_scope_evaluator_version = f.actual_scope_evaluator_version
        /\ g.proof_graph = f.proof_graph
        /\ g.flags = f.flags
    BY <2>1 DEF Fixed, FixtureFields
  <2>3. PlainTraced(g, E)
    BY <1>1, <1>8, <2>1, <2>2 DEF PlainTraced, After
  <2>4. "actual_tcb_digest" \in FixtureFields \ parts
    BY DEF FixtureFields
  <2> QED  BY <1>3, <2>1, <2>3, <2>4
<1>9. CASE d = "graph_cyclic"
  <2> DEFINE g == [f EXCEPT !.proof_graph = CyclicGraph]
  <2>1. /\ Drift(d, f) = g /\ DOMAIN g = FixtureFields /\ g.proof_graph = CyclicGraph
        /\ \A y \in FixtureFields \ {"proof_graph"} : g[y] = f[y]
    BY <1>1, <1>9 DEF Drift, FixtureFields
  <2> HIDE DEF g
  <2>2. /\ \A y \in Fixed : g[y] = f[y]
        /\ g.checker_enabled = f.checker_enabled
        /\ g.claimed_obligation_id = f.claimed_obligation_id
        /\ g.policy_source_current_digest = f.policy_source_current_digest
        /\ g.actual_scope_evaluator_version = f.actual_scope_evaluator_version
        /\ g.actual_tcb_digest = f.actual_tcb_digest
        /\ g.flags = f.flags
    BY <2>1 DEF Fixed, FixtureFields
  <2>3. PlainTraced(g, E)
    BY <1>1, <1>9, <2>1, <2>2 DEF PlainTraced, After
  <2>4. "proof_graph" \in FixtureFields \ parts
    BY DEF FixtureFields
  <2> QED  BY <1>3, <2>1, <2>3, <2>4
<1>10. CASE d = "activator_rogue"
  <2> DEFINE g == [f EXCEPT !.activation_principal = "rogue-actor"]
  <2>1. /\ Drift(d, f) = g /\ DOMAIN g = FixtureFields /\ g.activation_principal = "rogue-actor"
        /\ \A y \in FixtureFields \ {"activation_principal"} : g[y] = f[y]
    BY <1>1, <1>10 DEF Drift, FixtureFields
  <2> HIDE DEF g
  <2>2. /\ \A y \in Fixed : g[y] = f[y]
        /\ g.checker_enabled = f.checker_enabled
        /\ g.claimed_obligation_id = f.claimed_obligation_id
        /\ g.policy_source_current_digest = f.policy_source_current_digest
        /\ g.actual_scope_evaluator_version = f.actual_scope_evaluator_version
        /\ g.actual_tcb_digest = f.actual_tcb_digest
        /\ g.proof_graph = f.proof_graph
        /\ g.flags = f.flags
    BY <2>1 DEF Fixed, FixtureFields
  <2>3. PlainTraced(g, E)
    <3>1. \A e \in PlainDrifts \ {d} : e \in E <=> e \in D
      OBVIOUS
    <3>2. {"checker_disabled", "obligation_misclaimed", "source_bytes_changed",
           "scope_evaluator_changed", "tcb_changed", "graph_cyclic", "exception_generalised",
           "snapshot_race"} \subseteq PlainDrifts \ {d}
      BY <1>10 DEF PlainDrifts
    <3>3. D \cap {"exception_generalised", "snapshot_race"}
              = E \cap {"exception_generalised", "snapshot_race"}
      BY <3>1, <3>2
    <3> HIDE DEF E
    <3> QED  BY <1>1, <2>2, <3>1, <3>2, <3>3 DEF PlainTraced, After
  <2>4. "activation_principal" \in FixtureFields \ parts
    BY DEF FixtureFields
  <2> QED  BY <1>3, <2>1, <2>3, <2>4
<1>11. CASE d = "target_out_of_scope"
  <2> DEFINE g == [f EXCEPT !.decision_target = "device-99"]
  <2>1. /\ Drift(d, f) = g /\ DOMAIN g = FixtureFields /\ g.decision_target = "device-99"
        /\ \A y \in FixtureFields \ {"decision_target"} : g[y] = f[y]
    BY <1>1, <1>11 DEF Drift, FixtureFields
  <2> HIDE DEF g
  <2>2. /\ \A y \in Fixed : g[y] = f[y]
        /\ g.checker_enabled = f.checker_enabled
        /\ g.claimed_obligation_id = f.claimed_obligation_id
        /\ g.policy_source_current_digest = f.policy_source_current_digest
        /\ g.actual_scope_evaluator_version = f.actual_scope_evaluator_version
        /\ g.actual_tcb_digest = f.actual_tcb_digest
        /\ g.proof_graph = f.proof_graph
        /\ g.flags = f.flags
    BY <2>1 DEF Fixed, FixtureFields
  <2>3. PlainTraced(g, E)
    <3>1. \A e \in PlainDrifts \ {d} : e \in E <=> e \in D
      OBVIOUS
    <3>2. {"checker_disabled", "obligation_misclaimed", "source_bytes_changed",
           "scope_evaluator_changed", "tcb_changed", "graph_cyclic", "exception_generalised",
           "snapshot_race"} \subseteq PlainDrifts \ {d}
      BY <1>11 DEF PlainDrifts
    <3>3. D \cap {"exception_generalised", "snapshot_race"}
              = E \cap {"exception_generalised", "snapshot_race"}
      BY <3>1, <3>2
    <3> HIDE DEF E
    <3> QED  BY <1>1, <2>2, <3>1, <3>2, <3>3 DEF PlainTraced, After
  <2>4. "decision_target" \in FixtureFields \ parts
    BY DEF FixtureFields
  <2> QED  BY <1>3, <2>1, <2>3, <2>4
<1>12. CASE d \in {"exception_generalised", "snapshot_race"}
  <2> DEFINE g == [f EXCEPT !.flags = f.flags \cup {d}]
  <2>1. /\ Drift(d, f) = g /\ DOMAIN g = FixtureFields /\ g.flags = f.flags \cup {d}
        /\ \A y \in FixtureFields \ {"flags"} : g[y] = f[y]
    BY <1>1, <1>12 DEF Drift, FixtureFields
  <2> HIDE DEF g
  <2>2. /\ \A y \in Fixed : g[y] = f[y]
        /\ g.checker_enabled = f.checker_enabled
        /\ g.claimed_obligation_id = f.claimed_obligation_id
        /\ g.policy_source_current_digest = f.policy_source_current_digest
        /\ g.actual_scope_evaluator_version = f.actual_scope_evaluator_version
        /\ g.actual_tcb_digest = f.actual_tcb_digest
        /\ g.proof_graph = f.proof_graph
    BY <2>1 DEF Fixed, FixtureFields
  <2>3. PlainTraced(g, E)
    BY <1>1, <1>12, <2>1, <2>2 DEF PlainTraced, After
  <2>4. "flags" \in FixtureFields \ parts
    BY DEF FixtureFields
  <2> QED  BY <1>3, <2>1, <2>3, <2>4
<1> QED  BY <1>4, <1>5, <1>6, <1>7, <1>8, <1>9, <1>10, <1>11, <1>12 DEF PlainDrifts

\* What a mutation makes of the fixture is traced to it (scenarios.py).
LEMMA DriftTraced ==
    ASSUME NEW f, Shaped(f), NEW D, Traced(f, D), NEW d \in DriftNames, Applicable(d, f)
    PROVE  Traced(Drift(d, f), D \cup {d})
<1>1. \/ d \in PolicyDrifts \/ d \in ObligationDrifts \/ d \in RegisterDrifts
      \/ d \in ClosureDrifts \/ d \in InterpretationDrifts \/ d \in DerivationDrifts
      \/ d \in ApprovalDrifts \/ d \in ContractDrifts \cup ObservationDrifts
      \/ d \in PlainDrifts
  BY DEF DriftNames, PolicyDrifts, TargetDrifts, ObligationDrifts, RegisterDrifts,
     ClosureDrifts, InterpretationDrifts, DerivationDrifts, ApprovalDrifts,
     ContractDrifts, ObservationDrifts, PlainDrifts
<1> QED
  BY <1>1, PolicyMutationTraced, ObligationMutationTraced, RegisterMutationTraced,
     ClosureMutationTraced, InterpretationMutationTraced, DerivationMutationTraced,
     ApprovalMutationTraced, EvidenceMutationTraced, PlainMutationTraced

-----------------------------------------------------------------------------
(* What is signed again is traced to the same mutations.                     *)

\* A part that is as traced as the one it replaces.
LEMMA PartSigned ==
    ASSUME NEW f, Shaped(f), NEW D, Traced(f, D)
    PROVE  /\ \A v : DerivationTraced(v, D) => Traced([f EXCEPT !.derivation = v], D)
           /\ \A v : ApprovalTraced(v, D) => Traced([f EXCEPT !.approval = v], D)
           /\ \A v, w : ContractTraced(v, D) /\ ObservationTraced(w, D) =>
                  Traced([f EXCEPT !.observation_contract = v, !.observation = w], D)
<1> DEFINE parts == {"now", "policy", "obligation", "register", "closure",
                     "interpretation", "derivation", "approval", "observation_contract",
                     "observation"}
<1>1. ASSUME NEW g, \A x \in FixtureFields \ parts : g[x] = f[x] PROVE PlainTraced(g, D)
  <2>1. /\ \A x \in Fixed : g[x] = f[x]
        /\ g.checker_enabled = f.checker_enabled
        /\ g.claimed_obligation_id = f.claimed_obligation_id
        /\ g.policy_source_current_digest = f.policy_source_current_digest
        /\ g.actual_scope_evaluator_version = f.actual_scope_evaluator_version
        /\ g.actual_tcb_digest = f.actual_tcb_digest
        /\ g.proof_graph = f.proof_graph /\ g.flags = f.flags
    BY <1>1 DEF FixtureFields, Fixed
  <2>2. PlainTraced(f, D)
    BY DEF Traced
  <2> QED  BY <2>1, <2>2 DEF PlainTraced
<1>2. DOMAIN f = FixtureFields
  BY DEF Shaped
<1>3. ASSUME NEW v, DerivationTraced(v, D) PROVE Traced([f EXCEPT !.derivation = v], D)
  <2> DEFINE g == [f EXCEPT !.derivation = v]
  <2>1. g.derivation = v /\ \A x \in FixtureFields \ {"derivation"} : g[x] = f[x]
    BY <1>2 DEF FixtureFields
  <2> HIDE DEF g
  <2>2. Traced(g, D)
    BY <1>1, <1>3, <2>1 DEF Traced, FixtureFields
  <2> QED  BY <2>2 DEF g
<1>4. ASSUME NEW v, ApprovalTraced(v, D) PROVE Traced([f EXCEPT !.approval = v], D)
  <2> DEFINE g == [f EXCEPT !.approval = v]
  <2>1. g.approval = v /\ \A x \in FixtureFields \ {"approval"} : g[x] = f[x]
    BY <1>2 DEF FixtureFields
  <2> HIDE DEF g
  <2>2. Traced(g, D)
    BY <1>1, <1>4, <2>1 DEF Traced, FixtureFields
  <2> QED  BY <2>2 DEF g
<1>5. ASSUME NEW v, NEW w, ContractTraced(v, D), ObservationTraced(w, D)
      PROVE  Traced([f EXCEPT !.observation_contract = v, !.observation = w], D)
  <2> DEFINE g == [f EXCEPT !.observation_contract = v, !.observation = w]
  <2>1. /\ g.observation_contract = v /\ g.observation = w
        /\ \A x \in FixtureFields \ {"observation_contract", "observation"} : g[x] = f[x]
    BY <1>2 DEF FixtureFields
  <2> HIDE DEF g
  <2>2. Traced(g, D)
    BY <1>1, <1>5, <2>1 DEF Traced, FixtureFields
  <2> QED  BY <2>2 DEF g
<1> QED  BY <1>3, <1>4, <1>5

\* What was traced stays so, and the derivation verifies, when the deriver
\* signs it again (_resign_derivation).
LEMMA DeriverSigningTraced ==
    ASSUME NEW f, Shaped(f), NEW D, Traced(f, D)
    PROVE  /\ Traced(ResignDerivation(f), D)
           /\ SignatureValid(ResignDerivation(f).derivation)
<1> DEFINE d == f.derivation
           s == Signed(d, d.principal)
           b == Derivation(Candidate)
           fields == {"status", "coverage", "assumptions", "principal", "signature",
                      "signed_digest"}
<1>1. ResignDerivation(f) = [f EXCEPT !.derivation = s]
  BY DEF ResignDerivation
<1>2. DerivationTraced(d, D)
  BY DEF Traced
<1>3. SameBut(d, b, fields) /\ fields \subseteq DOMAIN b
  <2>1. fields \subseteq DOMAIN b
    BY DEF Derivation, Signed
  <2> HIDE DEF b
  <2> QED  BY <1>2, <2>1 DEF DerivationTraced, b
<1>4. DOMAIN d = DOMAIN b
  BY <1>3 DEF SameBut, IsRecord
<1>5. SignatureValid(s)
  BY <1>3, <1>4, SignedIsValid
<1>6. /\ IsRecord(s, DOMAIN d \cup {"signature", "signed_digest"})
      /\ \A x \in DOMAIN d \ {"signature", "signed_digest"} : s[x] = d[x]
  BY SigningKeepsContent
<1>7. "derivation" \in DOMAIN f
  BY DEF Shaped, FixtureFields
<1> HIDE DEF s, b
<1>8. SameBut(s, b, fields)
  BY <1>3, <1>4, <1>6 DEF SameBut, IsRecord
<1>9. /\ s.status = d.status /\ s.coverage = d.coverage
      /\ s.assumptions = d.assumptions /\ s.principal = d.principal
  BY <1>3, <1>4, <1>6
<1>10. DerivationTraced(s, D)
  BY <1>2, <1>5, <1>8, <1>9 DEF DerivationTraced, b
<1>11. Traced([f EXCEPT !.derivation = s], D)
  BY <1>10, PartSigned
<1> QED  BY <1>1, <1>5, <1>7, <1>11

\* Signing an approval again replaces its signature and nothing it says
\* (_resign_approval).
LEMMA ApprovalSigned ==
    ASSUME NEW a, IsRecord(a, DOMAIN Approval(Candidate)), a.principal = "approver"
    PROVE  LET s == Signed(a, a.principal)
           IN  /\ IsRecord(s, DOMAIN Approval(Candidate)) /\ SignatureValid(s)
               /\ s.principal = a.principal /\ s.grant_id = a.grant_id
               /\ s.approved_at = a.approved_at
               /\ s.activation_requested_at = a.activation_requested_at
               /\ s.policy_digest = a.policy_digest /\ s.closure_digest = a.closure_digest
               /\ s.interpretation_digest = a.interpretation_digest
               /\ s.attestation_digest = a.attestation_digest
               /\ s.design_digest = a.design_digest /\ s.scope_digest = a.scope_digest
<1> DEFINE s == Signed(a, a.principal)
           fields == DOMAIN Approval(Candidate)
<1>1. {"principal", "grant_id", "activation_requested_at", "approved_at",
       "policy_digest", "closure_digest", "interpretation_digest",
       "attestation_digest", "design_digest", "scope_digest", "signature",
       "signed_digest"} \subseteq fields
  BY DEF Approval, Signed
<1> HIDE DEF fields
<1>2. DOMAIN a = fields
  BY DEF IsRecord, fields
<1>3. SignatureValid(s)
  BY <1>1, <1>2, SignedIsValid
<1>4. /\ IsRecord(s, DOMAIN a \cup {"signature", "signed_digest"})
      /\ \A x \in DOMAIN a \ {"signature", "signed_digest"} : s[x] = a[x]
  BY SigningKeepsContent
<1> HIDE DEF s
<1>5. DOMAIN a \cup {"signature", "signed_digest"} = fields
  BY <1>1, <1>2
<1>6. IsRecord(s, fields)
  BY <1>4, <1>5
<1>7. /\ s.principal = a.principal /\ s.grant_id = a.grant_id
      /\ s.approved_at = a.approved_at
      /\ s.activation_requested_at = a.activation_requested_at
      /\ s.policy_digest = a.policy_digest /\ s.closure_digest = a.closure_digest
      /\ s.interpretation_digest = a.interpretation_digest
      /\ s.attestation_digest = a.attestation_digest
      /\ s.design_digest = a.design_digest /\ s.scope_digest = a.scope_digest
  BY <1>1, <1>2, <1>4
<1> QED  BY <1>3, <1>6, <1>7 DEF s, fields

\* What was traced stays so when the approver signs again what it approved
\* before.
LEMMA ApproverSigningTraced ==
    ASSUME NEW f, Shaped(f), NEW D, Traced(f, D)
    PROVE  Traced(ResignApproval(f), D)
<1> DEFINE a == f.approval
           s == Signed(a, a.principal)
<1>1. ApprovalTraced(a, D)
  BY DEF Traced
<1>2. IsRecord(a, DOMAIN Approval(Candidate)) /\ a.principal = "approver"
  BY <1>1 DEF ApprovalTraced
<1>3. ResignApproval(f) = [f EXCEPT !.approval = s]
  BY DEF ResignApproval
<1>4. ApprovalTraced(s, D)
  <2> HIDE DEF a
  <2>1. /\ IsRecord(s, DOMAIN Approval(Candidate)) /\ SignatureValid(s)
        /\ s.principal = a.principal /\ s.grant_id = a.grant_id
        /\ s.approved_at = a.approved_at
        /\ s.activation_requested_at = a.activation_requested_at
        /\ s.policy_digest = a.policy_digest /\ s.closure_digest = a.closure_digest
        /\ s.interpretation_digest = a.interpretation_digest
        /\ s.attestation_digest = a.attestation_digest
        /\ s.design_digest = a.design_digest /\ s.scope_digest = a.scope_digest
    BY <1>2, ApprovalSigned
  <2> HIDE DEF s
  <2> QED  BY <1>1, <2>1 DEF ApprovalTraced
<1> HIDE DEF s
<1>5. Traced([f EXCEPT !.approval = s], D)
  BY <1>4, PartSigned
<1> QED  BY <1>3, <1>5

\* What the digests of an approval name is as it was built, unless a mutation
\* has reached it.
LEMMA UnreachedAsBuilt ==
    ASSUME NEW f, Shaped(f), NEW D, Traced(f, D)
    PROVE  /\ "policy_superseded" \notin D => PolicyDigest(f.policy) = PolicyDigest(Candidate)
           /\ D \cap ClosureDrifts = {} => f.closure = Closure(Candidate)
           /\ D \cap InterpretationDrifts = {} => f.interpretation = Interpretation(Candidate)
           /\ D \cap DerivationDrifts = {} =>
                  Signable(f.derivation) = Signable(Derivation(Candidate))
           /\ "design_changed" \notin D => f.policy.design_digest = Candidate.design_digest
           /\ D \cap (TargetDrifts \cup {"jurisdiction_changed"}) = {} =>
                  f.policy.scope = Device7
           /\ D \cap ContractDrifts = {} =>
                  Signable(f.observation_contract) = Signable(Contract)
<1>1. ASSUME "policy_superseded" \notin D PROVE PolicyDigest(f.policy) = PolicyDigest(Candidate)
  <2> DEFINE p == f.policy
             b == Candidate
  <2>1. PolicyTraced(p, D)
    BY DEF Traced
  <2>2. /\ DOMAIN b = {"policy_id", "content", "version", "scope", "rules", "design_digest"}
        /\ b.version = 1
    BY DEF Candidate, Policy
  <2> HIDE DEF p, b
  <2>3. DOMAIN p = DOMAIN b /\ p.content = b.content /\ p.version = b.version
    BY <1>1, <2>1, <2>2 DEF PolicyTraced, SameBut, IsRecord, After, b
  <2>4. Restrict(p, {"content", "version"}) = Restrict(b, {"content", "version"})
    BY <2>2, <2>3 DEF Restrict
  <2> QED  BY <2>4 DEF PolicyDigest, p, b
<1>2. ASSUME D \cap ClosureDrifts = {} PROVE f.closure = Closure(Candidate)
  BY <1>2 DEF Traced, ClosureTraced
<1>3. ASSUME D \cap InterpretationDrifts = {}
      PROVE  f.interpretation = Interpretation(Candidate)
  <2> DEFINE i == f.interpretation
             b == Interpretation(Candidate)
             k == b.bound
  <2>1. InterpretationTraced(i, D)
    BY DEF Traced
  <2>2. /\ IsRecord(b, {"bound", "runtime"}) /\ b.runtime = k
        /\ IsRecord(k, DOMAIN k) /\ k.versions = <<"1", "1", "1">> /\ k.include = "rules v1"
        /\ k.normalised_executable = Closure(Candidate).aggregate_digest
    BY DEF Interpretation, IsRecord
  <2> HIDE DEF i, b, k
  <2>3. /\ SameBut(i, b, {"runtime"})
        /\ SameBut(i.runtime, i.bound, {"versions", "include", "normalised_executable"})
        /\ i.runtime.versions = k.versions /\ i.runtime.include = k.include
        /\ i.runtime.normalised_executable = k.normalised_executable
    BY <1>3, <2>1, <2>2 DEF InterpretationTraced, InterpretationDrifts, After, b
  <2>4. i.bound = k
    BY <2>2, <2>3 DEF SameBut, IsRecord, k
  <2>5. i.runtime = k
    <3> DEFINE r == i.runtime
    <3>1. /\ IsRecord(r, DOMAIN k)
          /\ \A x \in DOMAIN k \ {"versions", "include", "normalised_executable"} : r[x] = k[x]
      BY <2>3, <2>4 DEF SameBut
    <3>2. \A x \in {"versions", "include", "normalised_executable"} : r[x] = k[x]
      BY <2>3
    <3> HIDE DEF r
    <3>3. \A x \in DOMAIN k : r[x] = k[x]
      BY <3>1, <3>2
    <3>4. r = k
      BY <2>2, <3>1, <3>3 DEF IsRecord
    <3> QED  BY <3>4 DEF r
  <2>6. i = b
    <3>1. IsRecord(i, {"bound", "runtime"}) /\ b.bound = k
      BY <2>2, <2>3 DEF SameBut, IsRecord, k
    <3>2. \A x \in {"bound", "runtime"} : i[x] = b[x]
      BY <2>2, <2>4, <2>5, <3>1
    <3>3. IsRecord(b, {"bound", "runtime"})
      BY <2>2
    <3> QED  BY <3>1, <3>2, <3>3 DEF IsRecord
  <2> QED  BY <2>6 DEF i, b
<1>4. ASSUME D \cap DerivationDrifts = {}
      PROVE  Signable(f.derivation) = Signable(Derivation(Candidate))
  <2> DEFINE d == f.derivation
             b == Derivation(Candidate)
  <2>1. DerivationTraced(d, D)
    BY DEF Traced
  <2>2. /\ b.status = "CURRENT" /\ b.coverage = Candidate.rules
        /\ b.assumptions = "declared-inputs-only" /\ b.principal = "deriver"
    BY DEF Derivation, Signed
  <2> HIDE DEF d, b
  <2>3. /\ SameBut(d, b, {"status", "coverage", "assumptions", "principal", "signature",
                          "signed_digest"})
        /\ d.status = b.status /\ d.coverage = b.coverage
        /\ d.assumptions = b.assumptions /\ d.principal = b.principal
    BY <1>4, <2>1, <2>2 DEF DerivationTraced, DerivationDrifts, After, b
  <2>4. /\ DOMAIN d = DOMAIN b
        /\ \A x \in DOMAIN b \ {"signature", "signed_digest"} : d[x] = b[x]
    BY <2>3 DEF SameBut, IsRecord
  <2>5. Signable(d) = Signable(b)
    BY <2>4 DEF Signable, Restrict
  <2> QED  BY <2>5 DEF d, b
<1>5. ASSUME "design_changed" \notin D
      PROVE  f.policy.design_digest = Candidate.design_digest
  BY <1>5 DEF Traced, PolicyTraced, After
<1>6. ASSUME D \cap (TargetDrifts \cup {"jurisdiction_changed"}) = {}
      PROVE  f.policy.scope = Device7
  <2> DEFINE s == f.policy.scope
  <2>1. /\ SameBut(s, Device7, {"targets", "jurisdiction"})
        /\ s.targets = {"device-7"} /\ s.jurisdiction = "GB"
    BY <1>6 DEF Traced, PolicyTraced, After
  <2> HIDE DEF s
  <2>2. s = Device7
    BY <2>1 DEF SameBut, IsRecord, Device7
  <2> QED  BY <2>2 DEF s
<1>7. ASSUME D \cap ContractDrifts = {}
      PROVE  Signable(f.observation_contract) = Signable(Contract)
  <2> DEFINE c == f.observation_contract
             b == Contract
  <2>1. ContractTraced(c, D)
    BY DEF Traced
  <2>2. /\ b.permitted_predicates = {"NOT_REVOKED", "REVOKED"}
        /\ b.absence_establishes = {"NOT_REVOKED"}
    BY DEF Contract, Signed
  <2> HIDE DEF c, b
  <2>3. /\ SameBut(c, b, {"permitted_predicates", "absence_establishes", "signature",
                          "signed_digest"})
        /\ c.permitted_predicates = b.permitted_predicates
        /\ c.absence_establishes = b.absence_establishes
    BY <1>7, <2>1, <2>2 DEF ContractTraced, ContractDrifts, After, b
  <2>4. /\ DOMAIN c = DOMAIN b
        /\ \A x \in DOMAIN b \ {"signature", "signed_digest"} : c[x] = b[x]
    BY <2>3 DEF SameBut, IsRecord
  <2>5. Signable(c) = Signable(b)
    BY <2>4 DEF Signable, Restrict
  <2> QED  BY <2>5 DEF c, b
<1> QED  BY <1>1, <1>2, <1>3, <1>4, <1>5, <1>6, <1>7

\* What was traced stays so, and the approval is bound, when the approver
\* signs for all that there is now (_rebind_approval).
LEMMA ApproverRebindingTraced ==
    ASSUME NEW f, Shaped(f), NEW D, Traced(f, D)
    PROVE  Traced(RebindApproval(f), D) /\ ApprovalBound(RebindApproval(f))
<1> DEFINE a == f.approval
           b == [a EXCEPT !.policy_digest = PolicyDigest(f.policy),
                          !.closure_digest = Digest(f.closure),
                          !.interpretation_digest = Digest(f.interpretation),
                          !.attestation_digest = Digest(Signable(f.derivation)),
                          !.design_digest = f.policy.design_digest,
                          !.scope_digest = Digest(f.policy.scope)]
           s == Signed(b, b.principal)
           h == [f EXCEPT !.approval.policy_digest = PolicyDigest(f.policy),
                          !.approval.closure_digest = Digest(f.closure),
                          !.approval.interpretation_digest = Digest(f.interpretation),
                          !.approval.attestation_digest = Digest(Signable(f.derivation)),
                          !.approval.design_digest = f.policy.design_digest,
                          !.approval.scope_digest = Digest(f.policy.scope)]
           fields == DOMAIN Approval(Candidate)
<1>1. h = [f EXCEPT !.approval = b]
  OBVIOUS
<1>2. RebindApproval(f) = [h EXCEPT !.approval = Signed(h.approval, h.approval.principal)]
  BY DEF RebindApproval, ResignApproval
<1>3. ApprovalTraced(a, D)
  BY DEF Traced
<1>4. /\ IsRecord(a, fields)
      /\ {"principal", "grant_id", "activation_requested_at", "approved_at",
          "policy_digest", "closure_digest", "interpretation_digest",
          "attestation_digest", "design_digest", "scope_digest"} \subseteq fields
  <2>1. IsRecord(a, fields)
    BY <1>3 DEF ApprovalTraced
  <2> QED  BY <2>1 DEF Approval, Signed
<1> HIDE DEF fields
<1>5. /\ IsRecord(b, fields)
      /\ b.principal = a.principal /\ b.grant_id = a.grant_id
      /\ b.approved_at = a.approved_at
      /\ b.activation_requested_at = a.activation_requested_at
      /\ b.policy_digest = PolicyDigest(f.policy) /\ b.closure_digest = Digest(f.closure)
      /\ b.interpretation_digest = Digest(f.interpretation)
      /\ b.attestation_digest = Digest(Signable(f.derivation))
      /\ b.design_digest = f.policy.design_digest /\ b.scope_digest = Digest(f.policy.scope)
  BY <1>4 DEF IsRecord
<1>6. "approval" \in DOMAIN f
  BY DEF Shaped, FixtureFields
<1> HIDE DEF h, b
<1>7. RebindApproval(f) = [f EXCEPT !.approval = s]
  <2>1. h.approval = b
    BY <1>1, <1>6
  <2>2. RebindApproval(f) = [h EXCEPT !.approval = s]
    BY <1>2, <2>1
  <2> HIDE DEF s
  <2> QED  BY <1>1, <2>2
<1>8. /\ IsRecord(s, fields) /\ SignatureValid(s)
      /\ s.principal = a.principal /\ s.grant_id = a.grant_id
      /\ s.approved_at = a.approved_at
      /\ s.activation_requested_at = a.activation_requested_at
      /\ s.policy_digest = PolicyDigest(f.policy) /\ s.closure_digest = Digest(f.closure)
      /\ s.interpretation_digest = Digest(f.interpretation)
      /\ s.attestation_digest = Digest(Signable(f.derivation))
      /\ s.design_digest = f.policy.design_digest /\ s.scope_digest = Digest(f.policy.scope)
  <2>1. IsRecord(b, DOMAIN Approval(Candidate)) /\ b.principal = "approver"
    BY <1>3, <1>5 DEF ApprovalTraced, fields
  <2> HIDE DEF a
  <2>2. /\ IsRecord(s, DOMAIN Approval(Candidate)) /\ SignatureValid(s)
        /\ s.principal = b.principal /\ s.grant_id = b.grant_id
        /\ s.approved_at = b.approved_at
        /\ s.activation_requested_at = b.activation_requested_at
        /\ s.policy_digest = b.policy_digest /\ s.closure_digest = b.closure_digest
        /\ s.interpretation_digest = b.interpretation_digest
        /\ s.attestation_digest = b.attestation_digest
        /\ s.design_digest = b.design_digest /\ s.scope_digest = b.scope_digest
    BY <2>1, ApprovalSigned
  <2> HIDE DEF s
  <2> QED  BY <1>5, <2>2 DEF fields
<1> HIDE DEF s
<1>9. ApprovalTraced(s, D)
  BY <1>3, <1>8, UnreachedAsBuilt DEF ApprovalTraced, fields
<1>10. Traced([f EXCEPT !.approval = s], D)
  BY <1>9, PartSigned
<1>11. ApprovalBound([f EXCEPT !.approval = s])
  <2> DEFINE g == [f EXCEPT !.approval = s]
  <2>1. /\ g.approval = s /\ g.policy = f.policy /\ g.closure = f.closure
        /\ g.interpretation = f.interpretation /\ g.derivation = f.derivation
    BY <1>6
  <2> HIDE DEF g
  <2>2. ApprovalBound(g)
    BY <1>8, <2>1 DEF ApprovalBound
  <2> QED  BY <2>2 DEF g
<1> QED  BY <1>7, <1>10, <1>11

\* What was traced stays so, and the observation is under its contract, when
\* the contract's issuer signs again (_resign_contract).
LEMMA IssuerSigningTraced ==
    ASSUME NEW f, Shaped(f), NEW D, Traced(f, D)
    PROVE  LET g == ResignContract(f) IN
           Traced(g, D) /\ g.observation.contract_digest = Digest(Signable(g.observation_contract))
<1> DEFINE c == f.observation_contract
           o == f.observation
           s == Signed(c, c.issuer)
           w == [o EXCEPT !.contract_digest = Digest(Signable(s)), !.contract_version = s.version]
           terms == {"permitted_predicates", "absence_establishes", "signature",
                     "signed_digest"}
           fields == {"contract_digest", "source_id", "source_role", "observed_at",
                      "next_update", "evidence_state"}
<1>1. ContractTraced(c, D) /\ ObservationTraced(o, D)
  BY DEF Traced
<1>2. /\ SameBut(c, Contract, terms) /\ terms \subseteq DOMAIN Contract
      /\ {"version", "issuer"} \subseteq DOMAIN Contract \ terms
      /\ Contract.version = 1 /\ Contract.issuer = "contract-issuer"
  <2>1. /\ terms \subseteq DOMAIN Contract
        /\ {"version", "issuer"} \subseteq DOMAIN Contract \ terms
        /\ Contract.version = 1 /\ Contract.issuer = "contract-issuer"
    BY DEF Contract, Signed
  <2> QED  BY <1>1, <2>1 DEF ContractTraced
<1>3. /\ SameBut(o, Observation, fields)
      /\ fields \cup {"contract_version"} \subseteq DOMAIN Observation
      /\ Observation.contract_version = 1
  <2>1. /\ fields \cup {"contract_version"} \subseteq DOMAIN Observation
        /\ Observation.contract_version = 1
    BY <1>2 DEF Observation
  <2> QED  BY <1>1, <2>1 DEF ObservationTraced
<1>4. DOMAIN c = DOMAIN Contract /\ c.issuer = "contract-issuer" /\ c.version = 1
  BY <1>2 DEF SameBut, IsRecord
<1>5. DOMAIN o = DOMAIN Observation /\ o.contract_version = 1
  BY <1>3 DEF SameBut, IsRecord
<1>6. /\ IsRecord(s, DOMAIN c \cup {"signature", "signed_digest"})
      /\ \A x \in DOMAIN c \ {"signature", "signed_digest"} : s[x] = c[x]
      /\ Signable(s) = Signable(c) /\ s.signed_digest = Digest(Signable(c))
      /\ s.signature = Sign(c.issuer, Digest(Signable(c)))
  BY SigningKeepsContent
<1> HIDE DEF s
<1>7. ContractTraced(s, D)
  <2>1. SameBut(s, Contract, terms)
    BY <1>2, <1>4, <1>6 DEF SameBut, IsRecord
  <2>2. /\ s.permitted_predicates = c.permitted_predicates
        /\ s.absence_establishes = c.absence_establishes
        /\ s.signature = Sign("contract-issuer", s.signed_digest)
    BY <1>2, <1>4, <1>6
  <2> QED  BY <1>1, <2>1, <2>2 DEF ContractTraced
<1>8. s.version = 1
  BY <1>2, <1>4, <1>6
<1>9. /\ SameBut(w, Observation, fields) /\ w.contract_digest = Digest(Signable(s))
      /\ \A x \in fields \ {"contract_digest"} : w[x] = o[x]
  BY <1>3, <1>5, <1>8 DEF SameBut, IsRecord
<1>10. ResignContract(f) = [f EXCEPT !.observation_contract = s, !.observation = w]
  BY DEF ResignContract, s
<1>11. DOMAIN f = FixtureFields
  BY DEF Shaped
<1> HIDE DEF w
<1>12. ObservationTraced(w, D)
  BY <1>1, <1>6, <1>9, UnreachedAsBuilt DEF ObservationTraced
<1>13. Traced([f EXCEPT !.observation_contract = s, !.observation = w], D)
  BY <1>7, <1>12, PartSigned
<1>14. /\ [f EXCEPT !.observation_contract = s, !.observation = w].observation_contract = s
       /\ [f EXCEPT !.observation_contract = s, !.observation = w].observation = w
  BY <1>11 DEF FixtureFields
<1> QED  BY <1>9, <1>10, <1>13, <1>14

\* No mutation and no signature moves the clock.
LEMMA ClockIsKept ==
    ASSUME NEW f, Shaped(f)
    PROVE  /\ \A d \in DriftNames : Drift(d, f).now = f.now
           /\ ResignDerivation(f).now = f.now /\ ResignApproval(f).now = f.now
           /\ RebindApproval(f).now = f.now /\ ResignContract(f).now = f.now
<1>1. ASSUME NEW d \in RegisterDrifts
      PROVE Drift(d, f).now = f.now
  BY <1>1 DEF Drift, Revised, Shaped, FixtureFields, RegisterDrifts
<1>2. ASSUME NEW d \in PolicyDrifts \cup ObligationDrifts PROVE Drift(d, f).now = f.now
  BY <1>2 DEF Drift, Targets, Shaped, FixtureFields, PolicyDrifts, TargetDrifts, ObligationDrifts
<1>3. ASSUME NEW d \in ClosureDrifts \cup InterpretationDrifts PROVE Drift(d, f).now = f.now
  BY <1>3 DEF Drift, Shaped, FixtureFields, ClosureDrifts, InterpretationDrifts
<1>4. ASSUME NEW d \in DerivationDrifts \cup ApprovalDrifts PROVE Drift(d, f).now = f.now
  BY <1>4 DEF Drift, Shaped, FixtureFields, DerivationDrifts, ApprovalDrifts
<1>5. ASSUME NEW d \in ContractDrifts \cup ObservationDrifts PROVE Drift(d, f).now = f.now
  BY <1>5 DEF Drift, Shaped, FixtureFields, ContractDrifts, ObservationDrifts
<1>6. ASSUME NEW d \in PlainDrifts PROVE Drift(d, f).now = f.now
  BY <1>6 DEF Drift, Shaped, FixtureFields, PlainDrifts
<1>7. /\ ResignDerivation(f).now = f.now /\ ResignApproval(f).now = f.now
      /\ ResignContract(f).now = f.now
  BY DEF ResignDerivation, ResignApproval, ResignContract, Shaped, FixtureFields
<1>8. RebindApproval(f).now = f.now
  BY DEF RebindApproval, ResignApproval, Shaped, FixtureFields
<1> QED
  BY <1>1, <1>2, <1>3, <1>4, <1>5, <1>6, <1>7, <1>8
     DEF DriftNames, PolicyDrifts, TargetDrifts, ObligationDrifts, RegisterDrifts,
         ClosureDrifts, InterpretationDrifts, DerivationDrifts, ApprovalDrifts,
         ContractDrifts, ObservationDrifts, PlainDrifts

-----------------------------------------------------------------------------
(* Until time passes, the fixture is traced to its mutations.                *)

\* The clock has not moved back, and until it has moved each departure from
\* the built fixture is one of the mutations in drifts.
TracedInv == fixture.now >= Now /\ (fixture.now = Now => Traced(fixture, drifts))

\* Whatever the order of the mutations and of the signatures between them,
\* each departure from the fixture as built is one of its mutations': no two
\* of them, and no signature, make a third (scenarios.py, _resign_*).
THEOREM TracedCorrect == Spec => []TracedInv
<1>1. Init => TracedInv
  BY BuiltIsTraced, TimeAssumption DEF Init, TracedInv, Traced
<1>2. ASSUME FixtureOK, FixtureOK', TracedInv, [Next]_vars PROVE TracedInv'
  <2>1. Shaped(fixture) /\ Shaped(fixture') /\ Now \in Int /\ fixture.now \in Int
    BY <1>2, TimeAssumption DEF FixtureOK, Shaped
  <2>2. CASE fixture.now # Now
    <3>1. fixture'.now \in {fixture.now, fixture.now + 1}
      <4>1. CASE UNCHANGED vars
        BY <4>1 DEF vars
      <4>2. CASE Wait
        BY <2>1, <4>2 DEF Wait, Aged, Shaped, FixtureFields
      <4>3. CASE \E d \in DriftNames : Suffer(d)
        BY <2>1, <4>3, ClockIsKept DEF Suffer
      <4>4. CASE DeriverSigns \/ ApproverSigns \/ ApproverRebinds \/ IssuerSigns
        BY <2>1, <4>4, ClockIsKept DEF DeriverSigns, ApproverSigns, ApproverRebinds, IssuerSigns
      <4> QED  BY <1>2, <4>1, <4>2, <4>3, <4>4 DEF Next
    <3> QED  BY <1>2, <2>1, <2>2, <3>1 DEF TracedInv
  <2>3. CASE fixture.now = Now
    <3>1. Traced(fixture, drifts)
      BY <1>2, <2>3 DEF TracedInv
    <3>2. CASE Wait
      <4>1. fixture'.now = fixture.now + 1
        BY <2>1, <3>2 DEF Wait, Aged, Shaped, FixtureFields
      <4> QED  BY <2>1, <2>3, <4>1 DEF TracedInv
    <3>3. ASSUME Traced(fixture', drifts') PROVE TracedInv'
      BY <2>1, <3>3 DEF TracedInv, Traced
    <3>4. CASE UNCHANGED vars
      BY <3>1, <3>3, <3>4 DEF vars
    <3>5. CASE \E d \in DriftNames : Suffer(d)
      BY <2>1, <3>1, <3>3, <3>5, DriftTraced DEF Suffer
    <3>6. CASE DeriverSigns
      BY <2>1, <3>1, <3>3, <3>6, DeriverSigningTraced DEF DeriverSigns
    <3>7. CASE ApproverSigns
      BY <2>1, <3>1, <3>3, <3>7, ApproverSigningTraced DEF ApproverSigns
    <3>8. CASE ApproverRebinds
      BY <2>1, <3>1, <3>3, <3>8, ApproverRebindingTraced DEF ApproverRebinds
    <3>9. CASE IssuerSigns
      BY <2>1, <3>1, <3>3, <3>9, IssuerSigningTraced DEF IssuerSigns
    <3> QED  BY <1>2, <3>2, <3>4, <3>5, <3>6, <3>7, <3>8, <3>9 DEF Next
  <2> QED  BY <2>2, <2>3
<1> QED  BY <1>1, <1>2, ShapeCorrect, PTL DEF Spec

-----------------------------------------------------------------------------
(* The graph in which the approval depends on the snapshot, which depends on *)
(* the approval.                                                             *)

\* The node of the approval has one dependency more, and the others have none.
LEMMA CyclicRows ==
    LET n == FixtureNodes
        g == ApprovalOnSnapshot
    IN  /\ DOMAIN g = 1..21
        /\ g[13].object_id = "approval" /\ DOMAIN g[13].depends_on = 1..4
        /\ g[13].depends_on[1] = "precontext" /\ g[13].depends_on[2] = "attestation"
        /\ g[13].depends_on[3] = "approve_auth" /\ g[13].depends_on[4] = "snapshot"
        /\ \A i \in 1..21 \ {13} : g[i] = n[i]
<1> DEFINE n == FixtureNodes
<1> DEFINE g == ApprovalOnSnapshot
<1>1. /\ DOMAIN n = 1..21
      /\ n[13] = Row("approval", 4, <<"precontext", "attestation", "approve_auth">>)
  BY FixtureRows
<1>2. ASSUME NEW i \in 1..21, n[i].object_id = "approval" PROVE i = 13
  <2>1. InPlace(i) /\ InPlace(13)
    BY NodesInPlace
  <2>2. n[13].object_id = "approval"
    BY <1>1 DEF Row
  <2> QED  BY <1>2, <2>1, <2>2 DEF InPlace
<1>3. n[13].object_id = "approval"
  BY <1>1 DEF Row
<1>4. g = [n EXCEPT ![Position(n, "approval")].depends_on = Append(@, "snapshot")]
  BY DEF ApprovalOnSnapshot, WithDependency
<1> HIDE DEF n, g
<1>5. Position(n, "approval") = 13
  BY <1>1, <1>2, <1>3 DEF Position
<1>6. g = [n EXCEPT ![13].depends_on = Append(@, "snapshot")]
  BY <1>4, <1>5
<1>7. DOMAIN g = 1..21 /\ (\A i \in 1..21 \ {13} : g[i] = n[i])
  BY <1>1, <1>6
<1>8. g[13] = [n[13] EXCEPT !.depends_on = Append(@, "snapshot")]
  BY <1>1, <1>6
<1>9. /\ g[13].object_id = "approval"
      /\ g[13].depends_on = Append(<<"precontext", "attestation", "approve_auth">>, "snapshot")
  BY <1>1, <1>8 DEF Row
<1> DEFINE s == Append(<<"precontext", "attestation", "approve_auth">>, "snapshot")
<1>10. /\ DOMAIN s = 1..4 /\ s[1] = "precontext" /\ s[2] = "attestation"
       /\ s[3] = "approve_auth" /\ s[4] = "snapshot"
  OBVIOUS
<1> QED  BY <1>7, <1>9, <1>10 DEF n, g

\* Of that graph validate_graph answers PROOF_GRAPH_CYCLE, and not that a
\* dependency comes late, although one does (harness.py:414-445).
LEMMA CycleIsFound == CyclicGraph = "PROOF_GRAPH_CYCLE"
<1> DEFINE g == ApprovalOnSnapshot
<1>1. /\ DOMAIN g = 1..21
      /\ g[13].object_id = "approval" /\ DOMAIN g[13].depends_on = 1..4
      /\ g[13].depends_on[1] = "precontext" /\ g[13].depends_on[2] = "attestation"
      /\ g[13].depends_on[3] = "approve_auth" /\ g[13].depends_on[4] = "snapshot"
      /\ \A i \in 1..21 \ {13} : g[i] = FixtureNodes[i]
  BY CyclicRows
<1>2. g[14] = Row("snapshot", 5, <<"precontext", "approval">>)
  BY <1>1, FixtureRows
<1>3. \A i \in 1..21 : InPlace(i)
  BY NodesInPlace
<1>4. \A i \in 1..21 : g[i].object_id = FixtureNodes[i].object_id
  <2>1. FixtureNodes[13].object_id = "approval"
    BY FixtureRows DEF Row
  <2> HIDE DEF g
  <2> QED  BY <1>1, <2>1
<1> HIDE DEF g
<1>5. ASSUME NEW i \in 1..21
      PROVE  g[i].object_id \in DOMAIN Place /\ Place[g[i].object_id] = i
  BY <1>3, <1>4 DEF InPlace
<1>6. ASSUME NEW i \in 1..21, NEW k \in DOMAIN g[i].depends_on
      PROVE  LET d == g[i].depends_on[k] IN
             /\ d \in DOMAIN Place /\ Place[d] \in 1..21
             /\ g[Place[d]].object_id = d /\ Place[d] # i
  <2>1. CASE i # 13
    <3>1. g[i].depends_on = FixtureNodes[i].depends_on
      BY <1>1, <2>1
    <3> DEFINE e == FixtureNodes[i].depends_on[k]
    <3>2. InPlace(i) /\ k \in DOMAIN FixtureNodes[i].depends_on
      BY <1>3, <1>6, <3>1
    <3>3. /\ e \in DOMAIN Place /\ Place[e] \in 1..21 /\ Place[e] < i
          /\ FixtureNodes[Place[e]].object_id = e
      BY <3>2 DEF InPlace
    <3>4. g[i].depends_on[k] = e
      BY <3>1
    <3> HIDE DEF e
    <3> QED  BY <1>4, <3>3, <3>4
  <2>2. CASE i = 13
    <3>1. /\ FixtureNodes[9].object_id = "precontext"
          /\ FixtureNodes[11].object_id = "attestation"
          /\ FixtureNodes[12].object_id = "approve_auth"
          /\ FixtureNodes[14].object_id = "snapshot"
      BY FixtureRows DEF Row
    <3>2. /\ g[9].object_id = "precontext" /\ g[11].object_id = "attestation"
          /\ g[12].object_id = "approve_auth" /\ g[14].object_id = "snapshot"
      BY <1>4, <3>1
    <3>3. k \in 1..4
      BY <1>1, <1>6, <2>2
    <3>4. k \in {1, 2, 3, 4}
      BY <3>3
    <3>5. g[i].depends_on[k] \in {"precontext", "attestation", "approve_auth", "snapshot"}
      BY <1>1, <2>2, <3>4
    <3> QED  BY <2>2, <3>2, <3>5 DEF Place
  <2> QED  BY <2>1, <2>2
<1>7. WellFormed(g)
  <2> SUFFICES ASSUME NEW i \in 1..21
               PROVE  /\ ~Duplicate(g, i) /\ ~SelfReference(g, i)
                      /\ Range(g[i].depends_on) \subseteq Ids(g)
    BY <1>1 DEF WellFormed
  <2>1. ~Duplicate(g, i)
    <3>1. ASSUME NEW j \in 1..(i - 1) PROVE g[j].object_id # g[i].object_id
      <4>1. j \in 1..21 /\ j # i
        OBVIOUS
      <4> QED  BY <1>5, <4>1
    <3> QED  BY <3>1 DEF Duplicate
  <2>2. ~SelfReference(g, i)
    <3>1. ASSUME NEW k \in DOMAIN g[i].depends_on
          PROVE  g[i].depends_on[k] # g[i].object_id
      <4>1. Place[g[i].depends_on[k]] # i
        BY <1>6
      <4>2. Place[g[i].object_id] = i
        BY <1>5
      <4> QED  BY <4>1, <4>2
    <3> QED  BY <3>1 DEF SelfReference, Range
  <2>3. Range(g[i].depends_on) \subseteq Ids(g)
    <3>1. ASSUME NEW k \in DOMAIN g[i].depends_on PROVE g[i].depends_on[k] \in Ids(g)
      <4>1. /\ Place[g[i].depends_on[k]] \in 1..21
            /\ g[Place[g[i].depends_on[k]]].object_id = g[i].depends_on[k]
        BY <1>6
      <4> QED  BY <1>1, <4>1 DEF Ids
    <3> QED  BY <3>1 DEF Range
  <2> QED  BY <2>1, <2>2, <2>3
<1>8. ASSUME NEW i \in 1..21, NEW k \in DOMAIN g[i].depends_on
      PROVE  DepAt(g, i, k) = Place[g[i].depends_on[k]]
  <2> DEFINE d == g[i].depends_on[k]
  <2>1. Place[d] \in 1..21 /\ g[Place[d]].object_id = d
    BY <1>6
  <2>2. ASSUME NEW j \in 1..21, g[j].object_id = d PROVE j = Place[d]
    BY <1>5, <2>2
  <2> QED  BY <1>1, <2>1, <2>2 DEF DepAt, Position
<1>9. 4 \in DOMAIN g[13].depends_on /\ g[13].depends_on[4] = "snapshot"
  BY <1>1
<1>10. 2 \in DOMAIN g[14].depends_on /\ g[14].depends_on[2] = "approval"
  BY <1>2 DEF Row
<1>11. Place["snapshot"] = 14 /\ Place["approval"] = 13
  BY DEF Place
<1>12. DepAt(g, 13, 4) = 14 /\ DepAt(g, 14, 2) = 13
  <2>1. 13 \in 1..21 /\ 14 \in 1..21
    OBVIOUS
  <2> QED  BY <1>8, <1>9, <1>10, <1>11, <2>1
<1>13. ~DependenciesFirst(g)
  BY <1>1, <1>9, <1>12 DEF DependenciesFirst
<1>14. Cyclic(g)
  <2>1. DependsWithin(g, 13, {13, 14})
    BY <1>9, <1>12 DEF DependsWithin
  <2>2. DependsWithin(g, 14, {13, 14})
    BY <1>10, <1>12 DEF DependsWithin
  <2>3. {13, 14} \in SUBSET (DOMAIN g)
    BY <1>1
  <2> QED  BY <2>1, <2>2, <2>3 DEF Cyclic, Circle
<1>15. CyclicGraph = GraphAnswer(g, FixtureManifest)
  BY DEF CyclicGraph, g
<1> QED  BY <1>7, <1>13, <1>14, <1>15 DEF GraphAnswer

-----------------------------------------------------------------------------
(* Which mutation is to blame for a refusal, group by group.                 *)

\* The reason that each mutation gives, once its principals have signed again.
Reason ==
    [checker_disabled |-> "CHECKER_DISABLED",
     obligation_misclaimed |-> "OBLIGATION_ID_MISMATCH",
     source_bytes_changed |-> "OBLIGATION_CONTENT_DIGEST_MISMATCH",
     jurisdiction_changed |-> "JURISDICTION_NOT_COVERED_BY_OBLIGATION",
     target_elsewhere |-> "DERIVED_SCOPE_EXCEEDS_SOURCE",
     target_widened |-> "DERIVED_SCOPE_EXCEEDS_SOURCE",
     register_rolled_back |-> "AUTHORITY_REGISTER_ROLLBACK",
     issuer_grant_deleted |-> "ISSUER_NOT_AUTHORISED",
     issuer_grant_expired |-> "DELEGATION_EXPIRED",
     issuer_grant_self_authored |-> "SELF_AUTHORISATION",
     conflict_undeclared |-> "UNRESOLVED_CONFLICT_UNDECLARED",
     policy_superseded |-> "SUPERSEDED_VERSION_REPLAY",
     exception_generalised |-> "EXCEPTION_GENERALISED",
     derivation_absent |-> "DERIVATION_ABSENT_OR_UNVERIFIABLE",
     derived_by_activator |-> "AUTHORITY_ROLE_SUBSTITUTION",
     coverage_emptied |-> "DERIVATION_UNSUPPORTED",
     assumptions_changed |-> "APPROVAL_NOT_BOUND_TO_ARTEFACT",
     rules_unknown |-> "RULE_SET_UNRESOLVED",
     rule_unmapped |-> "UNMAPPED_EXECUTABLE_RULE",
     approved_too_late |-> "APPROVAL_AFTER_USE",
     approved_other_policy |-> "APPROVAL_NOT_BOUND_TO_ARTEFACT",
     design_changed |-> "APPROVAL_INHERITED_ACROSS_CHANGE",
     runtime_dependency_changed |-> "CLOSURE_MISMATCH",
     parser_changed |-> "INTERPRETATION_VERSION_MISMATCH",
     include_changed |-> "LOADED_CLOSURE_MISMATCH",
     executable_changed |-> "EXECUTED_FORM_MISMATCH",
     scope_evaluator_changed |-> "SCOPE_EVALUATOR_MISMATCH",
     tcb_changed |-> "TCB_VERSION_MISMATCH",
     snapshot_race |-> "SNAPSHOT_COHERENCE_FAILED",
     absence_unwarranted |-> "NEGATIVE_EVIDENCE_UNWARRANTED",
     predicate_not_permitted |-> "OBSERVATION_CONTRACT_MISMATCH",
     role_substituted |-> "OBSERVATION_CONTRACT_MISMATCH",
     source_substituted |-> "WRONG_SOURCE",
     source_unavailable |-> "REVOCATION_SOURCE_UNAVAILABLE",
     status_invalid |-> "SOURCE_OBLIGATION_SUPERSEDED",
     graph_cyclic |-> "PROOF_GRAPH_CYCLE"]

\* The mutations of what the deriver has signed: until it signs again it is
\* the signature that fails.
SignedDrifts == {"coverage_emptied", "assumptions_changed", "derived_by_activator"}

\* The mutations of what the runtime loaded: until the approver signs for it,
\* it is the approval that fails.
RuntimeDrifts == InterpretationDrifts \cup {"runtime_dependency_changed"}

\* The observation was made under the contract as it stands.
Matched(f) == f.observation.contract_digest = Digest(Signable(f.observation_contract))

\* The reason that the mutation gives as the fixture stands.
Blame(f, d) ==
    CASE d \in SignedDrifts /\ ~SignatureValid(f.derivation) -> "DERIVATION_SIGNATURE_INVALID"
      [] d \in RuntimeDrifts /\ ~ApprovalBound(f) -> "APPROVAL_NOT_BOUND_TO_ARTEFACT"
      [] d = "absence_unwarranted" /\ ~Matched(f) -> "OBSERVATION_CONTRACT_MISMATCH"
      [] OTHER -> Reason[d]

\* The reason is blamed on a mutation that the fixture suffered.
Blamed(f, D, reason) ==
    \E d \in D \cap DOMAIN Reason : reason = Blame(f, d)

\* Every register but the issuer's grant is as it was declared: its holders
\* may still do what their grants are for.
LEMMA TracedAuthority ==
    ASSUME NEW f, NEW D, Traced(f, D), NEW id \in DOMAIN Holder, id # "g_register",
           NEW s, ScopeContains(Device7, s)
    PROVE  /\ id \in DOMAIN f.register.grants
           /\ f.register.grants[id].principal = Holder[id][1]
           /\ ~Refused(Authorised(f, Holder[id][1], Holder[id][2], id, s))
<1> DEFINE g == f.register.grants[id]
           c == GrantChecks(f, g, Holder[id][1], Holder[id][2], s)
<1>1. /\ f.now = Now /\ f.register.version = 1 /\ id \in DOMAIN f.register.grants
      /\ GrantTraced(id, g, D)
  BY DEF Traced, RegisterTraced, After, SameBut, Register
<1>2. /\ g.principal = Holder[id][1] /\ g.capability = Holder[id][2]
      /\ g.register_version = 1 /\ g.revoked = FALSE /\ g.scope = Device7
      /\ WindowContains(g.window, Now) /\ ~g.self_authored
  <2>1. {"principal", "capability", "register_version", "revoked", "scope"}
            \subseteq DOMAIN Grant(id) \ {"window", "self_authored"}
    BY DEF Grant
  <2>2. /\ Grant(id).principal = Holder[id][1] /\ Grant(id).capability = Holder[id][2]
        /\ Grant(id).register_version = 1 /\ Grant(id).revoked = FALSE
        /\ Grant(id).scope = Device7
    BY DEF Grant
  <2> HIDE DEF g
  <2> QED  BY <1>1, <2>1, <2>2 DEF GrantTraced, SameBut
<1>3. /\ c[1].fails = (g.principal # Holder[id][1] \/ g.capability # Holder[id][2])
      /\ c[2].fails = (g.register_version # f.register.version)
      /\ c[3].fails = g.revoked /\ c[4].fails = ~WindowContains(g.window, f.now)
      /\ c[5].fails = ~ScopeContains(g.scope, s) /\ c[6].fails = g.self_authored
      /\ Checks(c) = {c[1], c[2], c[3], c[4], c[5], c[6]}
  BY GrantChecksAre
<1> HIDE DEF c, g
<1>4. Passing(c)
  BY <1>1, <1>2, <1>3 DEF Passing
<1> QED  BY <1>1, <1>2, <1>4, EstablishedAuthority DEF c, g

\* An issuer that may no longer register an obligation lost its grant to a
\* mutation of it, whose reason it is refused with (_authorised).
LEMMA TracedIssuer ==
    ASSUME NEW f, NEW D, Traced(f, D)
    PROVE  LET a == Authorised(f, "obligation-issuer", "REGISTER_OBLIGATION", "g_register",
                               Device7)
               drifted == D \cap {"issuer_grant_deleted", "issuer_grant_expired",
                                  "issuer_grant_self_authored"}
           IN  /\ Refused(a) <=> drifted # {}
               /\ Refused(a) =>
                      \/ a = "AUTHORITY_GRANT_MISSING" /\ "issuer_grant_deleted" \in D
                      \/ a = "DELEGATION_EXPIRED" /\ "issuer_grant_expired" \in D
                      \/ a = "SELF_AUTHORISATION" /\ "issuer_grant_self_authored" \in D
<1> DEFINE id == "g_register"
           a == Authorised(f, "obligation-issuer", "REGISTER_OBLIGATION", id, Device7)
           g == f.register.grants[id]
           c == GrantChecks(f, g, "obligation-issuer", "REGISTER_OBLIGATION", Device7)
<1>1. f.now = Now /\ f.register.version = 1 /\ RegisterTraced(f.register, D)
  BY DEF Traced, RegisterTraced, SameBut, Register
<1>2. id \in DOMAIN f.register.grants <=> "issuer_grant_deleted" \notin D
  BY <1>1 DEF RegisterTraced, After, Holder
<1>3. CASE id \notin DOMAIN f.register.grants
  <2>1. a = "AUTHORITY_GRANT_MISSING"
    BY <1>3 DEF Authorised
  <2> QED  BY <1>2, <1>3, <2>1 DEF Refused
<1>4. CASE id \in DOMAIN f.register.grants
  <2>1. GrantTraced(id, g, D)
    BY <1>1, <1>4 DEF RegisterTraced
  <2>2. /\ g.principal = "obligation-issuer" /\ g.capability = "REGISTER_OBLIGATION"
        /\ g.register_version = 1 /\ g.revoked = FALSE /\ g.scope = Device7
        /\ ~WindowContains(g.window, Now) <=> "issuer_grant_expired" \in D
        /\ g.self_authored <=> "issuer_grant_self_authored" \in D
    <3>1. {"principal", "capability", "register_version", "revoked", "scope"}
              \subseteq DOMAIN Grant(id) \ {"window", "self_authored"}
      BY DEF Grant
    <3>2. /\ Grant(id).principal = "obligation-issuer"
          /\ Grant(id).capability = "REGISTER_OBLIGATION"
          /\ Grant(id).register_version = 1 /\ Grant(id).revoked = FALSE
          /\ Grant(id).scope = Device7
      BY DEF Grant, Holder
    <3> HIDE DEF g
    <3> QED  BY <2>1, <3>1, <3>2 DEF GrantTraced, SameBut
  <2>3. /\ c[1].fails = (g.principal # "obligation-issuer"
                           \/ g.capability # "REGISTER_OBLIGATION")
        /\ c[2].fails = (g.register_version # f.register.version)
        /\ c[3].fails = g.revoked /\ c[4].fails = ~WindowContains(g.window, f.now)
        /\ c[5].fails = ~ScopeContains(g.scope, Device7) /\ c[6].fails = g.self_authored
        /\ Checks(c) = {c[1], c[2], c[3], c[4], c[5], c[6]} /\ Len(c) = 6
        /\ \A x \in Checks(c) : x.reason # "AUTHORITY_ESTABLISHED"
    BY GrantChecksAre
  <2>4. c[4].reason = "DELEGATION_EXPIRED" /\ c[6].reason = "SELF_AUTHORISATION"
    BY DEF GrantChecks, Deny
  <2>5. a = FirstFailure(c, Established).reason
    BY <1>4 DEF Authorised, GrantFailure
  <2>6. Established.reason = "AUTHORITY_ESTABLISHED"
    BY DEF Established, Deny
  <2> HIDE DEF c, g, a
  <2>7. \/ Passing(c) /\ FirstFailure(c, Established) = Established
        \/ FirstFailure(c, Established) \in Checks(c) /\ FirstFailure(c, Established).fails
    BY <2>3, FirstFailureIs
  <2>8. /\ ~c[1].fails /\ ~c[2].fails /\ ~c[3].fails /\ ~c[5].fails
        /\ c[4].fails <=> "issuer_grant_expired" \in D
        /\ c[6].fails <=> "issuer_grant_self_authored" \in D
    BY <1>1, <2>2, <2>3, WithinWindow
  <2>9. Refused(a) <=> ~Passing(c)
    BY <2>3, <2>5, <2>6, <2>7 DEF Refused, Passing
  <2>10. Passing(c) <=> D \cap {"issuer_grant_expired", "issuer_grant_self_authored"} = {}
    BY <2>3, <2>8 DEF Passing
  <2>11. Refused(a) => (a = c[4].reason /\ c[4].fails) \/ (a = c[6].reason /\ c[6].fails)
    BY <2>3, <2>5, <2>7, <2>8, <2>9
  <2> QED  BY <1>2, <1>4, <2>4, <2>8, <2>9, <2>10, <2>11 DEF a
<1> QED  BY <1>3, <1>4

\* A chain that answers has a first check that fails.
LEMMA AnswersFirst ==
    ASSUME NEW chain, NEW reason, RefusesFor(chain, reason)
    PROVE  \E i \in 1..Len(chain) :
               /\ chain[i].fails /\ chain[i].reason = reason
               /\ \A j \in 1..(i - 1) : ~chain[j].fails
BY DEF RefusesFor, Decides

\* The obligation's mutations, and those of the register and of what the
\* policy claims to be.
SourceDrifts ==
    TargetDrifts \cup
    {"checker_disabled", "obligation_misclaimed", "source_bytes_changed",
     "jurisdiction_changed", "register_rolled_back", "issuer_grant_deleted",
     "issuer_grant_expired", "issuer_grant_self_authored", "conflict_undeclared",
     "policy_superseded", "exception_generalised"}

\* What each check of the obligation is about (harness.py:522-554).
LEMMA ObligationFails ==
    ASSUME NEW f, NEW D, Traced(f, D)
    PROVE  LET c == ObligationChecks(f) IN
           /\ Len(c) = 14
           /\ c[1].fails <=> "checker_disabled" \in D
           /\ c[2].fails <=> "obligation_misclaimed" \in D
           /\ c[3].fails <=> "source_bytes_changed" \in D
           /\ ~c[4].fails /\ ~c[5].fails
           /\ c[6].fails <=> D \cap (TargetDrifts \cup {"jurisdiction_changed"}) # {}
           /\ c[6].reason = IF "jurisdiction_changed" \in D
                            THEN "JURISDICTION_NOT_COVERED_BY_OBLIGATION"
                            ELSE "DERIVED_SCOPE_EXCEEDS_SOURCE"
           /\ c[7].fails <=> "register_rolled_back" \in D
           /\ ~c[8].fails /\ ~c[9].fails
           /\ c[10].fails <=> D \cap {"issuer_grant_deleted", "issuer_grant_expired",
                                      "issuer_grant_self_authored"} # {}
           /\ c[10].fails =>
                  \/ c[10].reason = "ISSUER_NOT_AUTHORISED" /\ "issuer_grant_deleted" \in D
                  \/ c[10].reason = "DELEGATION_EXPIRED" /\ "issuer_grant_expired" \in D
                  \/ c[10].reason = "SELF_AUTHORISATION" /\ "issuer_grant_self_authored" \in D
           /\ c[11].fails <=> "conflict_undeclared" \in D
           /\ ~c[12].fails
           /\ c[13].fails <=> "policy_superseded" \in D
           /\ c[14].fails <=> "exception_generalised" \in D
<1> DEFINE c == ObligationChecks(f)
           o == f.obligation
           s == f.policy.scope
           r == f.register
           a == Authorised(f, "obligation-issuer", "REGISTER_OBLIGATION", "g_register", Device7)
<1>1. Len(c) = 14
  BY DEF ObligationChecks
<1>2. /\ f.verification_configured = TRUE /\ f.latest_policy_version = 1
      /\ f.obligation_issuer = "obligation-issuer"
      /\ f.obligation_issuer_grant_id = "g_register"
  BY DEF Traced, PlainTraced, Fixed, Built, ValidFixture
<1>3. /\ o.obligation_id = "obl-1" /\ o.content = Obligation.content
      /\ o.superseded = FALSE /\ o.revoked = FALSE /\ o.scope = Device7
      /\ o.declared_conflicts = {} /\ o.resolved_by = ""
      /\ WindowContains(o.window, Now)
      /\ o.actual_conflicts = After("conflict_undeclared", D, {"conflict-1"}, {})
      /\ DOMAIN o = DOMAIN Obligation
  <2>1. ObligationTraced(o, D)
    BY DEF Traced
  <2> HIDE DEF o
  <2> QED  BY <2>1 DEF ObligationTraced, SameBut, IsRecord, Obligation
<1>4. ObligationDigest(o) = ObligationDigest(Obligation)
  <2>1. Restrict(o, {"content"}) = Restrict(Obligation, {"content"})
    <3> HIDE DEF o
    <3> QED  BY <1>3 DEF Restrict, Obligation
  <2> QED  BY <2>1 DEF ObligationDigest
<1>5. /\ r.version = 1 /\ r.fork_detected = FALSE /\ r.trusted_time_observed = TRUE
      /\ r.current_version = After("register_rolled_back", D, 2, 1)
  BY DEF Traced, RegisterTraced, SameBut, IsRecord, Register
<1>6. /\ f.now = Now /\ f.policy.version = After("policy_superseded", D, 0, 1)
      /\ s.consequence_class = Device7.consequence_class
      /\ s.jurisdiction = After("jurisdiction_changed", D, "US", "GB")
      /\ s.targets \subseteq {"device-7"} <=> D \cap TargetDrifts = {}
  BY DEF Traced, PolicyTraced, SameBut, Device7
<1>7. c[1].fails <=> "checker_disabled" \in D
  <2>1. c[1].fails = (~f.checker_enabled \/ ~f.verification_configured)
    BY DEF ObligationChecks, Deny, Halt
  <2>2. f.checker_enabled <=> "checker_disabled" \notin D
    BY DEF Traced, PlainTraced
  <2> HIDE DEF c
  <2> QED  BY <1>2, <2>1, <2>2
<1>8. c[2].fails <=> "obligation_misclaimed" \in D
  <2>1. c[2].fails = (f.claimed_obligation_id # o.obligation_id)
    BY DEF ObligationChecks, Deny
  <2>2. f.claimed_obligation_id =
            After("obligation_misclaimed", D, "wrong-obligation", "obl-1")
    BY DEF Traced, PlainTraced
  <2> HIDE DEF c, o
  <2> QED  BY <1>3, <2>1, <2>2 DEF After
<1>9. c[3].fails <=> "source_bytes_changed" \in D
  <2>1. c[3].fails = (f.policy_source_current_digest # ObligationDigest(o))
    BY DEF ObligationChecks, Deny
  <2>2. f.policy_source_current_digest =
            After("source_bytes_changed", D,
                  Digest([changed |-> "bytes"]), ObligationDigest(Obligation))
    BY DEF Traced, PlainTraced
  <2>3. Digest([changed |-> "bytes"]) # ObligationDigest(Obligation)
    <3>1. "content" \in DOMAIN Restrict(Obligation, {"content"})
      BY DEF Restrict, Obligation
    <3>2. [changed |-> "bytes"] # Restrict(Obligation, {"content"})
      BY <3>1
    <3> QED  BY <3>2, DigestIsInjective DEF ObligationDigest
  <2> HIDE DEF c, o
  <2> QED  BY <1>4, <2>1, <2>2, <2>3 DEF After
<1>10. ~c[4].fails /\ ~c[5].fails
  <2>1. /\ c[4].fails = (o.superseded \/ o.revoked)
        /\ c[5].fails = ~WindowContains(o.window, f.now)
    BY DEF ObligationChecks, Deny
  <2> HIDE DEF c, o
  <2> QED  BY <1>3, <1>6, <2>1
<1>11. /\ c[6].fails <=> D \cap (TargetDrifts \cup {"jurisdiction_changed"}) # {}
       /\ c[6].reason = IF "jurisdiction_changed" \in D
                        THEN "JURISDICTION_NOT_COVERED_BY_OBLIGATION"
                        ELSE "DERIVED_SCOPE_EXCEEDS_SOURCE"
  <2>1. /\ c[6].fails = ~ScopeContains(o.scope, s)
        /\ c[6].reason = IF o.scope.jurisdiction # s.jurisdiction
                         THEN "JURISDICTION_NOT_COVERED_BY_OBLIGATION"
                         ELSE "DERIVED_SCOPE_EXCEEDS_SOURCE"
    BY DEF ObligationChecks, Deny
  <2>2. Device7.targets = {"device-7"} /\ Device7.jurisdiction = "GB"
    BY DEF Device7
  <2>3. ScopeContains(Device7, s) <=>
            D \cap TargetDrifts = {} /\ "jurisdiction_changed" \notin D
    <3> HIDE DEF s
    <3> QED  BY <1>6, <2>2 DEF ScopeContains, After
  <2>4. Device7.jurisdiction # s.jurisdiction <=> "jurisdiction_changed" \in D
    BY <1>6, <2>2 DEF After
  <2> HIDE DEF c, o, s
  <2> QED  BY <1>3, <2>1, <2>3, <2>4
<1>12. c[7].fails <=> "register_rolled_back" \in D
  <2>1. c[7].fails = (r.version < r.current_version)
    BY DEF ObligationChecks, Deny
  <2>2. r.version < r.current_version <=> "register_rolled_back" \in D
    BY <1>5 DEF After
  <2> HIDE DEF c
  <2> QED  BY <2>1, <2>2, Zenon
<1>13. ~c[8].fails /\ ~c[9].fails
  <2>1. c[8].fails = r.fork_detected /\ c[9].fails = ~r.trusted_time_observed
    BY DEF ObligationChecks, Deny, Hold
  <2> HIDE DEF c, r
  <2> QED  BY <1>5, <2>1
<1>14. /\ c[10].fails <=> D \cap {"issuer_grant_deleted", "issuer_grant_expired",
                                  "issuer_grant_self_authored"} # {}
       /\ c[10].fails =>
              \/ c[10].reason = "ISSUER_NOT_AUTHORISED" /\ "issuer_grant_deleted" \in D
              \/ c[10].reason = "DELEGATION_EXPIRED" /\ "issuer_grant_expired" \in D
              \/ c[10].reason = "SELF_AUTHORISATION" /\ "issuer_grant_self_authored" \in D
  <2>1. /\ c[10].fails = Refused(a)
        /\ c[10].reason = IF a \in {"AUTHORITY_GRANT_MISSING", "AUTHORITY_ROLE_SUBSTITUTION"}
                          THEN "ISSUER_NOT_AUTHORISED" ELSE a
    BY <1>2, <1>3 DEF ObligationChecks, Deny
  <2>2. /\ Refused(a) <=> D \cap {"issuer_grant_deleted", "issuer_grant_expired",
                                  "issuer_grant_self_authored"} # {}
        /\ Refused(a) =>
               \/ a = "AUTHORITY_GRANT_MISSING" /\ "issuer_grant_deleted" \in D
               \/ a = "DELEGATION_EXPIRED" /\ "issuer_grant_expired" \in D
               \/ a = "SELF_AUTHORISATION" /\ "issuer_grant_self_authored" \in D
    BY TracedIssuer
  <2> HIDE DEF c, a
  <2> QED  BY <2>1, <2>2
<1>15. c[11].fails <=> "conflict_undeclared" \in D
  <2>1. c[11].fails = (o.actual_conflicts \ o.declared_conflicts # {})
    BY DEF ObligationChecks, Deny, Hold
  <2> HIDE DEF c, o
  <2> QED  BY <1>3, <2>1 DEF After
<1>16. ~c[12].fails
  <2>1. c[12].fails => o.resolved_by # ""
    BY DEF ObligationChecks, Deny
  <2> HIDE DEF c, o
  <2> QED  BY <1>3, <2>1
<1>17. c[13].fails <=> "policy_superseded" \in D
  <2>1. c[13].fails = (f.policy.version < f.latest_policy_version)
    BY DEF ObligationChecks, Deny
  <2>2. f.policy.version < f.latest_policy_version <=> "policy_superseded" \in D
    BY <1>2, <1>6 DEF After
  <2> HIDE DEF c
  <2> QED  BY <2>1, <2>2, Zenon
<1>18. c[14].fails <=> "exception_generalised" \in D
  <2>1. c[14].fails = ("exception_generalised" \in f.flags)
    BY DEF ObligationChecks, Deny
  <2>2. f.flags = D \cap {"exception_generalised", "snapshot_race"}
    BY DEF Traced, PlainTraced
  <2> HIDE DEF c
  <2> QED  BY <2>1, <2>2
<1> HIDE DEF c
<1> QED  BY <1>1, <1>7, <1>8, <1>9, <1>10, <1>11, <1>12, <1>13, <1>14, <1>15, <1>16, <1>17,
            <1>18 DEF c

\* The checks of the obligation blame a mutation of theirs, and pass without one.
LEMMA ObligationBlames ==
    ASSUME NEW f, NEW D, Traced(f, D)
    PROVE  /\ \A reason : RefusesFor(ObligationChecks(f), reason) => Blamed(f, D, reason)
           /\ Passing(ObligationChecks(f)) => D \cap SourceDrifts = {}
<1> DEFINE c == ObligationChecks(f)
<1>1. /\ Len(c) = 14
      /\ c[1].fails <=> "checker_disabled" \in D
      /\ c[2].fails <=> "obligation_misclaimed" \in D
      /\ c[3].fails <=> "source_bytes_changed" \in D
      /\ ~c[4].fails /\ ~c[5].fails
      /\ c[6].fails <=> D \cap (TargetDrifts \cup {"jurisdiction_changed"}) # {}
      /\ c[6].reason = IF "jurisdiction_changed" \in D
                       THEN "JURISDICTION_NOT_COVERED_BY_OBLIGATION"
                       ELSE "DERIVED_SCOPE_EXCEEDS_SOURCE"
      /\ c[7].fails <=> "register_rolled_back" \in D
      /\ ~c[8].fails /\ ~c[9].fails
      /\ c[10].fails <=> D \cap {"issuer_grant_deleted", "issuer_grant_expired",
                                 "issuer_grant_self_authored"} # {}
      /\ c[10].fails =>
             \/ c[10].reason = "ISSUER_NOT_AUTHORISED" /\ "issuer_grant_deleted" \in D
             \/ c[10].reason = "DELEGATION_EXPIRED" /\ "issuer_grant_expired" \in D
             \/ c[10].reason = "SELF_AUTHORISATION" /\ "issuer_grant_self_authored" \in D
      /\ c[11].fails <=> "conflict_undeclared" \in D
      /\ ~c[12].fails
      /\ c[13].fails <=> "policy_superseded" \in D
      /\ c[14].fails <=> "exception_generalised" \in D
  BY ObligationFails
<1>2. /\ c[1].reason = "CHECKER_DISABLED" /\ c[2].reason = "OBLIGATION_ID_MISMATCH"
      /\ c[3].reason = "OBLIGATION_CONTENT_DIGEST_MISMATCH"
      /\ c[7].reason = "AUTHORITY_REGISTER_ROLLBACK"
      /\ c[11].reason = "UNRESOLVED_CONFLICT_UNDECLARED"
      /\ c[13].reason = "SUPERSEDED_VERSION_REPLAY"
      /\ c[14].reason = "EXCEPTION_GENERALISED"
  BY DEF ObligationChecks, Deny, Hold, Halt
<1>3. Checks(c) = {c[1], c[2], c[3], c[4], c[5], c[6], c[7], c[8], c[9], c[10], c[11],
                   c[12], c[13], c[14]}
  BY ObligationChain
<1> HIDE DEF c
<1>4. ASSUME NEW d \in D \cap SourceDrifts, NEW reason, reason = Reason[d]
      PROVE  Blamed(f, D, reason)
  <2>1. d \in DOMAIN Reason /\ d # "graph_cyclic"
    BY DEF SourceDrifts, TargetDrifts, Reason
  <2>2. Blame(f, d) = Reason[d]
    BY DEF Blame, SourceDrifts, TargetDrifts, SignedDrifts, RuntimeDrifts, InterpretationDrifts
  <2> QED  BY <1>4, <2>1, <2>2 DEF Blamed
<1>5. ASSUME NEW reason, RefusesFor(c, reason) PROVE Blamed(f, D, reason)
  <2>1. \E i \in 1..Len(c) : c[i].fails /\ c[i].reason = reason
    BY <1>5, AnswersFirst
  <2>3. PICK i \in 1..14 : c[i].fails /\ c[i].reason = reason
    BY <1>1, <2>1
  <2>2. \E d \in D \cap SourceDrifts : reason = Reason[d]
    BY <1>1, <1>2, <2>3 DEF Reason, SourceDrifts, TargetDrifts
  <2> QED  BY <1>4, <2>2
<1>6. Passing(c) => D \cap SourceDrifts = {}
  BY <1>1, <1>3 DEF Passing, SourceDrifts, TargetDrifts
<1> QED  BY <1>5, <1>6 DEF c

\* What a mutation is blamed for, as the fixture stands.
LEMMA BlameIs ==
    ASSUME NEW f
    PROVE  /\ \A d \in SignedDrifts :
                  Blame(f, d) = IF SignatureValid(f.derivation) THEN Reason[d]
                                ELSE "DERIVATION_SIGNATURE_INVALID"
           /\ \A d \in RuntimeDrifts :
                  Blame(f, d) = IF ApprovalBound(f) THEN Reason[d]
                                ELSE "APPROVAL_NOT_BOUND_TO_ARTEFACT"
           /\ Blame(f, "absence_unwarranted") =
                  IF Matched(f) THEN "NEGATIVE_EVIDENCE_UNWARRANTED"
                  ELSE "OBSERVATION_CONTRACT_MISMATCH"
           /\ \A d : d \notin SignedDrifts \cup RuntimeDrifts \cup {"absence_unwarranted"} =>
                  Blame(f, d) = Reason[d]
<1>1. /\ SignedDrifts \cap (RuntimeDrifts \cup {"absence_unwarranted"}) = {}
      /\ "absence_unwarranted" \notin RuntimeDrifts
  BY DEF SignedDrifts, RuntimeDrifts, InterpretationDrifts
<1>2. Reason["absence_unwarranted"] = "NEGATIVE_EVIDENCE_UNWARRANTED"
  BY DEF Reason
<1> QED  BY <1>1, <1>2 DEF Blame

\* A mutation that the fixture suffered takes the blame.
LEMMA TakesBlame ==
    ASSUME NEW f, NEW D, NEW d \in D, d \in DOMAIN Reason, d # "graph_cyclic"
    PROVE  Blamed(f, D, Blame(f, d))
BY DEF Blamed

\* The grant to derive is not the activator's (register_for).
LEMMA ActivatorMayNotDerive ==
    ASSUME NEW f, NEW D, Traced(f, D), NEW s
    PROVE  Authorised(f, "activator", "DERIVE_POLICY", "g_derive", s)
               = "AUTHORITY_ROLE_SUBSTITUTION"
<1> DEFINE g == f.register.grants["g_derive"]
           c == GrantChecks(f, g, "activator", "DERIVE_POLICY", s)
<1>1. "g_derive" \in DOMAIN Holder /\ Holder["g_derive"][1] = "deriver"
  BY DEF Holder
<1>2. "g_derive" \in DOMAIN f.register.grants /\ g.principal = "deriver"
  BY <1>1, TracedAuthority, WithinWindow
<1>3. /\ Len(c) = 6 /\ Checks(c) = {c[1], c[2], c[3], c[4], c[5], c[6]}
      /\ c[1].fails = (g.principal # "activator" \/ g.capability # "DERIVE_POLICY")
  BY GrantChecksAre
<1>4. c[1].reason = "AUTHORITY_ROLE_SUBSTITUTION"
  BY DEF GrantChecks, Deny
<1>5. Authorised(f, "activator", "DERIVE_POLICY", "g_derive", s)
          = FirstFailure(c, Established).reason
  BY <1>2 DEF Authorised, GrantFailure
<1> HIDE DEF c, g
<1>6. c[1].fails /\ c[1] \in Checks(c)
  BY <1>2, <1>3
<1>7. \/ Passing(c) /\ FirstFailure(c, Established) = Established
      \/ \E i : Decides(c, i) /\ FirstFailure(c, Established) = c[i]
  BY <1>3, FirstFailureDecides
<1>8. PICK i : Decides(c, i) /\ FirstFailure(c, Established) = c[i]
  BY <1>6, <1>7 DEF Passing
<1>9. i \in 1..6 /\ \A j \in 1..(i - 1) : ~c[j].fails
  BY <1>3, <1>8 DEF Decides
<1>10. i = 1
  BY <1>6, <1>9
<1> QED  BY <1>4, <1>5, <1>8, <1>10

\* The mutations without which the derivation's checks do not pass.
DerivationFatal ==
    {"derivation_absent", "derived_by_activator", "coverage_emptied", "rules_unknown",
     "rule_unmapped"}

\* What each check of the derivation is about (harness.py:555-573).
LEMMA DerivationFails ==
    ASSUME NEW f, Shaped(f), NEW D, Traced(f, D), D \cap SourceDrifts = {}
    PROVE  LET c == DerivationChecks(f) IN
           /\ Len(c) = 8
           /\ c[1].fails <=> "derivation_absent" \in D
           /\ c[2].fails <=> "derivation_absent" \in D
           /\ ~c[3].fails
           /\ c[4].fails <=> ~SignatureValid(f.derivation)
           /\ c[4].fails => D \cap DerivationDrifts # {}
           /\ c[5].fails <=> "derived_by_activator" \in D
           /\ c[5].fails => c[5].reason = "AUTHORITY_ROLE_SUBSTITUTION"
           /\ c[6].fails => "rules_unknown" \in D
           /\ "rules_unknown" \in D => c[6].fails \/ "rule_unmapped" \in D
           /\ c[7].fails => "coverage_emptied" \in D
           /\ "coverage_emptied" \in D => c[7].fails
           /\ c[8].fails <=> D \cap {"coverage_emptied", "rule_unmapped"} # {}
<1> DEFINE c == DerivationChecks(f)
           d == f.derivation
           s == f.policy.scope
           inventory == f.closure.rule_inventory
           authority == Authorised(f, d.principal, "DERIVE_POLICY", d.grant_id, s)
<1>1. Len(c) = 8
  BY DEF DerivationChecks
<1>2. D \cap (TargetDrifts \cup {"jurisdiction_changed"}) = {} /\ "policy_superseded" \notin D
  BY DEF SourceDrifts
<1>3. s = Device7 /\ PolicyDigest(f.policy) = PolicyDigest(Candidate)
  BY <1>2, UnreachedAsBuilt
<1>4. /\ d.status = After("derivation_absent", D, "ABSENT", "CURRENT")
      /\ d.coverage = After("coverage_emptied", D, {}, Candidate.rules)
      /\ d.principal = After("derived_by_activator", D, "activator", "deriver")
      /\ SignatureValid(d) \/ D \cap DerivationDrifts # {}
      /\ d.grant_id = "g_derive" /\ d.obligation_digest = ObligationDigest(Obligation)
      /\ d.policy_digest = PolicyDigest(Candidate)
  <2> DEFINE b == Derivation(Candidate)
  <2>1. /\ {"grant_id", "obligation_digest", "policy_digest"} \subseteq DOMAIN b
        /\ b.grant_id = "g_derive" /\ b.obligation_digest = ObligationDigest(Obligation)
        /\ b.policy_digest = PolicyDigest(Candidate)
    BY DEF Derivation, Signed
  <2>2. DerivationTraced(d, D)
    BY DEF Traced
  <2> HIDE DEF d, b
  <2>3. SameBut(d, b, {"status", "coverage", "assumptions", "principal", "signature",
                       "signed_digest"})
    BY <2>2 DEF DerivationTraced, b
  <2>4. /\ d.grant_id = b.grant_id /\ d.obligation_digest = b.obligation_digest
        /\ d.policy_digest = b.policy_digest
    BY <2>1, <2>3 DEF SameBut
  <2> QED  BY <2>1, <2>2, <2>4 DEF DerivationTraced
<1>5. ObligationDigest(f.obligation) = ObligationDigest(Obligation)
  <2> DEFINE o == f.obligation
  <2>1. ObligationTraced(o, D)
    BY DEF Traced
  <2> HIDE DEF o
  <2>2. o.content = Obligation.content /\ DOMAIN o = DOMAIN Obligation
    BY <2>1 DEF ObligationTraced, SameBut, IsRecord, Obligation
  <2>3. Restrict(o, {"content"}) = Restrict(Obligation, {"content"})
    BY <2>2 DEF Restrict, Obligation
  <2> QED  BY <2>3 DEF ObligationDigest, o
<1>6. /\ inventory.rules = Candidate.rules \cup After("rule_unmapped", D, {"unmapped_rule"}, {})
      /\ inventory.known \/ "rules_unknown" \in D
      /\ ~inventory.known \/ "rules_unknown" \notin D \/ "rule_unmapped" \in D
  BY DEF Traced, ClosureTraced
<1>7. Candidate.rules = {"deny_export", "require_review"}
  BY DEF Candidate, Policy
<1>8. /\ c[1].fails = (d.status = "ABSENT") /\ c[2].fails = (d.status # "CURRENT")
      /\ c[3].fails = (\/ d.obligation_digest # ObligationDigest(f.obligation)
                       \/ d.policy_digest # PolicyDigest(f.policy))
      /\ c[4].fails = ~SignatureValid(d)
      /\ c[5].fails = Refused(authority) /\ c[5].reason = authority
      /\ c[6].fails = ~inventory.known
      /\ c[7].fails = Unsupported(f) /\ c[8].fails = (Unmapped(f) # {})
  BY DEF DerivationChecks, Deny, Hold
<1>9. /\ Unsupported(f) <=> inventory.rules \ d.coverage # {} /\ d.coverage = {}
      /\ Unmapped(f) = inventory.rules \ d.coverage
  BY DEF Unsupported, Unmapped
<1> HIDE DEF c, d, s, inventory, authority
<1>10. /\ c[1].fails <=> "derivation_absent" \in D
       /\ c[2].fails <=> "derivation_absent" \in D
  <2>1. /\ d.status = "ABSENT" <=> "derivation_absent" \in D
        /\ d.status # "CURRENT" <=> "derivation_absent" \in D
    BY <1>4 DEF After
  <2> QED  BY <1>8, <2>1, Zenon
<1>11. ~c[3].fails
  BY <1>3, <1>4, <1>5, <1>8
<1>12. /\ c[4].fails <=> ~SignatureValid(d)
       /\ c[4].fails => D \cap DerivationDrifts # {}
  BY <1>4, <1>8, Zenon
<1>13. /\ c[5].fails <=> "derived_by_activator" \in D
       /\ c[5].fails => c[5].reason = "AUTHORITY_ROLE_SUBSTITUTION"
  <2>1. CASE "derived_by_activator" \in D
    <3>1. authority = "AUTHORITY_ROLE_SUBSTITUTION"
      BY <1>4, <2>1, ActivatorMayNotDerive DEF After, authority
    <3> QED  BY <1>8, <2>1, <3>1 DEF Refused
  <2>2. CASE "derived_by_activator" \notin D
    <3>1. /\ "g_derive" \in DOMAIN Holder
          /\ Holder["g_derive"][1] = "deriver" /\ Holder["g_derive"][2] = "DERIVE_POLICY"
      BY DEF Holder
    <3>2. ~Refused(Authorised(f, "deriver", "DERIVE_POLICY", "g_derive", Device7))
      BY <3>1, TracedAuthority, WithinWindow
    <3>3. ~Refused(authority)
      BY <1>3, <1>4, <2>2, <3>2 DEF After, authority
    <3> QED  BY <1>8, <2>2, <3>3
  <2> QED  BY <2>1, <2>2
<1>14. /\ c[6].fails => "rules_unknown" \in D
       /\ "rules_unknown" \in D => c[6].fails \/ "rule_unmapped" \in D
  BY <1>6, <1>8, Zenon
<1>15. /\ c[7].fails <=> "coverage_emptied" \in D
       /\ c[8].fails <=> D \cap {"coverage_emptied", "rule_unmapped"} # {}
  <2>1. /\ d.coverage = {} <=> "coverage_emptied" \in D
        /\ inventory.rules # {}
        /\ inventory.rules \ d.coverage # {} <=>
               D \cap {"coverage_emptied", "rule_unmapped"} # {}
    <3>1. "unmapped_rule" \notin Candidate.rules /\ Candidate.rules # {}
      BY <1>7
    <3> HIDE DEF Candidate
    <3>2. CASE "coverage_emptied" \in D
      BY <1>4, <1>6, <3>1, <3>2 DEF After
    <3>3. CASE "coverage_emptied" \notin D
      BY <1>4, <1>6, <3>1, <3>3 DEF After
    <3> QED  BY <3>2, <3>3
  <2>2. Unsupported(f) <=> "coverage_emptied" \in D
    BY <1>9, <2>1
  <2>3. Unmapped(f) # {} <=> D \cap {"coverage_emptied", "rule_unmapped"} # {}
    BY <1>9, <2>1
  <2> QED  BY <1>8, <2>2, <2>3, Zenon
<1> QED  BY <1>1, <1>10, <1>11, <1>12, <1>13, <1>14, <1>15 DEF c, d

\* The checks of the derivation blame a mutation of theirs, and pass without one.
LEMMA DerivationBlames ==
    ASSUME NEW f, Shaped(f), NEW D, Traced(f, D), D \cap SourceDrifts = {}
    PROVE  /\ \A reason : RefusesFor(DerivationChecks(f), reason) => Blamed(f, D, reason)
           /\ Passing(DerivationChecks(f)) =>
                  D \cap DerivationFatal = {} /\ SignatureValid(f.derivation)
<1> DEFINE c == DerivationChecks(f)
<1>1. /\ Len(c) = 8
      /\ c[1].fails <=> "derivation_absent" \in D
      /\ c[2].fails <=> "derivation_absent" \in D
      /\ ~c[3].fails
      /\ c[4].fails <=> ~SignatureValid(f.derivation)
      /\ c[4].fails => D \cap DerivationDrifts # {}
      /\ c[5].fails <=> "derived_by_activator" \in D
      /\ c[5].fails => c[5].reason = "AUTHORITY_ROLE_SUBSTITUTION"
      /\ c[6].fails => "rules_unknown" \in D
      /\ "rules_unknown" \in D => c[6].fails \/ "rule_unmapped" \in D
      /\ c[7].fails => "coverage_emptied" \in D
      /\ "coverage_emptied" \in D => c[7].fails
      /\ c[8].fails <=> D \cap {"coverage_emptied", "rule_unmapped"} # {}
  BY DerivationFails
<1>2. /\ c[1].reason = "DERIVATION_ABSENT_OR_UNVERIFIABLE"
      /\ c[4].reason = "DERIVATION_SIGNATURE_INVALID" /\ c[6].reason = "RULE_SET_UNRESOLVED"
      /\ c[7].reason = "DERIVATION_UNSUPPORTED" /\ c[8].reason = "UNMAPPED_EXECUTABLE_RULE"
  BY DEF DerivationChecks, Deny, Hold
<1>3. Checks(c) = {c[1], c[2], c[3], c[4], c[5], c[6], c[7], c[8]}
  BY DerivationChain
<1>4. ASSUME NEW d \in D \cap (DerivationFatal \cup SignedDrifts), NEW reason, reason = Blame(f, d)
      PROVE  Blamed(f, D, reason)
  <2>1. d \in DOMAIN Reason /\ d # "graph_cyclic"
    BY DEF DerivationFatal, SignedDrifts, Reason
  <2> QED  BY <1>4, <2>1, TakesBlame
<1> HIDE DEF c
<1>5. ASSUME NEW reason, RefusesFor(c, reason) PROVE Blamed(f, D, reason)
  <2>1. \E i \in 1..Len(c) : /\ c[i].fails /\ c[i].reason = reason
                             /\ \A j \in 1..(i - 1) : ~c[j].fails
    BY <1>5, AnswersFirst
  <2>2. PICK i \in 1..8 : /\ c[i].fails /\ c[i].reason = reason
                          /\ \A j \in 1..(i - 1) : ~c[j].fails
    BY <1>1, <2>1
  <2>3. i # 2 /\ i # 3 /\ (i # 1 => ~c[1].fails) /\ (i > 4 => ~c[4].fails) /\ (i > 7 => ~c[7].fails)
    <3>1. i = 2 => ~c[1].fails
      BY <2>2
    <3> QED  BY <1>1, <2>2, <3>1
  <2>4. CASE i = 4
    <3>1. PICK d \in D \cap DerivationDrifts : d # "derivation_absent"
      BY <1>1, <2>2, <2>3, <2>4
    <3>2. d \in SignedDrifts
      BY <3>1 DEF DerivationDrifts, SignedDrifts
    <3>3. Blame(f, d) = reason
      BY <1>1, <1>2, <2>2, <2>4, <3>2, BlameIs
    <3> QED  BY <1>4, <3>1, <3>2, <3>3
  <2>5. CASE i # 4
    <3>1. \/ i = 1 /\ "derivation_absent" \in D
          \/ i = 5 /\ "derived_by_activator" \in D /\ SignatureValid(f.derivation)
          \/ i = 6 /\ "rules_unknown" \in D
          \/ i = 7 /\ "coverage_emptied" \in D /\ SignatureValid(f.derivation)
          \/ i = 8 /\ "rule_unmapped" \in D
      BY <1>1, <2>2, <2>3, <2>5
    <3>2. /\ "derived_by_activator" \in SignedDrifts /\ "coverage_emptied" \in SignedDrifts
          /\ {"derivation_absent", "rules_unknown", "rule_unmapped"} \cap
                 (SignedDrifts \cup RuntimeDrifts \cup {"absence_unwarranted"}) = {}
      BY DEF SignedDrifts, RuntimeDrifts, InterpretationDrifts
    <3>3. /\ Reason["derivation_absent"] = "DERIVATION_ABSENT_OR_UNVERIFIABLE"
          /\ Reason["derived_by_activator"] = "AUTHORITY_ROLE_SUBSTITUTION"
          /\ Reason["rules_unknown"] = "RULE_SET_UNRESOLVED"
          /\ Reason["coverage_emptied"] = "DERIVATION_UNSUPPORTED"
          /\ Reason["rule_unmapped"] = "UNMAPPED_EXECUTABLE_RULE"
      BY DEF Reason
    <3>4. \E d \in D \cap DerivationFatal : reason = Blame(f, d)
      BY <1>1, <1>2, <2>2, <3>1, <3>2, <3>3, BlameIs DEF DerivationFatal
    <3> QED  BY <1>4, <3>4
  <2> QED  BY <2>4, <2>5
<1>6. Passing(c) => D \cap DerivationFatal = {} /\ SignatureValid(f.derivation)
  BY <1>1, <1>3 DEF Passing, DerivationFatal
<1> QED  BY <1>5, <1>6 DEF c

\* What each check of the approval is about (harness.py:574-591).
LEMMA ApprovalFails ==
    ASSUME NEW f, Shaped(f), NEW D, Traced(f, D),
           D \cap (SourceDrifts \cup DerivationFatal) = {}
    PROVE  LET c == ApprovalChecks(f) IN
           /\ Len(c) = 5
           /\ c[1].fails <=> "approved_too_late" \in D
           /\ c[2].fails <=> ~ApprovalBound(f)
           /\ c[2].fails => D \cap (RuntimeDrifts \cup {"approved_other_policy",
                                                        "assumptions_changed"}) # {}
           /\ c[3].fails => "design_changed" \in D
           /\ c[4].fails => c[1].fails \/ c[2].fails
           /\ ~c[5].fails
<1> DEFINE c == ApprovalChecks(f)
           a == f.approval
           s == f.policy.scope
           authority == Authorised(f, a.principal, "APPROVE_POLICY", a.grant_id, s)
<1>1. Len(c) = 5
  BY DEF ApprovalChecks
<1>2. /\ D \cap (TargetDrifts \cup {"jurisdiction_changed"}) = {}
      /\ "policy_superseded" \notin D
      /\ D \cap {"rule_unmapped", "rules_unknown"} = {}
      /\ D \cap {"derivation_absent", "coverage_emptied", "derived_by_activator"} = {}
  BY DEF SourceDrifts, DerivationFatal
<1>3. s = Device7 /\ PolicyDigest(f.policy) = PolicyDigest(Candidate)
  BY <1>2, UnreachedAsBuilt
<1>4. ApprovalTraced(a, D)
  BY DEF Traced
<1>5. /\ c[1].fails = (a.approved_at > a.activation_requested_at)
      /\ c[2].fails = ~ApprovalBound(f)
      /\ c[3].fails = (a.design_digest # f.policy.design_digest)
      /\ c[4].fails = ~SignatureValid(a) /\ c[5].fails = Refused(authority)
  BY DEF ApprovalChecks, Deny
<1>6. ApprovalBound(f) <=>
          /\ a.policy_digest = PolicyDigest(Candidate)
          /\ a.closure_digest = Digest(f.closure)
          /\ a.interpretation_digest = Digest(f.interpretation)
          /\ a.attestation_digest = Digest(Signable(f.derivation))
          /\ a.scope_digest = Digest(Device7)
  BY <1>3 DEF ApprovalBound
<1> HIDE DEF c, a, s, authority
<1>7. c[1].fails <=> "approved_too_late" \in D
  <2>1. a.approved_at > a.activation_requested_at <=> "approved_too_late" \in D
    BY <1>4, TimeAssumption DEF ApprovalTraced, After
  <2> QED  BY <1>5, <2>1, Zenon
<1>8. /\ c[2].fails <=> ~ApprovalBound(f)
      /\ c[2].fails => D \cap (RuntimeDrifts \cup {"approved_other_policy",
                                                   "assumptions_changed"}) # {}
  <2>1. ASSUME D \cap (RuntimeDrifts \cup {"approved_other_policy", "assumptions_changed"}) = {}
        PROVE  ApprovalBound(f)
    <3>1. /\ D \cap {"policy_superseded", "approved_other_policy"} = {}
          /\ D \cap ClosureDrifts = {} /\ D \cap InterpretationDrifts = {}
          /\ D \cap DerivationDrifts = {}
      BY <1>2, <2>1 DEF RuntimeDrifts, ClosureDrifts, DerivationDrifts
    <3>2. /\ a.policy_digest = PolicyDigest(Candidate)
          /\ a.closure_digest = Digest(Closure(Candidate))
          /\ a.interpretation_digest = Digest(Interpretation(Candidate))
          /\ a.attestation_digest = Digest(Signable(Derivation(Candidate)))
          /\ a.scope_digest = Digest(Device7)
      BY <1>2, <1>4, <3>1 DEF ApprovalTraced
    <3>3. /\ f.closure = Closure(Candidate) /\ f.interpretation = Interpretation(Candidate)
          /\ Signable(f.derivation) = Signable(Derivation(Candidate))
      BY <3>1, UnreachedAsBuilt
    <3> QED  BY <1>6, <3>2, <3>3
  <2> QED  BY <1>5, <2>1, Zenon
<1>9. c[3].fails => "design_changed" \in D
  <2>1. "design_changed" \notin D => a.design_digest = f.policy.design_digest
    BY <1>4, UnreachedAsBuilt DEF ApprovalTraced
  <2> QED  BY <1>5, <2>1, Zenon
<1>10. c[4].fails => c[1].fails \/ c[2].fails
  <2>1. PolicyDigest(Candidate) # Digest([other |-> "policy"])
    <3>1. "content" \in DOMAIN Restrict(Candidate, {"content", "version"})
      BY DEF Restrict, Candidate, Policy
    <3>2. [other |-> "policy"] # Restrict(Candidate, {"content", "version"})
      BY <3>1
    <3> QED  BY <3>2, DigestIsInjective DEF PolicyDigest
  <2>2. SignatureValid(a) \/ "approved_too_late" \in D \/ ~ApprovalBound(f)
    BY <1>4, <1>6, <2>1 DEF ApprovalTraced
  <2> QED  BY <1>5, <1>7, <1>8, <2>2, Zenon
<1>11. ~c[5].fails
  <2>1. /\ "g_approve" \in DOMAIN Holder
        /\ Holder["g_approve"][1] = "approver" /\ Holder["g_approve"][2] = "APPROVE_POLICY"
    BY DEF Holder
  <2>2. ~Refused(Authorised(f, "approver", "APPROVE_POLICY", "g_approve", Device7))
    BY <2>1, TracedAuthority, WithinWindow
  <2>3. ~Refused(authority)
    BY <1>3, <1>4, <2>2 DEF ApprovalTraced, authority
  <2> QED  BY <1>5, <2>3
<1> QED  BY <1>1, <1>7, <1>8, <1>9, <1>10, <1>11 DEF c

\* The checks of the approval blame a mutation that it was not given for.
LEMMA ApprovalBlames ==
    ASSUME NEW f, Shaped(f), NEW D, Traced(f, D),
           D \cap (SourceDrifts \cup DerivationFatal) = {}, SignatureValid(f.derivation)
    PROVE  /\ \A reason : RefusesFor(ApprovalChecks(f), reason) => Blamed(f, D, reason)
           /\ Passing(ApprovalChecks(f)) => "approved_too_late" \notin D /\ ApprovalBound(f)
<1> DEFINE c == ApprovalChecks(f)
<1>1. /\ Len(c) = 5
      /\ c[1].fails <=> "approved_too_late" \in D
      /\ c[2].fails <=> ~ApprovalBound(f)
      /\ c[2].fails => D \cap (RuntimeDrifts \cup {"approved_other_policy",
                                                   "assumptions_changed"}) # {}
      /\ c[3].fails => "design_changed" \in D
      /\ c[4].fails => c[1].fails \/ c[2].fails
      /\ ~c[5].fails
  BY ApprovalFails
<1>2. /\ c[1].reason = "APPROVAL_AFTER_USE"
      /\ c[2].reason = "APPROVAL_NOT_BOUND_TO_ARTEFACT"
      /\ c[3].reason = "APPROVAL_INHERITED_ACROSS_CHANGE"
  BY DEF ApprovalChecks, Deny
<1>3. Checks(c) = {c[1], c[2], c[3], c[4], c[5]}
  BY ApprovalChain
<1> HIDE DEF c
<1>4. ASSUME NEW reason, RefusesFor(c, reason) PROVE Blamed(f, D, reason)
  <2>1. \E i \in 1..Len(c) : /\ c[i].fails /\ c[i].reason = reason
                             /\ \A j \in 1..(i - 1) : ~c[j].fails
    BY <1>4, AnswersFirst
  <2>2. PICK i \in 1..5 : /\ c[i].fails /\ c[i].reason = reason
                          /\ \A j \in 1..(i - 1) : ~c[j].fails
    BY <1>1, <2>1
  <2>3. i \in {1, 2, 3}
    BY <1>1, <2>2
  <2>4. {"approved_too_late", "design_changed", "approved_other_policy"} \cap
            (SignedDrifts \cup RuntimeDrifts \cup {"absence_unwarranted"}) = {}
    BY DEF SignedDrifts, RuntimeDrifts, InterpretationDrifts
  <2>5. "assumptions_changed" \in SignedDrifts
    BY DEF SignedDrifts
  <2>6. /\ Reason["approved_too_late"] = "APPROVAL_AFTER_USE"
        /\ Reason["approved_other_policy"] = "APPROVAL_NOT_BOUND_TO_ARTEFACT"
        /\ Reason["assumptions_changed"] = "APPROVAL_NOT_BOUND_TO_ARTEFACT"
        /\ Reason["design_changed"] = "APPROVAL_INHERITED_ACROSS_CHANGE"
    BY DEF Reason
  <2>7. \E d \in D \cap (RuntimeDrifts \cup {"approved_too_late", "design_changed",
                              "approved_other_policy", "assumptions_changed"}) :
            reason = Blame(f, d)
    <3>1. CASE i = 1
      BY <1>1, <1>2, <2>2, <2>4, <2>6, <3>1, BlameIs
    <3>2. CASE i = 2
      BY <1>1, <1>2, <2>2, <2>4, <2>5, <2>6, <3>2, BlameIs
    <3>3. CASE i = 3
      BY <1>1, <1>2, <2>2, <2>4, <2>6, <3>3, BlameIs
    <3> QED  BY <2>3, <3>1, <3>2, <3>3
  <2>8. ASSUME NEW d \in RuntimeDrifts \cup {"approved_too_late", "design_changed",
                              "approved_other_policy", "assumptions_changed"}
        PROVE  d \in DOMAIN Reason /\ d # "graph_cyclic"
    BY DEF Reason, RuntimeDrifts, InterpretationDrifts
  <2> QED  BY <2>7, <2>8, TakesBlame
<1>5. Passing(c) => "approved_too_late" \notin D /\ ApprovalBound(f)
  BY <1>1, <1>3 DEF Passing
<1> QED  BY <1>4, <1>5 DEF c

\* What was approved is what runs: the checks of the closure blame the
\* dependency that the runtime loaded instead (harness.py:592-595).
LEMMA ClosureBlames ==
    ASSUME NEW f, Shaped(f), NEW D, Traced(f, D), "policy_superseded" \notin D,
           ApprovalBound(f)
    PROVE  /\ \A reason : RefusesFor(ClosureChecks(f), reason) => Blamed(f, D, reason)
           /\ Passing(ClosureChecks(f)) => "runtime_dependency_changed" \notin D
<1> DEFINE c == ClosureChecks(f)
           k == f.closure
           drifted == [Dependencies EXCEPT !.rules_lib = "rules v2"]
<1>1. Len(c) = 2
  BY DEF ClosureChecks
<1>2. /\ c[1].fails = (k.root_policy_digest # PolicyDigest(f.policy))
      /\ c[2].fails = (k.dependencies # k.runtime_dependencies)
      /\ c[2].reason = "CLOSURE_MISMATCH"
  BY DEF ClosureChecks, Deny
<1>3. PolicyDigest(f.policy) = PolicyDigest(Candidate)
  BY UnreachedAsBuilt
<1>4. /\ k.root_policy_digest = PolicyDigest(Candidate) /\ k.dependencies = Dependencies
      /\ k.runtime_dependencies =
             After("runtime_dependency_changed", D, drifted, Dependencies)
  <2> DEFINE b == Closure(Candidate)
  <2>1. /\ {"root_policy_digest", "dependencies"} \subseteq DOMAIN b
        /\ b.root_policy_digest = PolicyDigest(Candidate) /\ b.dependencies = Dependencies
    BY DEF Closure
  <2>2. ClosureTraced(k, D)
    BY DEF Traced
  <2> HIDE DEF b, k
  <2>3. SameBut(k, b, {"runtime_dependencies", "rule_inventory"})
    BY <2>2 DEF ClosureTraced, b
  <2>4. k.root_policy_digest = b.root_policy_digest /\ k.dependencies = b.dependencies
    BY <2>1, <2>3 DEF SameBut
  <2> QED  BY <2>1, <2>2, <2>4 DEF ClosureTraced
<1>5. Dependencies # drifted
  <2>1. drifted.rules_lib = "rules v2" /\ Dependencies.rules_lib = "rules v1"
    BY DEF Dependencies
  <2> QED  BY <2>1
<1> HIDE DEF c, k, drifted
<1>6. ~c[1].fails
  BY <1>2, <1>3, <1>4
<1>7. c[2].fails <=> "runtime_dependency_changed" \in D
  <2>1. k.dependencies # k.runtime_dependencies <=> "runtime_dependency_changed" \in D
    BY <1>4, <1>5 DEF After
  <2> QED  BY <1>2, <2>1, Zenon
<1>8. ASSUME NEW reason, RefusesFor(c, reason) PROVE Blamed(f, D, reason)
  <2>1. \E i \in 1..Len(c) : c[i].fails /\ c[i].reason = reason
    BY <1>8, AnswersFirst
  <2>2. PICK i \in 1..2 : c[i].fails /\ c[i].reason = reason
    BY <1>1, <2>1
  <2>3. "runtime_dependency_changed" \in D /\ reason = "CLOSURE_MISMATCH"
    BY <1>2, <1>6, <1>7, <2>2
  <2>4. /\ "runtime_dependency_changed" \in RuntimeDrifts
        /\ "runtime_dependency_changed" \in DOMAIN Reason
        /\ Reason["runtime_dependency_changed"] = "CLOSURE_MISMATCH"
    BY DEF RuntimeDrifts, Reason
  <2>5. Blame(f, "runtime_dependency_changed") = reason
    BY <2>3, <2>4, BlameIs
  <2> QED  BY <2>3, <2>4, <2>5, TakesBlame
<1>9. Passing(c) => "runtime_dependency_changed" \notin D
  <2>1. Checks(c) = {c[1], c[2]}
    BY ClosureChain DEF c
  <2> QED  BY <1>7, <2>1 DEF Passing
<1> QED  BY <1>8, <1>9 DEF c

\* What the runtime loaded is what was checked: the checks of the
\* interpretation blame what it loaded instead (_validate_interpretation).
LEMMA InterpretationBlames ==
    ASSUME NEW f, Shaped(f), NEW D, Traced(f, D), ApprovalBound(f)
    PROVE  /\ \A reason : RefusesFor(InterpretationChecks(f), reason) => Blamed(f, D, reason)
           /\ Passing(InterpretationChecks(f)) => D \cap InterpretationDrifts = {}
<1> DEFINE c == InterpretationChecks(f)
           b == f.interpretation.bound
           r == f.interpretation.runtime
           aggregate == Closure(Candidate).aggregate_digest
<1>1. Len(c) = 6
  BY DEF InterpretationChecks
<1>2. /\ c[1].fails = (b.source # BytesDigest(f.policy.content))
      /\ c[2].fails = Diverges(f, {"versions"})
      /\ c[3].fails = Diverges(f, {"source"})
      /\ c[4].fails = Diverges(f, {"include", "defaults", "environment"})
      /\ c[5].fails = Diverges(f, {"normalised_executable"})
      /\ c[6].fails = Diverges(f, {"engine_instance_id", "loaded_closure"})
      /\ c[2].reason = "INTERPRETATION_VERSION_MISMATCH"
      /\ c[4].reason = "LOADED_CLOSURE_MISMATCH" /\ c[5].reason = "EXECUTED_FORM_MISMATCH"
  BY DEF InterpretationChecks, Deny
<1>3. \A fields : Diverges(f, fields) <=> \E x \in fields : b[x] # r[x]
  BY DEF Diverges, Restrict
<1>4. f.policy.content = Candidate.content
  <2>1. "content" \in DOMAIN Candidate
    BY DEF Candidate, Policy
  <2> QED  BY <2>1 DEF Traced, PolicyTraced, SameBut
<1>5. InterpretationTraced(f.interpretation, D)
  BY DEF Traced
<1>6. /\ b.source = BytesDigest(Candidate.content) /\ b.versions = <<"1", "1", "1">>
      /\ b.include = "rules v1" /\ b.normalised_executable = aggregate
      /\ DOMAIN b = {"source", "versions", "include", "defaults", "environment",
                     "normalised_executable", "engine_instance_id", "loaded_closure"}
  <2> DEFINE k == Interpretation(Candidate)
             i == f.interpretation
  <2>1. /\ "bound" \in DOMAIN k
        /\ k.bound.source = BytesDigest(Candidate.content)
        /\ k.bound.versions = <<"1", "1", "1">> /\ k.bound.include = "rules v1"
        /\ k.bound.normalised_executable = aggregate
        /\ DOMAIN k.bound = {"source", "versions", "include", "defaults", "environment",
                             "normalised_executable", "engine_instance_id", "loaded_closure"}
    BY DEF Interpretation
  <2> HIDE DEF k, i
  <2>2. i.bound = k.bound
    BY <1>5, <2>1 DEF InterpretationTraced, SameBut, i, k
  <2> QED  BY <2>1, <2>2 DEF i
<1>7. /\ \A x \in {"source", "defaults", "environment", "engine_instance_id",
                   "loaded_closure"} : r[x] = b[x]
      /\ r.versions = After("parser_changed", D, <<"1", "2", "1">>, <<"1", "1", "1">>)
      /\ r.include = After("include_changed", D, "includes changed", "rules v1")
      /\ r.normalised_executable =
             After("executable_changed", D, Digest([executed |-> "B"]), aggregate)
  <2> HIDE DEF c, b, r, aggregate
  <2>1. SameBut(r, b, {"versions", "include", "normalised_executable"})
    BY <1>5 DEF InterpretationTraced, b, r
  <2>2. {"source", "defaults", "environment", "engine_instance_id", "loaded_closure"}
            \subseteq DOMAIN b \ {"versions", "include", "normalised_executable"}
    BY <1>6
  <2>3. \A x \in {"source", "defaults", "environment", "engine_instance_id",
                  "loaded_closure"} : r[x] = b[x]
    BY <2>1, <2>2 DEF SameBut
  <2> QED  BY <1>5, <2>3 DEF InterpretationTraced, r, aggregate
<1>8. aggregate # Digest([executed |-> "B"])
  <2>1. aggregate = Digest([root |-> PolicyDigest(Candidate), dependencies |-> Dependencies])
    BY DEF Closure
  <2>2. [root |-> PolicyDigest(Candidate), dependencies |-> Dependencies] # [executed |-> "B"]
    OBVIOUS
  <2> QED  BY <2>1, <2>2, DigestIsInjective
<1> HIDE DEF c, b, r, aggregate
<1>9. ~c[1].fails /\ ~c[3].fails /\ ~c[6].fails
  <2>1. b.source = BytesDigest(f.policy.content)
    BY <1>4, <1>6
  <2> DEFINE kept == {"source", "defaults", "environment", "engine_instance_id",
                      "loaded_closure"}
  <2>2. ASSUME NEW fields \in SUBSET kept PROVE ~Diverges(f, fields)
    <3>1. \A x \in kept : r[x] = b[x]
      BY <1>7
    <3> HIDE DEF kept
    <3> QED  BY <1>3, <3>1
  <2>3. ~Diverges(f, {"source"}) /\ ~Diverges(f, {"engine_instance_id", "loaded_closure"})
    BY <2>2
  <2> QED  BY <1>2, <2>1, <2>3, Zenon
<1>10. /\ c[2].fails <=> "parser_changed" \in D
       /\ c[4].fails <=> "include_changed" \in D
       /\ c[5].fails <=> "executable_changed" \in D
  <2>1. b.versions # r.versions <=> "parser_changed" \in D
    <3> DEFINE checked == <<"1", "1", "1">>
               loaded == <<"1", "2", "1">>
    <3>1. checked # loaded
      <4>1. checked[2] = "1" /\ loaded[2] = "2"
        OBVIOUS
      <4> QED  BY <4>1
    <3>2. b.versions = checked /\ r.versions = After("parser_changed", D, loaded, checked)
      BY <1>6, <1>7
    <3> HIDE DEF checked, loaded
    <3> QED  BY <3>1, <3>2 DEF After
  <2>2. b.include # r.include <=> "include_changed" \in D
    BY <1>6, <1>7 DEF After
  <2>3. b.normalised_executable # r.normalised_executable <=> "executable_changed" \in D
    BY <1>6, <1>7, <1>8 DEF After
  <2>4. b["defaults"] = r["defaults"] /\ b["environment"] = r["environment"]
    BY <1>7
  <2>5. Diverges(f, {"versions"}) <=> "parser_changed" \in D
    BY <1>3, <2>1
  <2>6. Diverges(f, {"include", "defaults", "environment"}) <=> "include_changed" \in D
    BY <1>3, <2>2, <2>4
  <2>7. Diverges(f, {"normalised_executable"}) <=> "executable_changed" \in D
    BY <1>3, <2>3
  <2> QED  BY <1>2, <2>5, <2>6, <2>7, Zenon
<1>11. ASSUME NEW reason, RefusesFor(c, reason) PROVE Blamed(f, D, reason)
  <2>1. \E i \in 1..Len(c) : c[i].fails /\ c[i].reason = reason
    BY <1>11, AnswersFirst
  <2>2. PICK i \in 1..6 : c[i].fails /\ c[i].reason = reason
    BY <1>1, <2>1
  <2>3. \E d \in D \cap InterpretationDrifts : reason = Reason[d]
    BY <1>2, <1>9, <1>10, <2>2 DEF InterpretationDrifts, Reason
  <2>4. PICK d \in D \cap InterpretationDrifts : reason = Reason[d]
    BY <2>3
  <2>5. d \in DOMAIN Reason /\ d # "graph_cyclic" /\ d \in RuntimeDrifts
    BY DEF InterpretationDrifts, RuntimeDrifts, Reason
  <2>6. Blame(f, d) = reason
    BY <2>4, <2>5, BlameIs
  <2> QED  BY <2>4, <2>5, <2>6, TakesBlame
<1>12. Passing(c) => D \cap InterpretationDrifts = {}
  <2>1. Checks(c) = {c[1], c[2], c[3], c[4], c[5], c[6]}
    BY InterpretationChain DEF c
  <2> QED  BY <1>10, <2>1 DEF Passing, InterpretationDrifts
<1> QED  BY <1>11, <1>12 DEF c

EnvironmentDrifts == {"scope_evaluator_changed", "tcb_changed", "snapshot_race"}

\* The checks of the evaluator, the computing base and the snapshot blame
\* what became of them (harness.py:599-606).
LEMMA EnvironmentBlames ==
    ASSUME NEW f, NEW D, Traced(f, D)
    PROVE  /\ \A reason : RefusesFor(EnvironmentChecks(f), reason) => Blamed(f, D, reason)
           /\ Passing(EnvironmentChecks(f)) => D \cap EnvironmentDrifts = {}
<1> DEFINE c == EnvironmentChecks(f)
<1>1. Len(c) = 4
  BY DEF EnvironmentChecks
<1>2. /\ c[1].fails = (f.scope_evaluator_version # f.actual_scope_evaluator_version)
      /\ c[2].fails = (f.target_set_digest # f.actual_target_set_digest)
      /\ c[3].fails = (f.actual_tcb_digest # f.tcb_digest)
      /\ c[4].fails = ("snapshot_race" \in f.flags)
      /\ c[1].reason = "SCOPE_EVALUATOR_MISMATCH" /\ c[3].reason = "TCB_VERSION_MISMATCH"
      /\ c[4].reason = "SNAPSHOT_COHERENCE_FAILED"
  BY DEF EnvironmentChecks, Deny, Hold
<1>3. /\ f.scope_evaluator_version = "scope-v1" /\ f.tcb_digest = "tcb 0.6"
      /\ f.target_set_digest = f.actual_target_set_digest
      /\ f.actual_scope_evaluator_version =
             After("scope_evaluator_changed", D, "scope-v2", "scope-v1")
      /\ f.actual_tcb_digest = After("tcb_changed", D, "tcb modified", "tcb 0.6")
      /\ f.flags = D \cap {"exception_generalised", "snapshot_race"}
  BY DEF Traced, PlainTraced, Fixed, Built, ValidFixture
<1> HIDE DEF c
<1>4. /\ c[1].fails <=> "scope_evaluator_changed" \in D
      /\ ~c[2].fails
      /\ c[3].fails <=> "tcb_changed" \in D
      /\ c[4].fails <=> "snapshot_race" \in D
  <2>1. /\ f.scope_evaluator_version # f.actual_scope_evaluator_version
               <=> "scope_evaluator_changed" \in D
        /\ f.actual_tcb_digest # f.tcb_digest <=> "tcb_changed" \in D
        /\ "snapshot_race" \in f.flags <=> "snapshot_race" \in D
    BY <1>3 DEF After
  <2> QED  BY <1>2, <1>3, <2>1, Zenon
<1>5. ASSUME NEW reason, RefusesFor(c, reason) PROVE Blamed(f, D, reason)
  <2>1. \E i \in 1..Len(c) : c[i].fails /\ c[i].reason = reason
    BY <1>5, AnswersFirst
  <2>2. PICK i \in 1..4 : c[i].fails /\ c[i].reason = reason
    BY <1>1, <2>1
  <2>3. \E d \in D \cap EnvironmentDrifts : reason = Reason[d]
    BY <1>2, <1>4, <2>2 DEF EnvironmentDrifts, Reason
  <2>4. PICK d \in D \cap EnvironmentDrifts : reason = Reason[d]
    BY <2>3
  <2>5. /\ d \in DOMAIN Reason /\ d # "graph_cyclic"
        /\ d \notin SignedDrifts \cup RuntimeDrifts \cup {"absence_unwarranted"}
    BY DEF EnvironmentDrifts, SignedDrifts, RuntimeDrifts, InterpretationDrifts, Reason
  <2>6. Blame(f, d) = reason
    BY <2>4, <2>5, BlameIs
  <2> QED  BY <2>4, <2>5, <2>6, TakesBlame
<1>6. Passing(c) => D \cap EnvironmentDrifts = {}
  <2>1. Checks(c) = {c[1], c[2], c[3], c[4]}
    BY EnvironmentChain DEF c
  <2> QED  BY <1>4, <2>1 DEF Passing, EnvironmentDrifts
<1> QED  BY <1>5, <1>6 DEF c

\* The check of the proof graph blames the cycle that it found
\* (harness.py:610-614).
LEMMA GraphBlames ==
    ASSUME NEW f, NEW D, Traced(f, D)
    PROVE  /\ \A reason : RefusesFor(GraphChecks(f), reason) => Blamed(f, D, reason)
           /\ Passing(GraphChecks(f)) => "graph_cyclic" \notin D
<1> DEFINE c == GraphChecks(f)
<1>1. Len(c) = 1
  BY DEF GraphChecks
<1>2. c[1].fails = (f.proof_graph # "PROOF_GRAPH_VALID") /\ c[1].reason = f.proof_graph
  BY DEF GraphChecks, Halt, Deny
<1>3. f.proof_graph = IF "graph_cyclic" \in D THEN "PROOF_GRAPH_CYCLE" ELSE "PROOF_GRAPH_VALID"
  BY CycleIsFound, FixtureGraphIsValid DEF Traced, PlainTraced, After
<1> HIDE DEF c
<1>4. ASSUME NEW reason, RefusesFor(c, reason) PROVE Blamed(f, D, reason)
  <2>1. \E i \in 1..Len(c) : c[i].fails /\ c[i].reason = reason
    BY <1>4, AnswersFirst
  <2>2. PICK i \in 1..1 : c[i].fails /\ c[i].reason = reason
    BY <1>1, <2>1
  <2>3. c[1].fails /\ c[1].reason = reason
    BY <2>2
  <2>4. "graph_cyclic" \in D /\ reason = "PROOF_GRAPH_CYCLE"
    BY <1>2, <1>3, <2>3
  <2>5. /\ "graph_cyclic" \in DOMAIN Reason /\ Reason["graph_cyclic"] = "PROOF_GRAPH_CYCLE"
        /\ "graph_cyclic" \notin SignedDrifts \cup RuntimeDrifts \cup {"absence_unwarranted"}
    BY DEF Reason, SignedDrifts, RuntimeDrifts, InterpretationDrifts
  <2>6. Blame(f, "graph_cyclic") = reason
    BY <2>4, <2>5, BlameIs
  <2> QED  BY <2>4, <2>5, <2>6 DEF Blamed
<1>5. Passing(c) => "graph_cyclic" \notin D
  <2>1. Checks(c) = {c[1]}
    BY GraphChain DEF c
  <2>2. Passing(c) => f.proof_graph = "PROOF_GRAPH_VALID"
    BY <1>2, <2>1 DEF Passing
  <2> QED  BY <1>3, <2>2
<1> QED  BY <1>4, <1>5 DEF c

EvidenceDrifts ==
    {"absence_unwarranted", "predicate_not_permitted", "status_invalid", "source_unavailable",
     "source_substituted", "role_substituted"}

\* What of the contract no mutation reaches (observation_contract of harness.py).
LEMMA ContractKept ==
    ASSUME NEW c, NEW D, ContractTraced(c, D)
    PROVE  /\ c.status = "CURRENT" /\ c.issuer = "contract-issuer"
           /\ c.issuer_grant_id = "g_contract" /\ c.max_age = MaxAge
           /\ c.object_classes = {"obligation", "grant", "policy"}
           /\ c.source_id = "revocation-source-A" /\ c.source_role = "REVOCATION_STATUS"
           /\ c.contract_id = "obs-contract-1" /\ c.version = 1
           /\ c.endpoint = "revocation.example" /\ c.namespace = "authority/main"
           /\ c.temporal_policy_id = "utc-strict-v1"
           /\ c.interpretation_rule = "signed-record-v1"
<1> DEFINE kept == {"status", "issuer", "issuer_grant_id", "max_age", "object_classes",
                    "source_id", "source_role", "contract_id", "version", "endpoint",
                    "namespace", "temporal_policy_id", "interpretation_rule"}
<1>1. /\ DOMAIN Contract = kept \cup {"permitted_predicates", "absence_establishes",
                                      "signature", "signed_digest"}
      /\ Contract.status = "CURRENT" /\ Contract.issuer = "contract-issuer"
      /\ Contract.issuer_grant_id = "g_contract" /\ Contract.max_age = MaxAge
      /\ Contract.object_classes = {"obligation", "grant", "policy"}
      /\ Contract.source_id = "revocation-source-A"
      /\ Contract.source_role = "REVOCATION_STATUS"
      /\ Contract.contract_id = "obs-contract-1" /\ Contract.version = 1
      /\ Contract.endpoint = "revocation.example" /\ Contract.namespace = "authority/main"
      /\ Contract.temporal_policy_id = "utc-strict-v1"
      /\ Contract.interpretation_rule = "signed-record-v1"
  BY DEF Contract, Signed
<1>2. \A x \in kept : x \in DOMAIN Contract \ {"permitted_predicates", "absence_establishes",
                                               "signature", "signed_digest"}
  BY <1>1
<1>3. \A x \in kept : c[x] = Contract[x]
  BY <1>2 DEF ContractTraced, SameBut
<1> QED  BY <1>1, <1>3

\* What of the observation no mutation reaches (observation of harness.py).
LEMMA ObservationKept ==
    ASSUME NEW o, NEW D, ObservationTraced(o, D)
    PROVE  /\ o.contract_id = "obs-contract-1" /\ o.contract_version = 1
           /\ o.endpoint = "revocation.example" /\ o.namespace = "authority/main"
           /\ o.queried_object_class = "obligation" /\ o.proposition = "NOT_REVOKED"
           /\ o.temporal_policy_id = "utc-strict-v1"
           /\ o.interpretation_rule = "signed-record-v1"
<1> DEFINE kept == {"contract_id", "contract_version", "endpoint", "namespace",
                    "queried_object_class", "proposition", "temporal_policy_id",
                    "interpretation_rule"}
           drifting == {"contract_digest", "source_id", "source_role", "observed_at",
                        "next_update", "evidence_state"}
<1>1. Traced(Built, {}) /\ Built.observation_contract = Contract
  BY BuiltIsTraced, FixtureParts DEF Built
<1>2. ContractTraced(Contract, {})
  BY <1>1 DEF Traced
<1>3. /\ Contract.contract_id = "obs-contract-1" /\ Contract.version = 1
      /\ Contract.endpoint = "revocation.example" /\ Contract.namespace = "authority/main"
      /\ Contract.temporal_policy_id = "utc-strict-v1"
      /\ Contract.interpretation_rule = "signed-record-v1"
  BY <1>2, ContractKept
<1>4. /\ DOMAIN Observation = kept \cup drifting
      /\ Observation.contract_id = "obs-contract-1" /\ Observation.contract_version = 1
      /\ Observation.endpoint = "revocation.example"
      /\ Observation.namespace = "authority/main"
      /\ Observation.queried_object_class = "obligation"
      /\ Observation.proposition = "NOT_REVOKED"
      /\ Observation.temporal_policy_id = "utc-strict-v1"
      /\ Observation.interpretation_rule = "signed-record-v1"
  BY <1>3 DEF Observation
<1>5. SameBut(o, Observation, drifting)
  BY DEF ObservationTraced
<1>6. \A x \in kept : x \in DOMAIN Observation \ drifting
  BY <1>4
<1>7. \A x \in kept : o[x] = Observation[x]
  BY <1>5, <1>6 DEF SameBut
<1> QED  BY <1>4, <1>7

\* What each check of the evidence is about (_validate_observation).
LEMMA ObservationFails ==
    ASSUME NEW f, Shaped(f), NEW D, Traced(f, D),
           D \cap (TargetDrifts \cup {"jurisdiction_changed"}) = {}
    PROVE  LET c == ObservationChecks(f)
               state == f.observation.evidence_state
           IN
           /\ Len(c) = 14
           /\ ~c[1].fails /\ ~c[2].fails
           /\ c[3].fails <=> ~Matched(f)
           /\ ~Matched(f) => D \cap ContractDrifts # {}
           /\ c[4].fails <=> "source_substituted" \in D
           /\ ~c[5].fails
           /\ c[6].fails <=> D \cap {"role_substituted", "predicate_not_permitted"} # {}
           /\ ~c[7].fails
           /\ c[8].fails <=> state = "SOURCE_UNAVAILABLE"
           /\ ~c[9].fails /\ ~c[10].fails
           /\ c[11].fails <=> state = "ABSENCE_OBSERVED"
           /\ ~c[12].fails
           /\ c[13].fails <=> state = "POSITIVELY_INVALID"
           /\ c[14].fails <=> state # "POSITIVELY_ESTABLISHED"
<1> DEFINE c == ObservationChecks(f)
           k == f.observation_contract
           o == f.observation
           state == o.evidence_state
           s == f.policy.scope
           authority == Authorised(f, k.issuer, "DECLARE_OBSERVATION_CONTRACT",
                                   k.issuer_grant_id, s)
<1>1. Len(c) = 14
  BY DEF ObservationChecks
<1>2. s = Device7
  BY UnreachedAsBuilt
<1>3. ContractTraced(k, D) /\ ObservationTraced(o, D) /\ f.now = Now
  BY DEF Traced
<1>4. "predicate_not_permitted" \in ContractDrifts /\ "absence_unwarranted" \in ContractDrifts
  BY DEF ContractDrifts
<1>5. D \cap ContractDrifts = {} => Matched(f)
  BY <1>3, UnreachedAsBuilt DEF ObservationTraced, Matched
<1>6. /\ c[1].fails = Refused(authority)
      /\ c[2].fails = (k.status # "CURRENT" \/ ~Verify(k.issuer, k.signed_digest, k.signature))
      /\ c[3].fails = (\/ o.contract_id # k.contract_id \/ o.contract_version # k.version
                       \/ o.contract_digest # Digest(Signable(k)))
      /\ c[4].fails = (o.source_id # k.source_id \/ o.endpoint # k.endpoint)
      /\ c[5].fails = (\/ o.namespace # k.namespace
                       \/ o.queried_object_class \notin k.object_classes)
      /\ c[6].fails = (\/ o.source_role # k.source_role
                       \/ o.proposition \notin k.permitted_predicates)
      /\ c[7].fails = (\/ o.temporal_policy_id # k.temporal_policy_id
                       \/ o.interpretation_rule # k.interpretation_rule)
  BY DEF ObservationChecks, Deny, Hold
<1>7. /\ c[8].fails = (state = "SOURCE_UNAVAILABLE")
      /\ c[9].fails = (state = "MALFORMED_RESPONSE")
      /\ c[10].fails = Stale(f)
      /\ c[11].fails = (state = "ABSENCE_OBSERVED" /\ o.proposition \notin k.absence_establishes)
      /\ c[12].fails = (state = "CONFLICT")
      /\ c[13].fails = (state = "POSITIVELY_INVALID")
      /\ c[14].fails = (state # "POSITIVELY_ESTABLISHED")
  BY DEF ObservationChecks, Deny, Hold
<1>8. Matched(f) <=> o.contract_digest = Digest(Signable(k))
  BY DEF Matched
<1>9. Stale(f) <=> \/ Now - o.observed_at > k.max_age
                   \/ Now >= o.next_update \/ state = "SOURCE_STALE"
  BY <1>3 DEF Stale
<1>10. o.observed_at \in Int /\ o.next_update \in Int
  BY DEF Shaped, ObservationOK
<1> HIDE DEF c, k, o, state, s, authority
<1>11. /\ k.status = "CURRENT" /\ k.issuer = "contract-issuer"
       /\ k.issuer_grant_id = "g_contract" /\ k.max_age = MaxAge
       /\ k.object_classes = {"obligation", "grant", "policy"}
       /\ k.source_id = "revocation-source-A" /\ k.source_role = "REVOCATION_STATUS"
       /\ k.contract_id = "obs-contract-1" /\ k.version = 1
       /\ k.endpoint = "revocation.example" /\ k.namespace = "authority/main"
       /\ k.temporal_policy_id = "utc-strict-v1"
       /\ k.interpretation_rule = "signed-record-v1"
  BY <1>3, ContractKept
<1>12. /\ o.contract_id = "obs-contract-1" /\ o.contract_version = 1
       /\ o.endpoint = "revocation.example" /\ o.namespace = "authority/main"
       /\ o.queried_object_class = "obligation" /\ o.proposition = "NOT_REVOKED"
       /\ o.temporal_policy_id = "utc-strict-v1"
       /\ o.interpretation_rule = "signed-record-v1"
  BY <1>3, ObservationKept
<1>13. ~c[1].fails
  <2>1. /\ "g_contract" \in DOMAIN Holder
        /\ Holder["g_contract"][1] = "contract-issuer"
        /\ Holder["g_contract"][2] = "DECLARE_OBSERVATION_CONTRACT"
    BY DEF Holder
  <2>2. ~Refused(Authorised(f, "contract-issuer", "DECLARE_OBSERVATION_CONTRACT",
                            "g_contract", Device7))
    BY <2>1, TracedAuthority, WithinWindow
  <2>3. ~Refused(authority)
    BY <1>2, <1>11, <2>2 DEF authority
  <2> QED  BY <1>6, <2>3
<1>14. ~c[2].fails
  BY <1>3, <1>6, <1>11 DEF ContractTraced, Verify
<1>15. c[3].fails <=> ~Matched(f)
  <2>1. o.contract_id = k.contract_id /\ o.contract_version = k.version
    BY <1>11, <1>12
  <2> QED  BY <1>6, <1>8, <2>1, Zenon
<1>16. /\ c[4].fails <=> "source_substituted" \in D
       /\ ~c[5].fails
  <2>1. o.source_id # k.source_id <=> "source_substituted" \in D
    BY <1>3, <1>11 DEF ObservationTraced, After
  <2>2. o.endpoint = k.endpoint /\ o.namespace = k.namespace
        /\ o.queried_object_class \in k.object_classes
    BY <1>11, <1>12
  <2> QED  BY <1>6, <2>1, <2>2, Zenon
<1>17. /\ c[6].fails <=> D \cap {"role_substituted", "predicate_not_permitted"} # {}
       /\ ~c[7].fails
  <2>1. o.source_role # k.source_role <=> "role_substituted" \in D
    BY <1>3, <1>11 DEF ObservationTraced, After
  <2>2. o.proposition \notin k.permitted_predicates <=> "predicate_not_permitted" \in D
    BY <1>3, <1>12 DEF ContractTraced, After
  <2>3. /\ o.temporal_policy_id = k.temporal_policy_id
        /\ o.interpretation_rule = k.interpretation_rule
    BY <1>11, <1>12
  <2>4. \/ o.source_role # k.source_role
        \/ o.proposition \notin k.permitted_predicates
        <=> D \cap {"role_substituted", "predicate_not_permitted"} # {}
    BY <2>1, <2>2
  <2> QED  BY <1>6, <2>3, <2>4, Zenon
<1>18. StateTraced(state, D)
  BY <1>3 DEF ObservationTraced, state
<1>19. /\ c[8].fails <=> state = "SOURCE_UNAVAILABLE"
       /\ ~c[9].fails /\ ~c[12].fails
       /\ c[13].fails <=> state = "POSITIVELY_INVALID"
       /\ c[14].fails <=> state # "POSITIVELY_ESTABLISHED"
  <2>1. state # "MALFORMED_RESPONSE" /\ state # "CONFLICT"
    BY <1>18 DEF StateTraced
  <2> QED  BY <1>7, <2>1, Zenon
<1>20. ~c[10].fails
  <2>1. state # "SOURCE_STALE"
    BY <1>18 DEF StateTraced
  <2>2. Now - o.observed_at <= MaxAge /\ Now < o.next_update
    BY <1>3 DEF ObservationTraced
  <2>3. ~Stale(f)
    BY <1>9, <1>10, <1>11, <2>1, <2>2, TimeAssumption
  <2> QED  BY <1>7, <2>3
<1>21. c[11].fails <=> state = "ABSENCE_OBSERVED"
  <2>1. state = "ABSENCE_OBSERVED" => k.absence_establishes = {}
    BY <1>3, <1>4, <1>18 DEF StateTraced, ContractTraced
  <2>2. state = "ABSENCE_OBSERVED" /\ o.proposition \notin k.absence_establishes
            <=> state = "ABSENCE_OBSERVED"
    BY <2>1
  <2> QED  BY <1>7, <2>2, Zenon
<1> QED  BY <1>1, <1>5, <1>13, <1>14, <1>15, <1>16, <1>17, <1>19, <1>20, <1>21 DEF c, state, o

\* The checks of the evidence blame a mutation of its contract or of the
\* observation, and pass without one.
LEMMA ObservationBlames ==
    ASSUME NEW f, Shaped(f), NEW D, Traced(f, D),
           D \cap (TargetDrifts \cup {"jurisdiction_changed"}) = {}
    PROVE  /\ \A reason : RefusesFor(ObservationChecks(f), reason) => Blamed(f, D, reason)
           /\ Passing(ObservationChecks(f)) => D \cap EvidenceDrifts = {}
<1> DEFINE c == ObservationChecks(f)
           state == f.observation.evidence_state
<1>1. /\ Len(c) = 14
      /\ ~c[1].fails /\ ~c[2].fails
      /\ c[3].fails <=> ~Matched(f)
      /\ ~Matched(f) => D \cap ContractDrifts # {}
      /\ c[4].fails <=> "source_substituted" \in D
      /\ ~c[5].fails
      /\ c[6].fails <=> D \cap {"role_substituted", "predicate_not_permitted"} # {}
      /\ ~c[7].fails
      /\ c[8].fails <=> state = "SOURCE_UNAVAILABLE"
      /\ ~c[9].fails /\ ~c[10].fails
      /\ c[11].fails <=> state = "ABSENCE_OBSERVED"
      /\ ~c[12].fails
      /\ c[13].fails <=> state = "POSITIVELY_INVALID"
      /\ c[14].fails <=> state # "POSITIVELY_ESTABLISHED"
  BY ObservationFails
<1>2. StateTraced(state, D)
  BY DEF Traced, ObservationTraced
<1>3. /\ c[3].reason = "OBSERVATION_CONTRACT_MISMATCH" /\ c[4].reason = "WRONG_SOURCE"
      /\ c[6].reason = "OBSERVATION_CONTRACT_MISMATCH"
      /\ c[8].reason = "REVOCATION_SOURCE_UNAVAILABLE"
      /\ c[11].reason = "NEGATIVE_EVIDENCE_UNWARRANTED"
      /\ c[13].reason = "SOURCE_OBLIGATION_SUPERSEDED"
  BY DEF ObservationChecks, Deny, Hold
<1> HIDE DEF c, state
<1>4. ASSUME NEW reason, RefusesFor(c, reason) PROVE Blamed(f, D, reason)
  <2>1. \E i \in 1..Len(c) : /\ c[i].fails /\ c[i].reason = reason
                             /\ \A j \in 1..(i - 1) : ~c[j].fails
    BY <1>4, AnswersFirst
  <2>2. PICK i \in 1..14 : /\ c[i].fails /\ c[i].reason = reason
                           /\ \A j \in 1..(i - 1) : ~c[j].fails
    BY <1>1, <2>1
  <2>3. i \in {3, 4, 6, 8, 11, 13, 14} /\ (i > 3 => Matched(f))
    BY <1>1, <2>2
  <2>4. i # 14
    <3>1. i = 14 => ~c[8].fails /\ ~c[11].fails /\ ~c[13].fails
      BY <2>2
    <3> QED  BY <1>1, <1>2, <2>2, <3>1 DEF StateTraced
  <2>5. /\ Reason["predicate_not_permitted"] = "OBSERVATION_CONTRACT_MISMATCH"
        /\ Reason["role_substituted"] = "OBSERVATION_CONTRACT_MISMATCH"
        /\ Reason["source_substituted"] = "WRONG_SOURCE"
        /\ Reason["source_unavailable"] = "REVOCATION_SOURCE_UNAVAILABLE"
        /\ Reason["status_invalid"] = "SOURCE_OBLIGATION_SUPERSEDED"
    BY DEF Reason
  <2>6. (EvidenceDrifts \ {"absence_unwarranted"})
            \cap (SignedDrifts \cup RuntimeDrifts \cup {"absence_unwarranted"}) = {}
    BY DEF EvidenceDrifts, SignedDrifts, RuntimeDrifts, InterpretationDrifts
  <2>7. /\ \A d \in EvidenceDrifts \ {"absence_unwarranted"} : Blame(f, d) = Reason[d]
        /\ Blame(f, "absence_unwarranted") =
               IF Matched(f) THEN "NEGATIVE_EVIDENCE_UNWARRANTED"
               ELSE "OBSERVATION_CONTRACT_MISMATCH"
    BY <2>6, BlameIs
  <2>8. \E d \in D \cap EvidenceDrifts : reason = Blame(f, d)
    <3>1. CASE i = 3
      BY <1>1, <1>3, <2>2, <2>5, <2>7, <3>1 DEF ContractDrifts, EvidenceDrifts
    <3>2. CASE i \in {4, 6}
      BY <1>1, <1>3, <2>2, <2>5, <2>7, <3>2 DEF EvidenceDrifts
    <3>3. CASE i \in {8, 13}
      BY <1>1, <1>2, <1>3, <2>2, <2>5, <2>7, <3>3 DEF EvidenceDrifts, StateTraced
    <3>4. CASE i = 11
      <4>1. "absence_unwarranted" \in D \cap EvidenceDrifts
        BY <1>1, <1>2, <2>2, <3>4 DEF EvidenceDrifts, StateTraced
      <4>2. reason = Blame(f, "absence_unwarranted")
        BY <1>3, <2>2, <2>3, <2>7, <3>4
      <4> QED  BY <4>1, <4>2
    <3> QED  BY <2>3, <2>4, <3>1, <3>2, <3>3, <3>4
  <2>9. ASSUME NEW d \in EvidenceDrifts PROVE d \in DOMAIN Reason /\ d # "graph_cyclic"
    BY DEF EvidenceDrifts, Reason
  <2> QED  BY <2>8, <2>9, TakesBlame
<1>5. Passing(c) => D \cap EvidenceDrifts = {}
  <2>1. Checks(c) = {c[1], c[2], c[3], c[4], c[5], c[6], c[7], c[8], c[9], c[10], c[11],
                     c[12], c[13], c[14]}
    BY ObservationChain DEF c
  <2>2. Passing(c) => /\ ~c[4].fails /\ ~c[6].fails /\ ~c[14].fails
    BY <2>1 DEF Passing
  <2>3. state = "POSITIVELY_ESTABLISHED" =>
            D \cap {"absence_unwarranted", "status_invalid", "source_unavailable"} = {}
    BY <1>2 DEF StateTraced
  <2> QED  BY <1>1, <2>2, <2>3 DEF EvidenceDrifts
<1> QED  BY <1>4, <1>5 DEF c

-----------------------------------------------------------------------------
(* Together: a refusal blames a mutation, and an ALLOW leaves none to blame. *)

\* The mutations of the attested content that the approval alone stands
\* against: it is their approval, and not they, that a later check is about.
PinnedDrifts == {"design_changed", "approved_other_policy", "assumptions_changed"}

\* However many mutations a fixture suffered, the typed reason of its refusal
\* is one that a single one of them is to blame for (admit, harness.py:521-614).
LEMMA RefusalIsBlamed ==
    ASSUME NEW f, Shaped(f), NEW D, Traced(f, D), ~Allowed(f)
    PROVE  Blamed(f, D, Evaluation(f).reason)
<1> DEFINE r == Evaluation(f).reason
           obligation == Passing(ObligationChecks(f))
           derivation == obligation /\ Passing(DerivationChecks(f))
           approval == derivation /\ Passing(ApprovalChecks(f))
<1>1. \/ RefusesFor(ObligationChecks(f), r)
      \/ obligation /\ RefusesFor(DerivationChecks(f), r)
      \/ derivation /\ RefusesFor(ApprovalChecks(f), r)
      \/ approval /\ RefusesFor(ClosureChecks(f), r)
      \/ approval /\ RefusesFor(InterpretationChecks(f), r)
      \/ RefusesFor(EnvironmentChecks(f), r)
      \/ obligation /\ RefusesFor(ObservationChecks(f), r)
      \/ RefusesFor(GraphChecks(f), r)
  <2> HIDE DEF r
  <2> QED  BY RefusalAnswers, Zenon DEF r
<1> HIDE DEF r
<1>2. obligation => D \cap SourceDrifts = {}
  BY ObligationBlames
<1>3. D \cap SourceDrifts = {} => /\ D \cap (TargetDrifts \cup {"jurisdiction_changed"}) = {}
                                  /\ "policy_superseded" \notin D
  BY DEF SourceDrifts
<1>4. derivation => /\ D \cap (SourceDrifts \cup DerivationFatal) = {}
                    /\ SignatureValid(f.derivation)
  BY <1>2, DerivationBlames
<1>5. approval => ApprovalBound(f)
  BY <1>4, ApprovalBlames
<1>6. RefusesFor(ObligationChecks(f), r) => Blamed(f, D, r)
  BY ObligationBlames
<1>7. obligation /\ RefusesFor(DerivationChecks(f), r) => Blamed(f, D, r)
  BY <1>2, DerivationBlames
<1>8. derivation /\ RefusesFor(ApprovalChecks(f), r) => Blamed(f, D, r)
  BY <1>4, ApprovalBlames
<1>9. approval /\ RefusesFor(ClosureChecks(f), r) => Blamed(f, D, r)
  BY <1>2, <1>3, <1>5, ClosureBlames
<1>10. approval /\ RefusesFor(InterpretationChecks(f), r) => Blamed(f, D, r)
  BY <1>5, InterpretationBlames
<1>11. RefusesFor(EnvironmentChecks(f), r) => Blamed(f, D, r)
  BY EnvironmentBlames
<1>12. obligation /\ RefusesFor(ObservationChecks(f), r) => Blamed(f, D, r)
  BY <1>2, <1>3, ObservationBlames
<1>13. RefusesFor(GraphChecks(f), r) => Blamed(f, D, r)
  BY GraphBlames
<1> QED  BY <1>1, <1>6, <1>7, <1>8, <1>9, <1>10, <1>11, <1>12, <1>13 DEF r

\* An admitted fixture suffered none of the mutations that a check is about:
\* no signature undoes them.
LEMMA AdmittedIsInnocent ==
    ASSUME NEW f, Shaped(f), NEW D, Traced(f, D), Allowed(f),
           NEW d \in D \cap DOMAIN Reason
    PROVE  d \in PinnedDrifts
<1>1. /\ Passing(ObligationChecks(f)) /\ Passing(DerivationChecks(f))
      /\ Passing(ApprovalChecks(f)) /\ Passing(ClosureChecks(f))
      /\ Passing(InterpretationChecks(f)) /\ Passing(EnvironmentChecks(f))
      /\ Passing(ObservationChecks(f)) /\ Passing(GraphChecks(f))
  BY AllowedPasses
<1>2. D \cap SourceDrifts = {}
  BY <1>1, ObligationBlames
<1>3. D \cap (TargetDrifts \cup {"jurisdiction_changed"}) = {} /\ "policy_superseded" \notin D
  BY <1>2 DEF SourceDrifts
<1>4. D \cap DerivationFatal = {} /\ SignatureValid(f.derivation)
  BY <1>1, <1>2, DerivationBlames
<1>5. "approved_too_late" \notin D /\ ApprovalBound(f)
  BY <1>1, <1>2, <1>4, ApprovalBlames
<1>6. "runtime_dependency_changed" \notin D
  BY <1>1, <1>3, <1>5, ClosureBlames
<1>7. D \cap InterpretationDrifts = {}
  BY <1>1, <1>5, InterpretationBlames
<1>8. D \cap EnvironmentDrifts = {}
  BY <1>1, EnvironmentBlames
<1>9. D \cap EvidenceDrifts = {}
  BY <1>1, <1>3, ObservationBlames
<1>10. "graph_cyclic" \notin D
  BY <1>1, GraphBlames
<1>11. DOMAIN Reason \subseteq
           SourceDrifts \cup DerivationFatal \cup PinnedDrifts \cup {"approved_too_late",
           "runtime_dependency_changed"} \cup InterpretationDrifts \cup EnvironmentDrifts
           \cup EvidenceDrifts \cup {"graph_cyclic"}
  BY DEF Reason, SourceDrifts, TargetDrifts, DerivationFatal, PinnedDrifts,
         InterpretationDrifts, EnvironmentDrifts, EvidenceDrifts
<1> QED  BY <1>2, <1>4, <1>5, <1>6, <1>7, <1>8, <1>9, <1>10, <1>11

-----------------------------------------------------------------------------
(* What a mutation is blamed for it earns by itself.                         *)

\* A record with a field changed is not the one that was signed.
LEMMA ChangedUnderSignature ==
    ASSUME NEW rec, NEW x \in DOMAIN rec \ {"signature", "signed_digest"},
           NEW v, v # rec[x], "signed_digest" \in DOMAIN rec
    PROVE  LET r == [rec EXCEPT ![x] = v] IN
           /\ Digest(Signable(r)) # Digest(Signable(rec))
           /\ SignatureValid(rec) => ~SignatureValid(r)
<1> DEFINE r == [rec EXCEPT ![x] = v]
<1>1. r[x] = v /\ DOMAIN r = DOMAIN rec /\ r.signed_digest = rec.signed_digest
  OBVIOUS
<1> HIDE DEF r
<1>2. Signable(r)[x] = v /\ Signable(rec)[x] = rec[x]
  BY <1>1 DEF Signable, Restrict
<1>3. Digest(Signable(r)) # Digest(Signable(rec))
  BY <1>2, DigestIsInjective
<1>4. SignatureValid(rec) => ~SignatureValid(r)
  BY <1>1, <1>3 DEF SignatureValid
<1> QED  BY <1>3, <1>4 DEF r

\* Each mutation may happen to the fixture as built, and is then its only one.
LEMMA HappensAlone ==
    ASSUME NEW d \in DOMAIN Reason
    PROVE  /\ d \in DriftNames
           /\ Shaped(Drift(d, Built)) /\ Traced(Drift(d, Built), {d})
<1>1. d \in DriftNames
  BY DEF Reason, DriftNames
<1>2. Shaped(Built)
  BY ValidIsShaped DEF Built
<1>3. Applicable(d, Built)
  <2>1. Built.obligation_issuer_grant_id = "g_register" /\ Built.register = Register
    BY DEF Built, ValidFixture
  <2>2. "g_register" \in DOMAIN Register.grants
    BY DEF Register, Holder
  <2>3. Built.derivation.status = "CURRENT"
    BY BuiltIsTraced DEF Traced, DerivationTraced, After
  <2> QED  BY <2>1, <2>2, <2>3 DEF Applicable
<1>4. Traced(Drift(d, Built), {} \cup {d})
  BY <1>1, <1>2, <1>3, BuiltIsTraced, DriftTraced
<1> QED  BY <1>1, <1>2, <1>3, <1>4, DriftKeepsShape

\* The mutation alone is refused, whoever signs again, unless it is the
\* approval that stands against it; and it is refused with its own reason.
LEMMA AloneIsBlamed ==
    ASSUME NEW g, NEW d \in DOMAIN Reason, Shaped(g), Traced(g, {d}),
           d \in PinnedDrifts => ~Allowed(g)
    PROVE  Evaluation(g).reason = Blame(g, d)
<1>1. ~Allowed(g)
  BY AdmittedIsInnocent
<1>2. Blamed(g, {d}, Evaluation(g).reason)
  BY <1>1, RefusalIsBlamed
<1> QED  BY <1>2 DEF Blamed

\* A derivation that was changed and not signed again does not verify, and
\* neither it nor one signed again is the derivation that was approved.
LEMMA DerivationChangedAlone ==
    ASSUME NEW d \in SignedDrifts
    PROVE  LET h == Drift(d, Built)
               g == ResignDerivation(h)
           IN  /\ h.approval = Built.approval /\ g.approval = Built.approval
               /\ h.derivation.status = "CURRENT"
               /\ ~SignatureValid(h.derivation)
               /\ ~ApprovalBound(h) /\ ~ApprovalBound(g)
<1> DEFINE b == Built.derivation
           h == Drift(d, Built)
           g == ResignDerivation(h)
           a == Built.approval
<1>1. Shaped(Built)
  BY ValidIsShaped DEF Built
<1>2. SignatureValid(b) /\ a.attestation_digest = Digest(Signable(b))
  BY BuiltIsAttested DEF Attested, ApprovalBound
<1>3. /\ b.status = "CURRENT" /\ b.coverage = Candidate.rules
      /\ b.assumptions = "declared-inputs-only" /\ b.principal = "deriver"
  BY BuiltIsTraced DEF Traced, DerivationTraced, After
<1>4. {"status", "coverage", "assumptions", "principal", "signed_digest"} \subseteq DOMAIN b
  BY <1>1 DEF Shaped, DerivationOK, IsRecord
<1>5. Candidate.rules # {}
  BY DEF Candidate, Policy
<1>6. PICK x \in {"coverage", "assumptions", "principal"} : \E v :
          v # b[x] /\ h = [Built EXCEPT !.derivation = [b EXCEPT ![x] = v]]
  <2>1. CASE d = "coverage_emptied"
    <3>1. h = [Built EXCEPT !.derivation = [b EXCEPT !["coverage"] = {}]]
      BY <2>1 DEF Drift
    <3> HIDE DEF h, b
    <3> QED  BY <1>3, <1>5, <3>1
  <2>2. CASE d = "assumptions_changed"
    <3>1. h = [Built EXCEPT !.derivation = [b EXCEPT !["assumptions"] = "mutated-after-snapshot"]]
      BY <2>2 DEF Drift
    <3> HIDE DEF h, b
    <3> QED  BY <1>3, <3>1
  <2>3. CASE d = "derived_by_activator"
    <3>1. h = [Built EXCEPT !.derivation = [b EXCEPT !["principal"] = "activator"]]
      BY <2>3 DEF Drift
    <3> HIDE DEF h, b
    <3> QED  BY <1>3, <3>1
  <2> QED  BY <2>1, <2>2, <2>3 DEF SignedDrifts
<1>7. PICK v : v # b[x] /\ h = [Built EXCEPT !.derivation = [b EXCEPT ![x] = v]]
  BY <1>6
<1> DEFINE r == [b EXCEPT ![x] = v]
<1>8. /\ h.derivation = r /\ h.approval = a /\ "derivation" \in DOMAIN h /\ "approval" \in DOMAIN h
  <2> HIDE DEF h, b, r
  <2> QED  BY <1>1, <1>7 DEF Shaped, FixtureFields, r
<1>9. r.status = "CURRENT"
  BY <1>3, <1>4
<1>10. Digest(Signable(r)) # Digest(Signable(b)) /\ ~SignatureValid(r)
  <2> HIDE DEF b
  <2> QED  BY <1>2, <1>4, <1>7, ChangedUnderSignature
<1> HIDE DEF r, h, b, a
<1>11. g.approval = a /\ Signable(g.derivation) = Signable(r)
  <2>1. Signable(Signed(r, r.principal)) = Signable(r)
    BY SigningKeepsContent
  <2> QED  BY <1>8, <2>1 DEF ResignDerivation
<1> HIDE DEF g
<1>12. ~ApprovalBound(h) /\ ~ApprovalBound(g)
  BY <1>2, <1>8, <1>10, <1>11 DEF ApprovalBound
<1> QED  BY <1>8, <1>9, <1>10, <1>11, <1>12 DEF a, g, h

\* What the runtime loaded instead is not what was approved.
LEMMA RuntimeChangedAlone ==
    ASSUME NEW d \in RuntimeDrifts
    PROVE  LET h == Drift(d, Built) IN
           h.derivation.status = "CURRENT" /\ ~ApprovalBound(h)
<1> DEFINE h == Drift(d, Built)
           a == Built.approval
           dependencies == [Dependencies EXCEPT !.rules_lib = "rules v2"]
<1>1. Shaped(Built)
  BY ValidIsShaped DEF Built
<1>2. /\ a.closure_digest = Digest(Closure(Candidate))
      /\ a.interpretation_digest = Digest(Interpretation(Candidate))
  BY BuiltIsAttested, FixtureParts DEF Attested, ApprovalBound, Built, Candidate
<1>3. h.derivation = Built.derivation /\ h.approval = a
  BY <1>1 DEF Drift, RuntimeDrifts, InterpretationDrifts, Shaped, FixtureFields
<1>4. h.derivation.status = "CURRENT"
  BY <1>3, BuiltIsTraced DEF Traced, DerivationTraced, After
<1>5. Traced(h, {d})
  <2>1. d \in DOMAIN Reason
    BY DEF RuntimeDrifts, InterpretationDrifts, Reason
  <2> QED  BY <2>1, HappensAlone
<1>6. ClosureTraced(h.closure, {d}) /\ InterpretationTraced(h.interpretation, {d})
  BY <1>5 DEF Traced
<1>7. /\ Closure(Candidate).runtime_dependencies = Dependencies
      /\ Interpretation(Candidate).runtime.versions = <<"1", "1", "1">>
      /\ Interpretation(Candidate).runtime.include = "rules v1"
      /\ Interpretation(Candidate).runtime.normalised_executable =
             Closure(Candidate).aggregate_digest
  BY DEF Closure, Interpretation
<1>8. Closure(Candidate).aggregate_digest # Digest([executed |-> "B"])
  <2>1. Closure(Candidate).aggregate_digest =
            Digest([root |-> PolicyDigest(Candidate), dependencies |-> Dependencies])
    BY DEF Closure
  <2>2. [root |-> PolicyDigest(Candidate), dependencies |-> Dependencies] # [executed |-> "B"]
    OBVIOUS
  <2> QED  BY <2>1, <2>2, DigestIsInjective
<1>9. Dependencies # dependencies
  <2>1. dependencies.rules_lib = "rules v2" /\ Dependencies.rules_lib = "rules v1"
    BY DEF Dependencies
  <2> QED  BY <2>1
<1>10. <<"1", "1", "1">> # <<"1", "2", "1">>
  <2>1. <<"1", "1", "1">>[2] = "1" /\ <<"1", "2", "1">>[2] = "2"
    OBVIOUS
  <2> QED  BY <2>1
<1> HIDE DEF h, a, dependencies
<1>11. h.closure # Closure(Candidate) \/ h.interpretation # Interpretation(Candidate)
  <2>1. CASE d = "runtime_dependency_changed"
    <3>1. h.closure.runtime_dependencies = dependencies
      BY <1>6, <2>1 DEF ClosureTraced, After, dependencies
    <3> QED  BY <1>7, <1>9, <3>1
  <2>2. CASE d = "parser_changed"
    <3> DEFINE loaded == <<"1", "2", "1">>
    <3>1. h.interpretation.runtime.versions = loaded
      BY <1>6, <2>2 DEF InterpretationTraced, After
    <3>2. Interpretation(Candidate).runtime.versions # loaded
      BY <1>7, <1>10
    <3> HIDE DEF loaded
    <3> QED  BY <3>1, <3>2
  <2>3. CASE d = "include_changed"
    <3>1. h.interpretation.runtime.include = "includes changed"
      BY <1>6, <2>3 DEF InterpretationTraced, After
    <3> QED  BY <1>7, <3>1
  <2>4. CASE d = "executable_changed"
    <3>1. h.interpretation.runtime.normalised_executable = Digest([executed |-> "B"])
      BY <1>6, <2>4 DEF InterpretationTraced, After
    <3> QED  BY <1>7, <1>8, <3>1
  <2> QED  BY <2>1, <2>2, <2>3, <2>4 DEF RuntimeDrifts, InterpretationDrifts
<1>12. ~ApprovalBound(h)
  BY <1>2, <1>3, <1>11, DigestIsInjective DEF ApprovalBound
<1> QED  BY <1>4, <1>12 DEF h

\* An approval of another design, or of another policy, is not one of this.
LEMMA ApprovalOfAnother ==
    ASSUME NEW d \in {"design_changed", "approved_other_policy"}
    PROVE  ~Allowed(Drift(d, Built))
<1> DEFINE h == Drift(d, Built)
           a == Built.approval
           design == Digest([design |-> "v2"])
           other == Digest([other |-> "policy"])
<1>1. Shaped(Built)
  BY ValidIsShaped DEF Built
<1>2. a.design_digest = Built.policy.design_digest
  BY BuiltIsAttested DEF Attested
<1>3. Built.policy.design_digest = Digest([design |-> "v1"])
  <2>1. Built.policy = Policy("policy-1")
    BY FixtureParts DEF Built
  <2>2. Policy("policy-1").design_digest = Digest([design |-> "v1"])
    BY DEF Policy
  <2> QED  BY <2>1, <2>2
<1>4. [design |-> "v1"] # [design |-> "v2"]
  <2>1. [design |-> "v1"].design = "v1" /\ [design |-> "v2"].design = "v2"
    OBVIOUS
  <2> QED  BY <2>1
<1>5. a.design_digest # design
  BY <1>2, <1>3, <1>4, DigestIsInjective
<1>6. PolicyDigest(Built.policy) # other
  <2>1. "content" \in DOMAIN Restrict(Built.policy, {"content", "version"})
    BY DEF Restrict
  <2>2. Restrict(Built.policy, {"content", "version"}) # [other |-> "policy"]
    BY <2>1
  <2> QED  BY <2>2, DigestIsInjective DEF PolicyDigest
<1>7. CASE d = "design_changed"
  <2>1. Traced(h, {d})
    <3>1. d \in DOMAIN Reason
      BY <1>7 DEF Reason
    <3> QED  BY <3>1, HappensAlone
  <2>2. h.policy.design_digest = design
    BY <1>7, <2>1 DEF Traced, PolicyTraced, After
  <2>3. h.approval = a
    BY <1>1, <1>7 DEF Drift, Shaped, FixtureFields
  <2> HIDE DEF h, a, design
  <2> QED  BY <1>5, <2>2, <2>3, AllowedApproval DEF h
<1>8. CASE d = "approved_other_policy"
  <2> DEFINE v == [a EXCEPT !.policy_digest = other]
  <2>1. h = [Built EXCEPT !.approval = v]
    BY <1>8 DEF Drift
  <2>2. "policy_digest" \in DOMAIN a
    <3>1. "policy_digest" \in DOMAIN Approval(Candidate)
      BY DEF Approval, Signed
    <3> HIDE DEF Candidate
    <3> QED  BY <3>1, BuiltIsTraced DEF Traced, ApprovalTraced, IsRecord
  <2>3. v.policy_digest = other
    BY <2>2
  <2> HIDE DEF h, v, a, other
  <2>4. h.approval.policy_digest = other /\ h.policy = Built.policy
    BY <1>1, <2>1, <2>3 DEF Shaped, FixtureFields
  <2> QED  BY <1>6, <2>4, AllowedApproval DEF ApprovalBound, h
<1> QED  BY <1>7, <1>8

\* A contract that was changed is not the one that the observation names.
LEMMA ContractChangedAlone ==
    ~Matched(Drift("absence_unwarranted", Built))
<1> DEFINE h == Drift("absence_unwarranted", Built)
           c == Built.observation_contract
           o == Built.observation
           v == [c EXCEPT !["absence_establishes"] = {}]
           w == [o EXCEPT !.evidence_state = "ABSENCE_OBSERVED"]
<1>1. Shaped(Built)
  BY ValidIsShaped DEF Built
<1>2. h = [Built EXCEPT !.observation = w, !.observation_contract = v]
  BY DEF Drift
<1>3. c = Contract /\ o.contract_digest = Digest(Signable(Contract))
  BY FixtureParts DEF Built, Observation
<1>4. c.absence_establishes = {"NOT_REVOKED"}
  BY BuiltIsTraced DEF Traced, ContractTraced
<1>5. {"absence_establishes", "signed_digest"} \subseteq DOMAIN c
  BY <1>1 DEF Shaped, ContractOK, IsRecord
<1>6. Digest(Signable(v)) # Digest(Signable(c))
  <2> HIDE DEF c
  <2> QED  BY <1>4, <1>5, ChangedUnderSignature
<1>7. w.contract_digest = o.contract_digest
  OBVIOUS
<1> HIDE DEF h, c, o, v, w
<1>8. h.observation = w /\ h.observation_contract = v
  BY <1>1, <1>2 DEF Shaped, FixtureFields
<1> QED  BY <1>3, <1>6, <1>7, <1>8 DEF Matched, h

\* Whatever a mutation is blamed for in a fixture that suffered others too,
\* it earns by itself, once the principals that signed again there have
\* signed again here.
LEMMA BlameIsEarned ==
    ASSUME NEW f, NEW d \in DOMAIN Reason
    PROVE  Blame(f, d) \in Earned[d]
<1> DEFINE h == Drift(d, Built)
           derivers == IF h.derivation.status = "ABSENT" THEN {h} ELSE {h, ResignDerivation(h)}
<1>1. d \in DriftNames /\ Shaped(h) /\ Traced(h, {d})
  BY HappensAlone
<1>2. Earned[d] = {Evaluation(g).reason : g \in SignedAgain(h)}
  BY <1>1 DEF Earned
<1>3. /\ h \in SignedAgain(h)
      /\ h.derivation.status # "ABSENT" => ResignDerivation(h) \in SignedAgain(h)
      /\ h.derivation.status # "ABSENT" => RebindApproval(h) \in SignedAgain(h)
      /\ ResignContract(h) \in SignedAgain(h)
  BY DEF SignedAgain
<1>4. ASSUME NEW g, g \in SignedAgain(h), Shaped(g), Traced(g, {d}),
             d \in PinnedDrifts => ~Allowed(g), Blame(g, d) = Blame(f, d)
      PROVE  Blame(f, d) \in Earned[d]
  <2>1. Evaluation(g).reason = Blame(g, d)
    BY <1>4, AloneIsBlamed
  <2> QED  BY <1>2, <1>4, <2>1
<1>5. {"design_changed", "approved_other_policy"} \cap
          (SignedDrifts \cup RuntimeDrifts \cup {"absence_unwarranted"}) = {}
  BY DEF SignedDrifts, RuntimeDrifts, InterpretationDrifts
<1>6. PinnedDrifts \subseteq SignedDrifts \cup {"design_changed", "approved_other_policy"}
  BY DEF PinnedDrifts, SignedDrifts
<1>7. (RuntimeDrifts \cup {"absence_unwarranted"}) \cap (SignedDrifts \cup PinnedDrifts) = {}
  BY DEF PinnedDrifts, SignedDrifts, RuntimeDrifts, InterpretationDrifts
<1>8. CASE d \in SignedDrifts
  <2> DEFINE g == ResignDerivation(h)
  <2>1. /\ h.derivation.status = "CURRENT" /\ ~SignatureValid(h.derivation)
        /\ ~ApprovalBound(h) /\ ~ApprovalBound(g)
    BY <1>8, DerivationChangedAlone
  <2>2. ~Allowed(h) /\ ~Allowed(g)
    BY <2>1, AllowedApproval
  <2>3. Traced(g, {d}) /\ SignatureValid(g.derivation) /\ Shaped(g)
    BY <1>1, DeriverSigningTraced, SigningKeepsShape
  <2>4. g \in SignedAgain(h)
    BY <1>3, <2>1
  <2> HIDE DEF g, h
  <2>5. CASE SignatureValid(f.derivation)
    <3>1. Blame(g, d) = Blame(f, d)
      BY <1>8, <2>3, <2>5, BlameIs
    <3> QED  BY <1>4, <2>2, <2>3, <2>4, <3>1
  <2>6. CASE ~SignatureValid(f.derivation)
    <3>1. Blame(h, d) = Blame(f, d)
      BY <1>8, <2>1, <2>6, BlameIs
    <3> QED  BY <1>1, <1>3, <1>4, <2>2, <3>1
  <2> QED  BY <2>5, <2>6
<1>9. CASE d \in RuntimeDrifts
  <2> DEFINE g == RebindApproval(h)
  <2>1. h.derivation.status = "CURRENT" /\ ~ApprovalBound(h)
    BY <1>9, RuntimeChangedAlone
  <2>2. Traced(g, {d}) /\ ApprovalBound(g) /\ Shaped(g)
    BY <1>1, ApproverRebindingTraced, SigningKeepsShape
  <2>3. g \in SignedAgain(h) /\ d \notin PinnedDrifts
    BY <1>3, <1>7, <1>9, <2>1
  <2> HIDE DEF g, h
  <2>4. CASE ApprovalBound(f)
    <3>1. Blame(g, d) = Blame(f, d)
      BY <1>9, <2>2, <2>4, BlameIs
    <3> QED  BY <1>4, <2>2, <2>3, <3>1
  <2>5. CASE ~ApprovalBound(f)
    <3>1. Blame(h, d) = Blame(f, d)
      BY <1>9, <2>1, <2>5, BlameIs
    <3> QED  BY <1>1, <1>3, <1>4, <2>3, <3>1
  <2> QED  BY <2>4, <2>5
<1>10. CASE d = "absence_unwarranted"
  <2> DEFINE g == ResignContract(h)
  <2>1. ~Matched(h)
    BY <1>10, ContractChangedAlone
  <2>2. Traced(g, {d}) /\ Matched(g) /\ Shaped(g)
    BY <1>1, IssuerSigningTraced, SigningKeepsShape DEF Matched
  <2>3. g \in SignedAgain(h) /\ d \notin PinnedDrifts
    BY <1>3, <1>7, <1>10
  <2> HIDE DEF g, h
  <2>4. CASE Matched(f)
    <3>1. Blame(g, d) = Blame(f, d)
      BY <1>10, <2>2, <2>4, BlameIs
    <3> QED  BY <1>4, <2>2, <2>3, <3>1
  <2>5. CASE ~Matched(f)
    <3>1. Blame(h, d) = Blame(f, d)
      BY <1>10, <2>1, <2>5, BlameIs
    <3> QED  BY <1>1, <1>3, <1>4, <2>3, <3>1
  <2> QED  BY <2>4, <2>5
<1>11. CASE d \notin SignedDrifts \cup RuntimeDrifts \cup {"absence_unwarranted"}
  <2>1. Blame(h, d) = Blame(f, d)
    <3> HIDE DEF h
    <3> QED  BY <1>11, BlameIs
  <2>2. d \in PinnedDrifts => ~Allowed(h)
    BY <1>6, <1>11, ApprovalOfAnother
  <2> HIDE DEF h
  <2> QED  BY <1>1, <1>3, <1>4, <2>1, <2>2
<1> HIDE DEF h
<1> QED  BY <1>8, <1>9, <1>10, <1>11

\* The typed reason of a refusal is one that a single mutation earns by itself
\* (BREAK_IT.md:16), for every time, window and number of mutations.
THEOREM ReasonCorrect == Spec => []ReasonIsEarned
<1>1. ASSUME FixtureOK, TracedInv PROVE ReasonIsEarned
  <2> SUFFICES ASSUME fixture.now = Now, ~Allowed(fixture)
               PROVE  Evaluation(fixture).reason \in UNION {Earned[d] : d \in drifts}
    BY DEF ReasonIsEarned
  <2>1. Shaped(fixture) /\ Traced(fixture, drifts)
    BY <1>1 DEF FixtureOK, TracedInv
  <2>2. Blamed(fixture, drifts, Evaluation(fixture).reason)
    BY <2>1, RefusalIsBlamed
  <2>3. PICK d \in drifts \cap DOMAIN Reason : Evaluation(fixture).reason = Blame(fixture, d)
    BY <2>2 DEF Blamed
  <2>4. Evaluation(fixture).reason \in Earned[d]
    BY <2>3, BlameIsEarned
  <2> QED  BY <2>3, <2>4
<1> QED  BY <1>1, ShapeCorrect, TracedCorrect, PTL

-----------------------------------------------------------------------------
(* What an ALLOW leaves out.                                                 *)

\* Before time passes, an admitted fixture suffered no mutation that a check
\* is about, except those that only the approval stands against.
OnlyReapproved ==
    fixture.now = Now /\ Allowed(fixture) => drifts \cap DOMAIN Reason \subseteq PinnedDrifts

\* No mutation undoes another, and no signature undoes any, unless it is a new
\* approval of content that nothing but the approval pins (admit,
\* harness.py:521-614).
THEOREM InnocenceCorrect == Spec => []OnlyReapproved
<1>1. ASSUME FixtureOK, TracedInv PROVE OnlyReapproved
  <2> SUFFICES ASSUME fixture.now = Now, Allowed(fixture), NEW d \in drifts \cap DOMAIN Reason
               PROVE  d \in PinnedDrifts
    BY DEF OnlyReapproved
  <2>1. Shaped(fixture) /\ Traced(fixture, drifts)
    BY <1>1 DEF FixtureOK, TracedInv
  <2> QED  BY <2>1, AdmittedIsInnocent
<1> QED  BY <1>1, ShapeCorrect, TracedCorrect, PTL

=============================================================================
