---------------------------- MODULE DriftProofs ----------------------------
(***************************************************************************)
(* What every fixture has in common, however it was mutated and whoever    *)
(* signed it again: its shape.                                             *)
(***************************************************************************)
EXTENDS AdmissionProofs

-----------------------------------------------------------------------------
(* The shape that a fixture keeps. *)

IsRecord(r, fields) == DOMAIN r = fields /\ r = [x \in fields |-> r[x]]

WindowOK(w) ==
    /\ IsRecord(w, {"valid_from", "valid_until"})
    /\ w.valid_from \in Int /\ w.valid_until \in Int

ObligationOK(o) ==
    /\ IsRecord(o, {"obligation_id", "content", "scope", "window", "superseded",
                    "revoked", "declared_conflicts", "actual_conflicts", "resolved_by"})
    /\ WindowOK(o.window) /\ o.window.valid_from = Now - Span

\* Only the approver may ever approve: no mutation hands out its capability.
GrantOK(g) ==
    /\ IsRecord(g, {"principal", "capability", "scope", "window", "register_version",
                    "revoked", "self_authored"})
    /\ WindowOK(g.window)
    /\ g.capability = "APPROVE_POLICY" => g.principal = "approver"

RegisterOK(r) ==
    /\ IsRecord(r, {"register_id", "version", "parent_digest", "grants",
                    "trusted_time_observed", "current_version", "fork_detected"})
    /\ \A id \in DOMAIN r.grants : GrantOK(r.grants[id])

ClosureOK(c) ==
    IsRecord(c, {"root_policy_digest", "rule_inventory", "dependencies",
                 "aggregate_digest", "runtime_dependencies"})

ChainFields ==
    {"source", "versions", "include", "defaults", "environment",
     "normalised_executable", "engine_instance_id", "loaded_closure"}

InterpretationOK(i) ==
    /\ IsRecord(i, {"bound", "runtime"})
    /\ IsRecord(i.bound, ChainFields) /\ IsRecord(i.runtime, ChainFields)

DerivationOK(d) ==
    IsRecord(d, {"status", "obligation_digest", "policy_digest", "coverage",
                 "assumptions", "principal", "grant_id", "signed_digest", "signature"})

ContractOK(c) ==
    /\ IsRecord(c, {"contract_id", "version", "status", "issuer", "issuer_grant_id",
                    "source_id", "source_role", "endpoint", "namespace",
                    "object_classes", "permitted_predicates", "absence_establishes",
                    "max_age", "temporal_policy_id", "interpretation_rule",
                    "signed_digest", "signature"})
    /\ c.max_age \in Int

ObservationOK(o) ==
    /\ IsRecord(o, {"contract_id", "source_id", "source_role", "endpoint", "namespace",
                    "temporal_policy_id", "interpretation_rule", "contract_digest",
                    "contract_version", "queried_object_class", "observed_at",
                    "next_update", "proposition", "evidence_state"})
    /\ o.observed_at \in Int /\ o.next_update \in Int

Shaped(f) ==
    /\ DOMAIN f = FixtureFields
    /\ f.now \in Int
    /\ ObligationOK(f.obligation)
    /\ RegisterOK(f.register)
    /\ ClosureOK(f.closure)
    /\ InterpretationOK(f.interpretation)
    /\ DerivationOK(f.derivation)
    /\ ContractOK(f.observation_contract)
    /\ ObservationOK(f.observation)
    /\ f.incumbent_standing \in Verdicts
    /\ f.fallback_standing \in Verdicts \cup {None}

-----------------------------------------------------------------------------
(* Records that are signed again, and records that are mutated. *)

\* Signing again changes the two fields of the signature and no other, and
\* what it signs is what was there (_resign_* of scenarios.py).
LEMMA SigningKeepsContent ==
    ASSUME NEW rec, NEW p
    PROVE  LET s == Signed(rec, p) IN
           /\ IsRecord(s, DOMAIN rec \cup {"signature", "signed_digest"})
           /\ \A x \in DOMAIN rec \ {"signature", "signed_digest"} : s[x] = rec[x]
           /\ Signable(s) = Signable(rec)
           /\ s.signed_digest = Digest(Signable(rec))
           /\ s.signature = Sign(p, Digest(Signable(rec)))
<1> DEFINE s == Signed(rec, p)
           core == DOMAIN rec \ {"signature", "signed_digest"}
           both == DOMAIN rec \cup {"signature", "signed_digest"}
<1>1. IsRecord(s, both)
  BY DEF IsRecord, Signed
<1>2. \A x \in core : s[x] = rec[x]
  BY DEF Signed
<1>3. /\ s.signed_digest = Digest(Signable(rec))
      /\ s.signature = Sign(p, Digest(Signable(rec)))
  BY DEF Signed
<1>4. Signable(s) = Signable(rec)
  BY <1>1, <1>2 DEF IsRecord, Signable, Restrict
<1> QED  BY <1>1, <1>2, <1>3, <1>4

-----------------------------------------------------------------------------
(* The shape holds of what is built, and mutations and signatures keep it. *)

\* The consistent fixture has the shape (valid_fixture in harness.py).
LEMMA ValidIsShaped == ASSUME NEW id PROVE Shaped(ValidFixture(id))
<1> DEFINE p == Policy(id)
           valid == ValidFixture(id)
<1>1. Now \in Int /\ MaxAge \in Int /\ Span \in Int
  BY TimeAssumption
<1>2. DOMAIN valid = FixtureFields
  BY DEF ValidFixture, FixtureFields
<1>3. /\ valid.now = Now /\ valid.obligation = Obligation /\ valid.register = Register
      /\ valid.closure = Closure(p) /\ valid.interpretation = Interpretation(p)
      /\ valid.derivation = Derivation(p) /\ valid.observation_contract = Contract
      /\ valid.observation = Observation
  BY DEF ValidFixture
<1>4. WindowOK(Window)
  BY <1>1 DEF WindowOK, IsRecord, Window
<1>5. ObligationOK(Obligation)
  BY <1>4 DEF ObligationOK, IsRecord, Obligation, Window
<1>6. RegisterOK(Register)
  <2>1. ASSUME NEW g \in DOMAIN Holder PROVE GrantOK(Grant(g))
    <3>1. Holder[g][2] = "APPROVE_POLICY" => Holder[g][1] = "approver"
      BY DEF Holder
    <3> QED  BY <1>4, <3>1 DEF GrantOK, IsRecord, Grant
  <2>2. Register.grants = [g \in DOMAIN Holder |-> Grant(g)]
    BY DEF Register
  <2>3. IsRecord(Register, {"register_id", "version", "parent_digest", "grants",
                            "trusted_time_observed", "current_version", "fork_detected"})
    BY DEF Register, IsRecord
  <2> QED  BY <2>1, <2>2, <2>3 DEF RegisterOK
<1>7. ClosureOK(Closure(p))
  BY DEF ClosureOK, IsRecord, Closure
<1>8. InterpretationOK(Interpretation(p))
  BY DEF InterpretationOK, IsRecord, Interpretation, ChainFields
<1>9. DerivationOK(Derivation(p))
  BY DEF DerivationOK, IsRecord, Derivation, Signed
<1>10. ContractOK(Contract)
  BY <1>1 DEF ContractOK, IsRecord, Contract, Signed
<1>11. ObservationOK(Observation)
  BY <1>1 DEF ObservationOK, IsRecord, Observation
<1>12. valid.incumbent_standing \in Verdicts /\ valid.fallback_standing = None
  BY DEF ValidFixture, Verdicts
<1> HIDE DEF valid, p
<1>13. Shaped(valid)
  BY <1>1, <1>2, <1>3, <1>5, <1>6, <1>7, <1>8, <1>9, <1>10, <1>11, <1>12 DEF Shaped
<1> QED  BY <1>13 DEF valid

\* Replacing a part by another of its shape keeps the shape.
LEMMA PartReplaced ==
    ASSUME NEW f, Shaped(f)
    PROVE  /\ \A t \in Int : Shaped([f EXCEPT !.now = t])
           /\ \A v : ObligationOK(v) => Shaped([f EXCEPT !.obligation = v])
           /\ \A v : RegisterOK(v) => Shaped([f EXCEPT !.register = v])
           /\ \A v : ClosureOK(v) => Shaped([f EXCEPT !.closure = v])
           /\ \A v : InterpretationOK(v) => Shaped([f EXCEPT !.interpretation = v])
           /\ \A v : DerivationOK(v) => Shaped([f EXCEPT !.derivation = v])
           /\ \A v : Shaped([f EXCEPT !.approval = v])
           /\ \A v : ContractOK(v) => Shaped([f EXCEPT !.observation_contract = v])
           /\ \A v : ObservationOK(v) => Shaped([f EXCEPT !.observation = v])
BY DEF Shaped, FixtureFields

\* A grant that is cut short or found self-authored is still a grant, and it
\* is still its holder's.
LEMMA GrantChanged ==
    ASSUME NEW g, GrantOK(g)
    PROVE  /\ \A t \in Int : GrantOK(Until(g, t))
           /\ GrantOK([g EXCEPT !.self_authored = TRUE])
<1>1. ASSUME NEW t \in Int PROVE GrantOK(Until(g, t))
  <2>1. WindowOK([g.window EXCEPT !.valid_until = t])
    BY DEF GrantOK, WindowOK, IsRecord
  <2> QED  BY <2>1 DEF GrantOK, IsRecord, Until
<1>2. GrantOK([g EXCEPT !.self_authored = TRUE])
  BY DEF GrantOK, IsRecord
<1> QED  BY <1>1, <1>2

\* A register in which one grant is revised.
LEMMA GrantRevised ==
    ASSUME NEW f, Shaped(f), NEW id, NEW g, GrantOK(g)
    PROVE  Shaped(Revised(f, id, g))
<1>1. RegisterOK([f.register EXCEPT !.grants[id] = g])
  BY DEF Shaped, RegisterOK, IsRecord
<1>2. Revised(f, id, g) = [f EXCEPT !.register = [f.register EXCEPT !.grants[id] = g]]
  BY DEF Revised
<1> QED  BY <1>1, <1>2, PartReplaced

\* The mutations of what is no part of the shape: the policy, the approval,
\* the flags, and what is only compared.
LEMMA ShapeIgnores ==
    ASSUME NEW f, Shaped(f),
           NEW d \in {"target_elsewhere", "target_widened", "jurisdiction_changed",
                      "policy_superseded", "design_changed", "approved_too_late",
                      "approved_other_policy", "exception_generalised", "snapshot_race",
                      "source_bytes_changed", "obligation_misclaimed", "tcb_changed",
                      "scope_evaluator_changed", "checker_disabled", "graph_cyclic",
                      "activator_rogue", "target_out_of_scope"}
    PROVE  Shaped(Drift(d, f))
<1>1. CASE d = "target_elsewhere"
  BY <1>1 DEF Drift, Shaped, FixtureFields, Targets
<1>2. CASE d = "target_widened"
  BY <1>2 DEF Drift, Shaped, FixtureFields, Targets
<1>3. CASE d = "jurisdiction_changed"
  BY <1>3 DEF Drift, Shaped, FixtureFields
<1>4. CASE d = "policy_superseded"
  BY <1>4 DEF Drift, Shaped, FixtureFields
<1>5. CASE d = "design_changed"
  BY <1>5 DEF Drift, Shaped, FixtureFields
<1>6. CASE d = "approved_too_late"
  BY <1>6 DEF Drift, Shaped, FixtureFields
<1>7. CASE d = "approved_other_policy"
  BY <1>7 DEF Drift, Shaped, FixtureFields
<1>8. CASE d = "exception_generalised"
  BY <1>8 DEF Drift, Shaped, FixtureFields
<1>9. CASE d = "snapshot_race"
  BY <1>9 DEF Drift, Shaped, FixtureFields
<1>10. CASE d = "source_bytes_changed"
  BY <1>10 DEF Drift, Shaped, FixtureFields
<1>11. CASE d = "obligation_misclaimed"
  BY <1>11 DEF Drift, Shaped, FixtureFields
<1>12. CASE d = "tcb_changed"
  BY <1>12 DEF Drift, Shaped, FixtureFields
<1>13. CASE d = "scope_evaluator_changed"
  BY <1>13 DEF Drift, Shaped, FixtureFields
<1>14. CASE d = "checker_disabled"
  BY <1>14 DEF Drift, Shaped, FixtureFields
<1>15. CASE d = "graph_cyclic"
  BY <1>15 DEF Drift, Shaped, FixtureFields
<1>16. CASE d = "activator_rogue"
  BY <1>16 DEF Drift, Shaped, FixtureFields
<1>17. CASE d = "target_out_of_scope"
  BY <1>17 DEF Drift, Shaped, FixtureFields
<1> QED  BY <1>1, <1>2, <1>3, <1>4, <1>5, <1>6, <1>7, <1>8, <1>9, <1>10,
            <1>11, <1>12, <1>13, <1>14, <1>15, <1>16, <1>17

\* The mutations of the obligation.
LEMMA ObligationMutated ==
    ASSUME NEW f, Shaped(f), NEW d \in {"conflict_undeclared", "obligation_short"}
    PROVE  Shaped(Drift(d, f))
<1>1. CASE d = "conflict_undeclared"
  <2> DEFINE o == [f.obligation EXCEPT !.actual_conflicts = {"conflict-1"}]
  <2>1. Drift(d, f) = [f EXCEPT !.obligation = o]
    BY <1>1 DEF Drift
  <2>2. ObligationOK(o)
    BY DEF Shaped, ObligationOK, IsRecord
  <2> HIDE DEF o
  <2> QED  BY <2>1, <2>2, PartReplaced
<1>2. CASE d = "obligation_short"
  <2> DEFINE w == [f.obligation.window EXCEPT !.valid_until = f.now + 1]
             o == [f.obligation EXCEPT !.window = w]
  <2>1. Drift(d, f) = [f EXCEPT !.obligation = o]
    BY <1>2 DEF Drift
  <2>2. WindowOK(w) /\ w.valid_from = Now - Span
    BY DEF Shaped, ObligationOK, WindowOK, IsRecord
  <2>3. ObligationOK(o)
    <3>1. o.window = w /\ IsRecord(o, DOMAIN f.obligation) /\ ObligationOK(f.obligation)
      BY DEF Shaped, ObligationOK, IsRecord
    <3> HIDE DEF w, o
    <3> QED  BY <2>2, <3>1 DEF ObligationOK, IsRecord
  <2> HIDE DEF o
  <2> QED  BY <2>1, <2>3, PartReplaced
<1> QED  BY <1>1, <1>2

\* The mutations of the authority register.
LEMMA RegisterMutated ==
    ASSUME NEW f, Shaped(f),
           NEW d \in {"issuer_grant_deleted", "issuer_grant_expired",
                      "issuer_grant_self_authored", "deriver_grant_short",
                      "register_rolled_back"},
           Applicable(d, f)
    PROVE  Shaped(Drift(d, f))
<1> DEFINE issuer == f.register.grants[f.obligation_issuer_grant_id]
           deriver == f.register.grants["g_derive"]
<1>1. CASE d = "issuer_grant_deleted"
  <2> DEFINE left == Restrict(f.register.grants, DOMAIN f.register.grants \ {"g_register"})
             r == [f.register EXCEPT !.grants = left]
  <2>1. Drift(d, f) = [f EXCEPT !.register = r]
    BY <1>1 DEF Drift
  <2>2. RegisterOK(r)
    BY DEF Shaped, RegisterOK, IsRecord, Restrict
  <2> HIDE DEF r
  <2> QED  BY <2>1, <2>2, PartReplaced
<1>2. CASE d = "issuer_grant_expired"
  <2>1. Drift(d, f) = Revised(f, "g_register", Until(issuer, f.now - 1))
    BY <1>2 DEF Drift
  <2>2. GrantOK(issuer) /\ f.now - 1 \in Int
    BY <1>2 DEF Shaped, RegisterOK, Applicable
  <2> HIDE DEF issuer
  <2> QED  BY <2>1, <2>2, GrantChanged, GrantRevised
<1>3. CASE d = "issuer_grant_self_authored"
  <2>1. Drift(d, f) = Revised(f, "g_register", [issuer EXCEPT !.self_authored = TRUE])
    BY <1>3 DEF Drift
  <2>2. GrantOK(issuer)
    BY <1>3 DEF Shaped, RegisterOK, Applicable
  <2> HIDE DEF issuer
  <2> QED  BY <2>1, <2>2, GrantChanged, GrantRevised
<1>4. CASE d = "deriver_grant_short"
  <2>1. Drift(d, f) = Revised(f, "g_derive", Until(deriver, f.now + 1))
    BY <1>4 DEF Drift
  <2>2. CASE "g_derive" \in DOMAIN f.register.grants
    <3>1. GrantOK(deriver) /\ f.now + 1 \in Int
      BY <2>2 DEF Shaped, RegisterOK
    <3> HIDE DEF deriver
    <3> QED  BY <2>1, <3>1, GrantChanged, GrantRevised
  <2>3. CASE "g_derive" \notin DOMAIN f.register.grants
    <3> DEFINE r == [f.register EXCEPT !.grants["g_derive"] = Until(deriver, f.now + 1)]
    <3>1. Drift(d, f) = [f EXCEPT !.register = r]
      BY <2>1 DEF Revised
    <3>2. RegisterOK(r)
      BY <2>3 DEF Shaped, RegisterOK, IsRecord
    <3> HIDE DEF r
    <3> QED  BY <3>1, <3>2, PartReplaced
  <2> QED  BY <2>2, <2>3
<1>5. CASE d = "register_rolled_back"
  <2> DEFINE r == [f.register EXCEPT !.current_version = 2]
  <2>1. Drift(d, f) = [f EXCEPT !.register = r]
    BY <1>5 DEF Drift
  <2>2. RegisterOK(r)
    BY DEF Shaped, RegisterOK, IsRecord
  <2> HIDE DEF r
  <2> QED  BY <2>1, <2>2, PartReplaced
<1> QED  BY <1>1, <1>2, <1>3, <1>4, <1>5

\* The mutations of the executable closure.
LEMMA ClosureMutated ==
    ASSUME NEW f, Shaped(f),
           NEW d \in {"runtime_dependency_changed", "rule_unmapped",
                      "rules_unknown"}
    PROVE  Shaped(Drift(d, f))
<1>1. CASE d = "runtime_dependency_changed"
  <2> DEFINE c == [f.closure EXCEPT !.runtime_dependencies.rules_lib = "rules v2"]
  <2>1. Drift(d, f) = [f EXCEPT !.closure = c]
    BY <1>1 DEF Drift
  <2>2. ClosureOK(c)
    BY DEF Shaped, ClosureOK, IsRecord
  <2> HIDE DEF c
  <2> QED  BY <2>1, <2>2, PartReplaced
<1>2. CASE d = "rule_unmapped"
  <2> DEFINE c == [f.closure EXCEPT !.rule_inventory =
                    [known |-> TRUE, rules |-> f.policy.rules \cup {"unmapped_rule"}]]
  <2>1. Drift(d, f) = [f EXCEPT !.closure = c]
    BY <1>2 DEF Drift
  <2>2. ClosureOK(c)
    BY DEF Shaped, ClosureOK, IsRecord
  <2> HIDE DEF c
  <2> QED  BY <2>1, <2>2, PartReplaced
<1>3. CASE d = "rules_unknown"
  <2> DEFINE c == [f.closure EXCEPT !.rule_inventory.known = FALSE]
  <2>1. Drift(d, f) = [f EXCEPT !.closure = c]
    BY <1>3 DEF Drift
  <2>2. ClosureOK(c)
    BY DEF Shaped, ClosureOK, IsRecord
  <2> HIDE DEF c
  <2> QED  BY <2>1, <2>2, PartReplaced
<1> QED  BY <1>1, <1>2, <1>3

\* The mutations of what the runtime reports it loaded.
LEMMA InterpretationMutated ==
    ASSUME NEW f, Shaped(f),
           NEW d \in {"parser_changed", "include_changed", "executable_changed"}
    PROVE  Shaped(Drift(d, f))
<1>1. CASE d = "parser_changed"
  <2> DEFINE i == [f.interpretation EXCEPT !.runtime.versions = <<"1", "2", "1">>]
  <2>1. Drift(d, f) = [f EXCEPT !.interpretation = i]
    BY <1>1 DEF Drift
  <2>2. InterpretationOK(i)
    BY DEF Shaped, InterpretationOK, ChainFields, IsRecord
  <2> HIDE DEF i
  <2> QED  BY <2>1, <2>2, PartReplaced
<1>2. CASE d = "include_changed"
  <2> DEFINE i == [f.interpretation EXCEPT !.runtime.include = "includes changed"]
  <2>1. Drift(d, f) = [f EXCEPT !.interpretation = i]
    BY <1>2 DEF Drift
  <2>2. InterpretationOK(i)
    BY DEF Shaped, InterpretationOK, ChainFields, IsRecord
  <2> HIDE DEF i
  <2> QED  BY <2>1, <2>2, PartReplaced
<1>3. CASE d = "executable_changed"
  <2> DEFINE i == [f.interpretation EXCEPT !.runtime.normalised_executable =
                    Digest([executed |-> "B"])]
  <2>1. Drift(d, f) = [f EXCEPT !.interpretation = i]
    BY <1>3 DEF Drift
  <2>2. InterpretationOK(i)
    BY DEF Shaped, InterpretationOK, ChainFields, IsRecord
  <2> HIDE DEF i
  <2> QED  BY <2>1, <2>2, PartReplaced
<1> QED  BY <1>1, <1>2, <1>3

\* The mutations of the derivation.
LEMMA DerivationMutated ==
    ASSUME NEW f, Shaped(f),
           NEW d \in {"derivation_absent", "coverage_emptied",
                      "assumptions_changed", "derived_by_activator"}
    PROVE  Shaped(Drift(d, f))
<1>1. CASE d = "derivation_absent"
  <2> DEFINE v == [f.derivation EXCEPT !.status = "ABSENT"]
  <2>1. Drift(d, f) = [f EXCEPT !.derivation = v]
    BY <1>1 DEF Drift
  <2>2. DerivationOK(v)
    BY DEF Shaped, DerivationOK, IsRecord
  <2> HIDE DEF v
  <2> QED  BY <2>1, <2>2, PartReplaced
<1>2. CASE d = "coverage_emptied"
  <2> DEFINE v == [f.derivation EXCEPT !.coverage = {}]
  <2>1. Drift(d, f) = [f EXCEPT !.derivation = v]
    BY <1>2 DEF Drift
  <2>2. DerivationOK(v)
    BY DEF Shaped, DerivationOK, IsRecord
  <2> HIDE DEF v
  <2> QED  BY <2>1, <2>2, PartReplaced
<1>3. CASE d = "assumptions_changed"
  <2> DEFINE v == [f.derivation EXCEPT !.assumptions = "mutated-after-snapshot"]
  <2>1. Drift(d, f) = [f EXCEPT !.derivation = v]
    BY <1>3 DEF Drift
  <2>2. DerivationOK(v)
    BY DEF Shaped, DerivationOK, IsRecord
  <2> HIDE DEF v
  <2> QED  BY <2>1, <2>2, PartReplaced
<1>4. CASE d = "derived_by_activator"
  <2> DEFINE v == [f.derivation EXCEPT !.principal = "activator"]
  <2>1. Drift(d, f) = [f EXCEPT !.derivation = v]
    BY <1>4 DEF Drift
  <2>2. DerivationOK(v)
    BY DEF Shaped, DerivationOK, IsRecord
  <2> HIDE DEF v
  <2> QED  BY <2>1, <2>2, PartReplaced
<1> QED  BY <1>1, <1>2, <1>3, <1>4

\* The mutations of the observation alone.
LEMMA ObservationMutated ==
    ASSUME NEW f, Shaped(f),
           NEW d \in {"status_invalid", "source_unavailable",
                      "source_substituted", "role_substituted"}
    PROVE  Shaped(Drift(d, f))
<1>1. CASE d = "status_invalid"
  <2> DEFINE o == [f.observation EXCEPT !.evidence_state = "POSITIVELY_INVALID"]
  <2>1. Drift(d, f) = [f EXCEPT !.observation = o]
    BY <1>1 DEF Drift
  <2>2. ObservationOK(o)
    BY DEF Shaped, ObservationOK, IsRecord
  <2> HIDE DEF o
  <2> QED  BY <2>1, <2>2, PartReplaced
<1>2. CASE d = "source_unavailable"
  <2> DEFINE o == [f.observation EXCEPT !.evidence_state = "SOURCE_UNAVAILABLE"]
  <2>1. Drift(d, f) = [f EXCEPT !.observation = o]
    BY <1>2 DEF Drift
  <2>2. ObservationOK(o)
    BY DEF Shaped, ObservationOK, IsRecord
  <2> HIDE DEF o
  <2> QED  BY <2>1, <2>2, PartReplaced
<1>3. CASE d = "source_substituted"
  <2> DEFINE o == [f.observation EXCEPT !.source_id = "revocation-source-B"]
  <2>1. Drift(d, f) = [f EXCEPT !.observation = o]
    BY <1>3 DEF Drift
  <2>2. ObservationOK(o)
    BY DEF Shaped, ObservationOK, IsRecord
  <2> HIDE DEF o
  <2> QED  BY <2>1, <2>2, PartReplaced
<1>4. CASE d = "role_substituted"
  <2> DEFINE o == [f.observation EXCEPT !.source_role = "MIRROR_ONLY"]
  <2>1. Drift(d, f) = [f EXCEPT !.observation = o]
    BY <1>4 DEF Drift
  <2>2. ObservationOK(o)
    BY DEF Shaped, ObservationOK, IsRecord
  <2> HIDE DEF o
  <2> QED  BY <2>1, <2>2, PartReplaced
<1> QED  BY <1>1, <1>2, <1>3, <1>4

\* The mutations that reach the observation and its contract in two places.
LEMMA EvidenceMutated ==
    ASSUME NEW f, Shaped(f),
           NEW d \in {"observed_at_limit", "absence_unwarranted", "predicate_not_permitted"}
    PROVE  Shaped(Drift(d, f))
<1> DEFINE g == Drift(d, f)
           Others == /\ DOMAIN g = FixtureFields
                     /\ g.now = f.now /\ g.obligation = f.obligation
                     /\ g.register = f.register /\ g.closure = f.closure
                     /\ g.interpretation = f.interpretation
                     /\ g.derivation = f.derivation
                     /\ g.incumbent_standing = f.incumbent_standing
                     /\ g.fallback_standing = f.fallback_standing
<1>1. CASE d = "observed_at_limit"
  <2> DEFINE oldest == f.now - f.observation_contract.max_age
             update == f.now + 2
             o == [f.observation EXCEPT !.observed_at = oldest, !.next_update = update]
  <2>1. g = [f EXCEPT !.observation.observed_at = oldest,
                      !.observation.next_update = update]
    BY <1>1 DEF Drift
  <2>2. Others /\ g.observation = o /\ g.observation_contract = f.observation_contract
    BY <2>1 DEF Shaped, FixtureFields
  <2>3. oldest \in Int /\ update \in Int
    BY DEF Shaped, ContractOK
  <2> HIDE DEF oldest, update
  <2>4. ObservationOK(o)
    BY <2>3 DEF Shaped, ObservationOK, IsRecord
  <2> HIDE DEF o, g
  <2> QED  BY <2>2, <2>4 DEF Shaped, g
<1>2. CASE d = "absence_unwarranted"
  <2> DEFINE o == [f.observation EXCEPT !.evidence_state = "ABSENCE_OBSERVED"]
             c == [f.observation_contract EXCEPT !.absence_establishes = {}]
  <2>1. g = [f EXCEPT !.observation.evidence_state = "ABSENCE_OBSERVED",
                      !.observation_contract.absence_establishes = {}]
    BY <1>2 DEF Drift
  <2>2. Others /\ g.observation = o /\ g.observation_contract = c
    BY <2>1 DEF Shaped, FixtureFields
  <2>3. ObservationOK(o) /\ ContractOK(c)
    BY DEF Shaped, ObservationOK, ContractOK, IsRecord
  <2> HIDE DEF o, c, g
  <2> QED  BY <2>2, <2>3 DEF Shaped, g
<1>3. CASE d = "predicate_not_permitted"
  <2> DEFINE c == [f.observation_contract EXCEPT !.permitted_predicates = {"REVOKED"},
                                                 !.absence_establishes = {}]
  <2>1. g = [f EXCEPT !.observation_contract.permitted_predicates = {"REVOKED"},
                      !.observation_contract.absence_establishes = {}]
    BY <1>3 DEF Drift
  <2>2. Others /\ g.observation = f.observation /\ g.observation_contract = c
    BY <2>1 DEF Shaped, FixtureFields
  <2>3. ContractOK(c)
    BY DEF Shaped, ContractOK, IsRecord
  <2> HIDE DEF c, g
  <2> QED  BY <2>2, <2>3 DEF Shaped, g
<1> QED  BY <1>1, <1>2, <1>3

\* Every mutation keeps the shape.
LEMMA DriftKeepsShape ==
    ASSUME NEW f, Shaped(f), NEW d \in DriftNames, Applicable(d, f)
    PROVE  Shaped(Drift(d, f))
BY ShapeIgnores, ObligationMutated, RegisterMutated, ClosureMutated, InterpretationMutated,
   DerivationMutated, ObservationMutated, EvidenceMutated
   DEF DriftNames

\* Signing again keeps the shape of a record that was signed before.
LEMMA SigningKeepsFields ==
    ASSUME NEW rec, NEW p, NEW fields, IsRecord(rec, fields),
           "signature" \in fields, "signed_digest" \in fields
    PROVE  /\ IsRecord(Signed(rec, p), fields)
           /\ \A x \in fields \ {"signature", "signed_digest"} : Signed(rec, p)[x] = rec[x]
<1>1. DOMAIN rec = fields /\ DOMAIN rec \cup {"signature", "signed_digest"} = fields
  BY DEF IsRecord
<1> QED  BY <1>1, SigningKeepsContent

\* The principals' signatures keep the shape.
LEMMA SigningKeepsShape ==
    ASSUME NEW f, Shaped(f)
    PROVE  /\ Shaped(ResignDerivation(f)) /\ Shaped(ResignApproval(f))
           /\ Shaped(RebindApproval(f)) /\ Shaped(ResignContract(f))
<1>1. Shaped(ResignDerivation(f))
  <2> DEFINE d == Signed(f.derivation, f.derivation.principal)
  <2>1. DerivationOK(d)
    BY SigningKeepsFields DEF Shaped, DerivationOK
  <2>2. ResignDerivation(f) = [f EXCEPT !.derivation = d]
    BY DEF ResignDerivation
  <2> HIDE DEF d
  <2> QED  BY <2>1, <2>2, PartReplaced
<1>2. ASSUME NEW h, Shaped(h) PROVE Shaped(ResignApproval(h))
  <2>1. ResignApproval(h) =
            [h EXCEPT !.approval = Signed(h.approval, h.approval.principal)]
    BY DEF ResignApproval
  <2> QED  BY <1>2, <2>1, PartReplaced
<1>3. Shaped(RebindApproval(f))
  <2> DEFINE h == [f EXCEPT !.approval.policy_digest = PolicyDigest(f.policy),
                            !.approval.closure_digest = Digest(f.closure),
                            !.approval.interpretation_digest = Digest(f.interpretation),
                            !.approval.attestation_digest = Digest(Signable(f.derivation)),
                            !.approval.design_digest = f.policy.design_digest,
                            !.approval.scope_digest = Digest(f.policy.scope)]
  <2>1. /\ DOMAIN h = FixtureFields
        /\ h.now = f.now /\ h.obligation = f.obligation /\ h.register = f.register
        /\ h.closure = f.closure /\ h.interpretation = f.interpretation
        /\ h.derivation = f.derivation
        /\ h.observation_contract = f.observation_contract /\ h.observation = f.observation
        /\ h.incumbent_standing = f.incumbent_standing
        /\ h.fallback_standing = f.fallback_standing
    BY DEF Shaped, FixtureFields
  <2>2. RebindApproval(f) = ResignApproval(h)
    BY DEF RebindApproval
  <2> HIDE DEF h
  <2>3. Shaped(h)
    BY <2>1 DEF Shaped
  <2> QED  BY <1>2, <2>2, <2>3
<1>4. Shaped(ResignContract(f))
  <2> DEFINE c == Signed(f.observation_contract, f.observation_contract.issuer)
             o == [f.observation EXCEPT !.contract_digest = Digest(Signable(c)),
                                        !.contract_version = c.version]
             g == ResignContract(f)
  <2>1. ContractOK(c)
    <3> DEFINE fields == DOMAIN f.observation_contract
    <3>1. /\ IsRecord(f.observation_contract, fields) /\ "max_age" \in fields
          /\ "signature" \in fields /\ "signed_digest" \in fields
          /\ f.observation_contract.max_age \in Int
      BY DEF Shaped, ContractOK, IsRecord
    <3>2. IsRecord(c, fields) /\ c.max_age = f.observation_contract.max_age
      <4> HIDE DEF fields
      <4>1. /\ IsRecord(c, fields)
            /\ \A x \in fields \ {"signature", "signed_digest"} :
                   c[x] = f.observation_contract[x]
        BY <3>1, SigningKeepsFields
      <4> HIDE DEF c
      <4> QED  BY <3>1, <4>1
    <3> HIDE DEF c
    <3> QED  BY <3>1, <3>2 DEF Shaped, ContractOK, IsRecord
  <2> HIDE DEF c
  <2>2. ObservationOK(o)
    BY DEF Shaped, ObservationOK, IsRecord
  <2>3. g = [f EXCEPT !.observation_contract = c,
                      !.observation.contract_digest = Digest(Signable(c)),
                      !.observation.contract_version = c.version]
    BY DEF ResignContract, c
  <2>4. /\ DOMAIN g = FixtureFields
        /\ g.now = f.now /\ g.obligation = f.obligation /\ g.register = f.register
        /\ g.closure = f.closure /\ g.interpretation = f.interpretation
        /\ g.derivation = f.derivation
        /\ g.observation_contract = c /\ g.observation = o
        /\ g.incumbent_standing = f.incumbent_standing
        /\ g.fallback_standing = f.fallback_standing
    BY <2>3 DEF Shaped, FixtureFields
  <2> HIDE DEF o, g
  <2> QED  BY <2>1, <2>2, <2>4 DEF Shaped, g
<1> QED  BY <1>1, <1>2, <1>3, <1>4

=============================================================================
