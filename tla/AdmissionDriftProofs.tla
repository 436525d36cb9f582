------------------------ MODULE AdmissionDriftProofs ------------------------
(***************************************************************************)
(* The safety of admission over a drifting fixture: whatever mutations,    *)
(* signatures and minutes it has been through, an ALLOW pins the content   *)
(* its approval was given for, speaks of what the runtime loaded, and      *)
(* lasts until its horizon.                                                *)
(***************************************************************************)
EXTENDS AdmissionDrift, DriftProofs

-----------------------------------------------------------------------------
(* The fixture keeps its shape. *)

FixtureOK == Shaped(fixture)

\* Whatever happens to it, the fixture keeps the shape of the one that was
\* built: the inductive invariant that the theorems below rest on.
THEOREM ShapeCorrect == Spec => []FixtureOK
<1>1. Init => FixtureOK
  BY ValidIsShaped DEF Init, Built, FixtureOK
<1>2. ASSUME FixtureOK, [Next]_vars PROVE FixtureOK'
  <2>1. Shaped(fixture)
    BY <1>2 DEF FixtureOK
  <2>2. ASSUME NEW d \in DriftNames, Suffer(d) PROVE FixtureOK'
    BY <2>1, <2>2, DriftKeepsShape DEF Suffer, FixtureOK
  <2>3. CASE Wait
    <3>1. fixture' = [fixture EXCEPT !.now = fixture.now + 1] /\ fixture.now + 1 \in Int
      BY <2>1, <2>3 DEF Wait, Aged, Shaped
    <3> QED  BY <2>1, <3>1, PartReplaced DEF FixtureOK
  <2>4. CASE DeriverSigns
    BY <2>1, <2>4, SigningKeepsShape DEF DeriverSigns, FixtureOK
  <2>5. CASE ApproverSigns
    BY <2>1, <2>5, SigningKeepsShape DEF ApproverSigns, FixtureOK
  <2>6. CASE ApproverRebinds
    BY <2>1, <2>6, SigningKeepsShape DEF ApproverRebinds, FixtureOK
  <2>7. CASE IssuerSigns
    BY <2>1, <2>7, SigningKeepsShape DEF IssuerSigns, FixtureOK
  <2>8. CASE UNCHANGED vars
    BY <2>1, <2>8 DEF vars, FixtureOK
  <2> QED  BY <1>2, <2>2, <2>3, <2>4, <2>5, <2>6, <2>7, <2>8 DEF Next
<1> QED  BY <1>1, <1>2, PTL DEF Spec

-----------------------------------------------------------------------------
(* What an ALLOW promises over any history of the fixture. *)

\* The fixture as built is what its approval and its derivation speak of.
LEMMA BuiltIsAttested == Attested(Built)
<1> DEFINE p == Policy("policy-1")
           a == [policy_digest |-> PolicyDigest(p), closure_digest |-> Digest(Closure(p)),
                 interpretation_digest |-> Digest(Interpretation(p)),
                 attestation_digest |-> Digest(Signable(Derivation(p))),
                 design_digest |-> p.design_digest, scope_digest |-> Digest(p.scope),
                 principal |-> "approver", grant_id |-> "g_approve",
                 approved_at |-> Now - 2, activation_requested_at |-> Now - 1]
           d == [status |-> "CURRENT", obligation_digest |-> ObligationDigest(Obligation),
                 policy_digest |-> PolicyDigest(p), coverage |-> p.rules,
                 assumptions |-> "declared-inputs-only", principal |-> "deriver",
                 grant_id |-> "g_derive"]
<1>1. /\ Built.policy = p /\ Built.closure = Closure(p)
      /\ Built.interpretation = Interpretation(p) /\ Built.obligation = Obligation
      /\ Built.approval = Signed(a, "approver") /\ Built.derivation = Signed(d, "deriver")
  BY DEF Built, ValidFixture, Approval, Derivation
<1>2. /\ Built.approval.policy_digest = PolicyDigest(p)
      /\ Built.approval.closure_digest = Digest(Closure(p))
      /\ Built.approval.interpretation_digest = Digest(Interpretation(p))
      /\ Built.approval.attestation_digest = Digest(Signable(Derivation(p)))
      /\ Built.approval.design_digest = p.design_digest
      /\ Built.approval.scope_digest = Digest(p.scope)
  BY <1>1 DEF Signed
<1>3. /\ Built.derivation.obligation_digest = ObligationDigest(Obligation)
      /\ Built.derivation.principal = "deriver"
      /\ {"obligation_digest", "principal"} \subseteq DOMAIN Built.derivation
  BY <1>1 DEF Signed
<1>4. SignatureValid(Built.derivation)
  <2> HIDE DEF d
  <2>1. /\ Signable(Signed(d, "deriver")) = Signable(d)
        /\ Signed(d, "deriver").signed_digest = Digest(Signable(d))
        /\ Signed(d, "deriver").signature = Sign("deriver", Digest(Signable(d)))
    BY SigningKeepsContent
  <2> QED  BY <1>1, <1>3, <2>1 DEF SignatureValid, Verify
<1>5. Built.derivation = Derivation(p)
  BY DEF Built, ValidFixture
<1> QED  BY <1>1, <1>2, <1>3, <1>4, <1>5 DEF Attested, ApprovalBound

\* An approval pins the content it was given for: as long as the approver has
\* not signed again, nothing that it names has been substituted in a fixture
\* that is allowed (harness.py:577-588).
THEOREM ApprovalPins == Spec => []ApprovalPinsContent
<1>1. ASSUME FixtureOK PROVE ApprovalPinsContent
  <2> SUFFICES ASSUME fixture.approval = Built.approval, Allowed(fixture)
               PROVE  /\ Identity(fixture.policy) = Identity(Built.policy)
                      /\ fixture.closure = Built.closure
                      /\ fixture.interpretation = Built.interpretation
                      /\ fixture.derivation = Built.derivation
                      /\ fixture.obligation.content = Built.obligation.content
    BY DEF ApprovalPinsContent
  <2>1. DerivationOK(fixture.derivation) /\ DerivationOK(Built.derivation)
    BY <1>1, ValidIsShaped DEF FixtureOK, Built, Shaped
  <2>2. {"obligation_digest", "principal"} \subseteq DOMAIN fixture.derivation
    BY <2>1 DEF DerivationOK, IsRecord
  <2>3. Attested(fixture)
    BY <2>2, AllowedApproval, AllowedDerivation DEF Attested
  <2>4. SameContent(fixture, Built)
    BY <2>3, BuiltIsAttested, AttestedContent
  <2>5. fixture.derivation = Built.derivation
    <3> DEFINE d == fixture.derivation
               e == Built.derivation
               fields == DOMAIN d
    <3>1. /\ "signature" \in fields /\ "signed_digest" \in fields
          /\ IsRecord(d, fields) /\ IsRecord(e, fields)
      BY <2>1 DEF DerivationOK, IsRecord
    <3>2. /\ Signable(d) = Signable(e)
          /\ d["signature"] = e["signature"] /\ d["signed_digest"] = e["signed_digest"]
      BY <2>4 DEF SameContent
    <3> HIDE DEF d, e, fields
    <3>3. ASSUME NEW x \in fields \ {"signature", "signed_digest"} PROVE d[x] = e[x]
      BY <3>1, <3>2, <3>3 DEF Signable, Restrict, IsRecord
    <3>4. d = e
      BY <3>1, <3>2, <3>3 DEF IsRecord
    <3> QED  BY <3>4 DEF d, e
  <2> QED  BY <2>4, <2>5 DEF SameContent
<1> QED  BY <1>1, ShapeCorrect, PTL

\* What the runtime reports it loaded is what the approver signed for, even
\* when the approver has rebound its approval (harness.py:577-594, 604-617).
THEOREM RuntimeCorrect == Spec => []RuntimeIsApproved
<1>1. ASSUME FixtureOK PROVE RuntimeIsApproved
  <2> DEFINE a == fixture.approval
             i == fixture.interpretation
             c == fixture.closure
  <2> SUFFICES ASSUME Allowed(fixture)
               PROVE  /\ a.interpretation_digest =
                             Digest([bound |-> i.runtime, runtime |-> i.runtime])
                      /\ a.closure_digest =
                             Digest([c EXCEPT !.dependencies = c.runtime_dependencies])
                      /\ a.signature = Sign("approver", Digest(Signable(a)))
    BY DEF RuntimeIsApproved
  <2>1. Shaped(fixture)
    BY <1>1 DEF FixtureOK
  <2>2. i = [bound |-> i.runtime, runtime |-> i.runtime]
    <3>1. \A x \in ChainFields : i.bound[x] = i.runtime[x]
      BY AllowedRuntime DEF ChainFields
    <3>2. /\ IsRecord(i, {"bound", "runtime"})
          /\ IsRecord(i.bound, ChainFields) /\ IsRecord(i.runtime, ChainFields)
      BY <2>1 DEF Shaped, InterpretationOK
    <3> HIDE DEF i
    <3>3. i.bound = i.runtime
      BY <3>1, <3>2 DEF IsRecord
    <3> QED  BY <3>2, <3>3 DEF IsRecord
  <2>3. c = [c EXCEPT !.dependencies = c.runtime_dependencies]
    <3>1. ClosureOK(c) /\ c.dependencies = c.runtime_dependencies
      BY <2>1, AllowedRuntime DEF Shaped
    <3> HIDE DEF c
    <3> QED  BY <3>1 DEF ClosureOK, IsRecord
  <2>4. a.principal = "approver"
    <3> DEFINE grants == fixture.register.grants
               g == grants[a.grant_id]
               checks == GrantChecks(fixture, g, a.principal, "APPROVE_POLICY",
                                     fixture.policy.scope)
    <3>1. a.grant_id \in DOMAIN grants /\ Passing(checks)
      BY AllowedApproval, EstablishedAuthority
    <3>2. g.principal = a.principal /\ g.capability = "APPROVE_POLICY"
      <4>1. ~checks[1].fails
        BY <3>1, GrantChecksAre DEF Passing
      <4>2. checks[1].fails = (g.principal # a.principal \/ g.capability # "APPROVE_POLICY")
        BY DEF GrantChecks, Deny
      <4> QED  BY <4>1, <4>2
    <3>3. GrantOK(g)
      BY <2>1, <3>1 DEF Shaped, RegisterOK
    <3> QED  BY <3>2, <3>3 DEF GrantOK
  <2>5. /\ a.interpretation_digest = Digest(i) /\ a.closure_digest = Digest(c)
        /\ SignatureValid(a)
    BY AllowedApproval DEF ApprovalBound
  <2> HIDE DEF a, c, i
  <2> QED  BY <2>2, <2>3, <2>4, <2>5 DEF SignatureValid, Verify
<1> QED  BY <1>1, ShapeCorrect, PTL

\* A standing lasts as long as its evidence: at every instant before its
\* horizon the same fixture is still allowed, unless a delegation has run out
\* in the meantime (harness.py:639-643).
THEOREM HorizonCorrect == Spec => []HorizonIsSound
<1>1. ASSUME FixtureOK PROVE HorizonIsSound
  <2> DEFINE horizon == Evaluation(fixture).standing.revalidate_by
  <2> SUFFICES ASSUME Allowed(fixture), NEW t \in fixture.now .. horizon - 1
               PROVE  LET later == Evaluation([fixture EXCEPT !.now = t]) IN
                      later.admission = "ALLOW" \/ later.reason = "DELEGATION_EXPIRED"
    BY DEF HorizonIsSound
  <2> DEFINE g == [fixture EXCEPT !.now = t]
  <2>1. Shaped(fixture)
    BY <1>1 DEF FixtureOK
  <2>2. Timed(fixture)
    BY <2>1 DEF Shaped, Timed, ObligationOK, WindowOK, ObservationOK, ContractOK
  <2>3. horizon = RevalidateBy(fixture) /\ RevalidateBy(fixture) \in Int
    <3>1. Evaluation(fixture).standing = Standing(fixture)
      BY AdmitAnswers DEF Allowed, IsTyped
    <3>2. Standing(fixture).revalidate_by = RevalidateBy(fixture)
      BY DEF Standing
    <3> QED  BY <2>2, <3>1, <3>2, HorizonIsEarliest
  <2>4. t \in Int /\ fixture.now <= t /\ t < RevalidateBy(fixture)
    <3> HIDE DEF horizon
    <3> QED  BY <2>2, <2>3 DEF Timed
  <2>5. fixture.obligation.window.valid_from <= t
    BY <2>2, <2>4, AllowedObligation DEF WindowContains, Timed
  <2>6. Retimed(fixture, g) /\ g.now = t
    BY <2>1 DEF Retimed, Shaped, FixtureFields
  <2> HIDE DEF g, horizon
  <2>7. Evaluation(g).admission = "ALLOW" \/ Evaluation(g).reason = "DELEGATION_EXPIRED"
    BY <2>2, <2>4, <2>5, <2>6, AllowLasts
  <2> QED  BY <2>7 DEF g
<1> QED  BY <1>1, ShapeCorrect, PTL

\* Every answer of admit is typed, and no standing is given after its own
\* horizon: an ALLOW is never born expired (harness.py:521-665).
THEOREM AnswerTypeCorrect == Spec => []TypeOK
<1>1. ASSUME FixtureOK PROVE TypeOK
  <2> DEFINE v == Evaluation(fixture)
  <2>1. Shaped(fixture)
    BY <1>1 DEF FixtureOK
  <2>2. Timed(fixture)
    BY <2>1 DEF Shaped, Timed, ObligationOK, WindowOK, ObservationOK, ContractOK
  <2>3. CASE Allowed(fixture)
    <3>1. /\ v.snapshot = Snapshot(fixture) /\ v.standing = Standing(fixture)
          /\ v.admission = "ALLOW" /\ v.engine_mode = "READY"
      BY <2>3, AdmitAnswers DEF Allowed, IsTyped
    <3>2. /\ Standing(fixture).snapshot_digest = Digest(Snapshot(fixture))
          /\ Standing(fixture).evaluated_at = fixture.now
          /\ Standing(fixture).revalidate_by = RevalidateBy(fixture)
          /\ Snapshot(fixture).checked_at = fixture.now
      BY DEF Standing, Snapshot
    <3>3. fixture.now <= RevalidateBy(fixture)
      BY <2>2, <2>3, AllowedByHorizon
    <3> QED  BY <3>1, <3>2, <3>3 DEF TypeOK, Verdicts
  <2>4. CASE ~Allowed(fixture)
    BY <2>4, AdmitAnswers DEF Allowed, IsTyped, TypeOK, Verdicts
  <2> QED  BY <2>3, <2>4
<1> QED  BY <1>1, ShapeCorrect, PTL

=============================================================================
