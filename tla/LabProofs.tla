----------------------------- MODULE LabProofs -----------------------------
(***************************************************************************)
(* The composition, from admission to consequence: what admit said of a    *)
(* fixture (modules AdmissionProofs, DriftProofs) still holds when the     *)
(* engine acts on it (module HarnessProofs).                               *)
(***************************************************************************)
EXTENDS Lab, HarnessProofs, DriftProofs

-----------------------------------------------------------------------------
(* Every fixture that a caller may hold has the shape of a fixture. *)

\* The candidates that no attack has touched.
LEMMA SoundAreShaped ==
    ASSUME NEW f, Shaped(f)
    PROVE  Shaped(Refreshed(f)) /\ Shaped(Rebuilt(f))
<1>1. Shaped(Refreshed(f))
  <2> DEFINE o == [f.observation EXCEPT !.observed_at = @ + 1, !.next_update = @ + 1]
  <2>1. ObservationOK(o)
    <3>1. ObservationOK(f.observation)
      BY DEF Shaped
    <3>2. /\ o.observed_at = f.observation.observed_at + 1
          /\ o.next_update = f.observation.next_update + 1
          /\ IsRecord(o, DOMAIN f.observation)
      BY <3>1 DEF ObservationOK, IsRecord
    <3> HIDE DEF o
    <3> QED  BY <3>1, <3>2 DEF ObservationOK, IsRecord
  <2>2. /\ DOMAIN Refreshed(f) = DOMAIN f
        /\ Refreshed(f).observation = o
        /\ \A x \in DOMAIN f \ {"observation"} : Refreshed(f)[x] = f[x]
    BY DEF Refreshed, Shaped, FixtureFields
  <2> HIDE DEF o
  <2> QED  BY <2>1, <2>2 DEF Shaped, FixtureFields
<1>2. Shaped(Rebuilt(f))
  <2> DEFINE digest == Digest([root |-> PolicyDigest(f.policy),
                               dependencies |-> [f.closure.dependencies EXCEPT
                                                     !.rules_lib = "rules v2"]])
             c == [f.closure EXCEPT !.dependencies.rules_lib = "rules v2",
                                    !.runtime_dependencies.rules_lib = "rules v2",
                                    !.aggregate_digest = digest]
             g == [f EXCEPT !.closure.dependencies.rules_lib = "rules v2",
                            !.closure.runtime_dependencies.rules_lib = "rules v2",
                            !.closure.aggregate_digest = digest]
  <2>1. Rebuilt(f) = RebindApproval(g)
    BY DEF Rebuilt
  <2> HIDE DEF digest
  <2>2. ClosureOK(c)
    BY DEF Shaped, ClosureOK, IsRecord
  <2>3. /\ DOMAIN g = DOMAIN f /\ g.closure = c
        /\ \A x \in DOMAIN f \ {"closure"} : g[x] = f[x]
    BY DEF Shaped, FixtureFields
  <2> HIDE DEF c, g
  <2>4. Shaped(g)
    BY <2>2, <2>3 DEF Shaped, FixtureFields
  <2> QED  BY <2>1, <2>4, SigningKeepsShape
<1> QED  BY <1>1, <1>2

\* The candidate whose activator's grant ends early.
LEMMA ShortIsShaped == Shaped(Short(ValidFixture("policy-1")))
<1> DEFINE f == ValidFixture("policy-1")
           g == [f.register.grants["g_activate"] EXCEPT !.window.valid_until = f.now + 1]
<1>1. Shaped(f)
  BY ValidIsShaped
<1>2. "g_activate" \in DOMAIN f.register.grants
  BY DEF ValidFixture, Register, Holder
<1>3. GrantOK(f.register.grants["g_activate"]) /\ f.now + 1 \in Int
  BY <1>1, <1>2 DEF Shaped, RegisterOK
<1> HIDE DEF f
<1>4. GrantOK(g)
  BY <1>3, GrantChanged DEF Until
<1>5. Short(f) = Revised(f, "g_activate", g)
  BY DEF Short, Revised
<1> HIDE DEF g
<1>6. Shaped(Short(f))
  BY <1>1, <1>4, <1>5, GrantRevised
<1> QED  BY <1>6 DEF f

\* The candidate under an attack, signed again where the attack signs.
LEMMA AttackedIsShaped ==
    ASSUME NEW d \in DriftNames
    PROVE  Shaped(Attacked(d, ValidFixture("policy-1")))
<1> DEFINE f == ValidFixture("policy-1")
<1>1. Shaped(f)
  BY ValidIsShaped
<1>2. Applicable(d, f)
  <2>1. f.obligation_issuer_grant_id \in DOMAIN f.register.grants
    BY DEF ValidFixture, Register, Holder
  <2>2. f.derivation.status # "ABSENT"
    BY DEF ValidFixture, Derivation, Signed
  <2> QED  BY <2>1, <2>2 DEF Applicable
<1> HIDE DEF f
<1> DEFINE g == Drift(d, f)
<1>3. Shaped(g)
  BY <1>1, <1>2, DriftKeepsShape
<1> HIDE DEF g
<1>4. Shaped(Resigned(d, g))
  BY <1>3, SigningKeepsShape DEF Resigned
<1> QED  BY <1>4 DEF Attacked, f, g

\* Every fixture by its name.
LEMMA FixturesShaped == \A e \in FixtureNames : Shaped(Fixtures[e])
<1> DEFINE f == ValidFixture("policy-1")
<1>1. Shaped(f)
  BY ValidIsShaped
<1>2. ASSUME NEW g, Shaped(g), NEW incumbent \in Verdicts,
             NEW fallback \in Verdicts \cup {None}
      PROVE  Shaped(Resort(g, incumbent, fallback))
  BY <1>2 DEF Resort, Shaped, FixtureFields
<1>3. ASSUME NEW e \in DOMAIN Unsound
      PROVE  /\ Unsound[e][1] \in DriftNames
             /\ Unsound[e][2] \in Verdicts /\ Unsound[e][3] \in Verdicts \cup {None}
  BY DEF Unsound, DriftNames, Verdicts
<1> SUFFICES ASSUME NEW e \in FixtureNames PROVE Shaped(FixturesOf(f)[e])
  BY DEF Fixtures
<1>5. Shaped(Refreshed(f)) /\ Shaped(Rebuilt(f)) /\ Shaped(Short(f))
  BY <1>1, SoundAreShaped, ShortIsShaped
<1>6. \A d \in DriftNames : Shaped(Attacked(d, f))
  BY AttackedIsShaped
<1> HIDE DEF f
<1>7. Sound \cap DOMAIN Unsound = {} /\ Sound \cap DriftNames = {}
      /\ DOMAIN Unsound \cap DriftNames = {}
  <2>1. DOMAIN Unsound = {"revoked", "rogue", "divergent", "unchecked",
                          "incumbent_revoked", "incumbent_unknown", "neither_standing"}
    BY DEF Unsound
  <2> QED  BY <2>1 DEF Sound, DriftNames
<1>8. CASE e \in Sound
  <2>1. e \notin DOMAIN Unsound /\ e \notin DriftNames
    BY <1>7, <1>8
  <2>2. CASE e = "candidate"
    BY <1>1, <2>1, <2>2 DEF FixturesOf
  <2>3. CASE e = "refreshed"
    BY <1>5, <2>1, <2>3 DEF FixturesOf
  <2>4. CASE e = "rebuilt"
    BY <1>5, <2>1, <2>4 DEF FixturesOf
  <2>5. CASE e = "short"
    BY <1>5, <2>1, <2>5 DEF FixturesOf
  <2>6. CASE e = "rival"
    BY <2>1, <2>6, ValidIsShaped DEF FixturesOf
  <2>7. CASE e = "incumbent"
    BY <2>1, <2>7, ValidIsShaped DEF FixturesOf
  <2> QED  BY <1>8, <2>2, <2>3, <2>4, <2>5, <2>6, <2>7 DEF Sound
<1>9. CASE e \in DOMAIN Unsound
  <2>1. e \notin Sound /\ e \notin DriftNames
    BY <1>7, <1>9
  <2>2. FixturesOf(f)[e] =
            Resort(Attacked(Unsound[e][1], f), Unsound[e][2], Unsound[e][3])
    BY <1>9, <2>1 DEF FixturesOf, Sound
  <2> QED  BY <1>2, <1>3, <1>6, <1>9, <2>2
<1>10. CASE e \in DriftNames
  <2>1. e \notin Sound /\ e \notin DOMAIN Unsound
    BY <1>7, <1>10
  <2>2. FixturesOf(f)[e] = Attacked(e, f)
    BY <1>10, <2>1 DEF FixturesOf, Sound
  <2> QED  BY <1>6, <1>10, <2>2
<1> QED  BY <1>8, <1>9, <1>10 DEF FixtureNames

-----------------------------------------------------------------------------
(* What admit answers of the lab's fixtures is what the lifecycle expects. *)

\* A standing that admit gave: what it names, and for how long.
LEMMA AnswerIs ==
    ASSUME NEW e \in FixtureNames, NEW t \in Times
    PROVE  LET f == At(e, t)
               v == LabEvaluate(e, t)
           IN  /\ Shaped(f) /\ f.now = t /\ f.policy.policy_id = LabPolicyOf(e)
               /\ v = Reduced(Evaluation(f), LabClosureOf(e))
               /\ v.admission \in Verdicts /\ v.engine_mode \in {"READY", "HALTED"}
               /\ v.admission = "ALLOW" =>
                      /\ Allowed(f)
                      /\ v.standing = [policy |-> LabPolicyOf(e), closure |-> LabClosureOf(e),
                                       revalidate_by |-> RevalidateBy(f)]
               /\ v.admission # "ALLOW" => v.standing = None
<1> DEFINE f == At(e, t)
           v == LabEvaluate(e, t)
<1>1. t \in Int
  BY BoundsAssumption DEF Times
<1>2. Shaped(Fixtures[e])
  BY FixturesShaped
<1>3. Shaped(f) /\ f.now = t /\ f.policy.policy_id = LabPolicyOf(e)
  BY <1>1, <1>2 DEF At, Shaped, FixtureFields, LabPolicyOf
<1>4. v = Reduced(Evaluation(f), LabClosureOf(e))
  BY DEF LabEvaluate, Answers
<1> HIDE DEF f, v
<1>5. /\ v.admission = Evaluation(f).admission
      /\ v.engine_mode = Evaluation(f).engine_mode
  BY <1>4 DEF Reduced
<1>6. /\ Evaluation(f).admission \in Verdicts
      /\ Evaluation(f).engine_mode \in {"READY", "HALTED"}
  BY AdmitAnswers DEF IsTyped, Verdicts
<1>7. ASSUME v.admission = "ALLOW"
      PROVE  /\ Allowed(f)
             /\ v.standing = [policy |-> LabPolicyOf(e), closure |-> LabClosureOf(e),
                              revalidate_by |-> RevalidateBy(f)]
  <2>1. Evaluation(f).standing = Standing(f)
    BY <1>5, <1>7, AdmitAnswers DEF IsTyped
  <2>2. /\ Standing(f).policy_id = f.policy.policy_id
        /\ Standing(f).revalidate_by = RevalidateBy(f)
    BY DEF Standing
  <2> QED  BY <1>3, <1>4, <1>5, <1>7, <2>1, <2>2 DEF Reduced, Allowed
<1>8. v.admission # "ALLOW" => v.standing = None
  BY <1>4, <1>5 DEF Reduced
<1> QED  BY <1>3, <1>4, <1>5, <1>6, <1>7, <1>8 DEF f, v

\* The lab's evidence is evidence as the lifecycle takes it: what Harness
\* assumes of its parameters is true of admit's answers over the proof objects,
\* whatever the windows and the instants of the run.  So the theorems of
\* HarnessProofs are theorems of the composed lab, on no assumption about its
\* answers but that they are admit's (AdmissionEvaluation and Fixture in model.py).
THEOREM LabMeetsHarness == EvidenceTyped
<1> SUFFICES ASSUME NEW e \in Evidence
             PROVE  /\ ClosureOf(e) \notin {UnexpectedClosure, None}
                    /\ InterpretationBinds(e) \in BOOLEAN
                    /\ TargetInScope(e) \in BOOLEAN
                    /\ IncumbentStanding(e) \in Verdicts
                    /\ FallbackStanding(e) \in Verdicts \cup {None}
                    /\ \A t \in Times : Evaluate(e, t) \in Evaluations
  BY DEF EvidenceTyped
<1>1. e \in FixtureNames
  BY LabAssumption
<1>2. ClosureOf(e) \notin {UnexpectedClosure, None}
  <2>1. LabClosureOf(e) # UnexpectedClosure
    BY DEF LabClosureOf, UnexpectedClosure
  <2> QED  BY <1>1, <2>1, ClosureNames, CompositionAssumption
<1>3. InterpretationBinds(e) \in BOOLEAN /\ TargetInScope(e) \in BOOLEAN
  <2>1. LabInterpretationBinds(e) \in BOOLEAN
    BY DEF LabInterpretationBinds, InterpretationBound
  <2>2. LabTargetInScope(e) \in BOOLEAN
    BY DEF LabTargetInScope
  <2> QED  BY <2>1, <2>2, CompositionAssumption
<1>4. IncumbentStanding(e) \in Verdicts /\ FallbackStanding(e) \in Verdicts \cup {None}
  BY <1>1, FixturesShaped, CompositionAssumption
     DEF Shaped, LabIncumbentStanding, LabFallbackStanding
<1>5. ASSUME NEW t \in Times PROVE Evaluate(e, t) \in Evaluations
  <2> DEFINE v == LabEvaluate(e, t)
             f == At(e, t)
  <2>1. Evaluate(e, t) = v /\ PolicyOf(e) = LabPolicyOf(e) /\ ClosureOf(e) = LabClosureOf(e)
    BY CompositionAssumption
  <2>2. v.reason \in Reasons
    BY <2>1 DEF Reasons
  <2>3. /\ Shaped(f) /\ f.now = t
        /\ v = Reduced(Evaluation(f), LabClosureOf(e))
        /\ v.admission \in Verdicts /\ v.engine_mode \in {"READY", "HALTED"}
        /\ v.admission = "ALLOW" =>
               /\ Allowed(f)
               /\ v.standing = [policy |-> PolicyOf(e), closure |-> ClosureOf(e),
                                revalidate_by |-> RevalidateBy(f)]
        /\ v.admission # "ALLOW" => v.standing = None
    BY <1>1, <2>1, AnswerIs
  <2> HIDE DEF v, f
  <2>4. v = [admission |-> v.admission, reason |-> v.reason,
             engine_mode |-> v.engine_mode, standing |-> v.standing]
    BY <2>3 DEF Reduced
  <2>5. ASSUME v.admission = "ALLOW" PROVE v.standing \in Standings
    <3>1. Timed(f)
      BY <2>3 DEF Shaped, Timed, ObligationOK, WindowOK, ObservationOK, ContractOK
    <3>2. RevalidateBy(f) \in Int /\ f.now <= RevalidateBy(f)
      BY <2>3, <2>5, <3>1, AllowedByHorizon, HorizonIsEarliest
    <3>3. RevalidateBy(f) \in Nat
      <4>1. t \in Nat
        BY BoundsAssumption DEF Times
      <4> QED  BY <2>3, <3>2, <4>1
    <3>4. PolicyOf(e) \in Policies /\ ClosureOf(e) \in Closures
      BY DEF Policies, Closures
    <3> QED  BY <2>3, <2>5, <3>3, <3>4 DEF Standings
  <2>6. v.standing # None <=> v.admission = "ALLOW"
    BY <2>3, <2>5, BoundsAssumption
  <2> QED  BY <2>1, <2>2, <2>3, <2>4, <2>5, <2>6 DEF Evaluations
<1> QED  BY <1>2, <1>3, <1>4, <1>5

-----------------------------------------------------------------------------
(* From admission to consequence. *)

\* While the standing that admit gave on a fixture runs, admit would give it
\* again, grants' windows aside (harness.py:639-643).
LEMMA AnswerLasts ==
    ASSUME NEW e \in FixtureNames, NEW t \in Times, NEW u \in Times,
           LabEvaluate(e, t).standing # None,
           u < LabEvaluate(e, t).standing.revalidate_by
    PROVE  \/ LabEvaluate(e, u).admission = "ALLOW"
           \/ LabEvaluate(e, u).reason = "DELEGATION_EXPIRED"
<1> DEFINE f == At(e, t)
           g == At(e, u)
<1>1. t \in Int /\ u \in Int /\ Now - Span <= u
  BY BoundsAssumption, TimeAssumption, LabAssumption DEF Times
<1>2. Shaped(f) /\ g.now = u /\ Retimed(f, g)
  <2>1. Shaped(Fixtures[e])
    BY FixturesShaped
  <2> QED  BY <1>1, <2>1 DEF At, Shaped, FixtureFields, Retimed
<1>3. Timed(f) /\ f.obligation.window.valid_from <= u
  BY <1>1, <1>2 DEF Shaped, Timed, ObligationOK, WindowOK, ObservationOK, ContractOK
<1>4. Allowed(f) /\ LabEvaluate(e, t).standing.revalidate_by = RevalidateBy(f)
  <2> DEFINE v == LabEvaluate(e, t)
  <2>1. /\ v.admission = "ALLOW" =>
               /\ Allowed(f)
               /\ v.standing = [policy |-> LabPolicyOf(e), closure |-> LabClosureOf(e),
                                revalidate_by |-> RevalidateBy(f)]
        /\ v.admission # "ALLOW" => v.standing = None
    BY AnswerIs
  <2>2. v.standing # None
    OBVIOUS
  <2> HIDE DEF v, f
  <2>3. Allowed(f) /\ v.standing.revalidate_by = RevalidateBy(f)
    BY <2>1, <2>2
  <2> QED  BY <2>3 DEF v
<1>5. /\ LabEvaluate(e, u).admission = Evaluation(g).admission
      /\ LabEvaluate(e, u).reason = Evaluation(g).reason
  BY DEF LabEvaluate, Answers, Reduced
<1> HIDE DEF f, g
<1>6. Evaluation(g).admission = "ALLOW" \/ Evaluation(g).reason = "DELEGATION_EXPIRED"
  BY <1>1, <1>2, <1>3, <1>4, AllowLasts
<1> QED  BY <1>5, <1>6

\* The consequence that a commit brings about is under fresh evidence.
LEMMA EffectIsFresh ==
    ASSUME TypeOK, NEW r \in Requests, NEW flags \in FlagSets, CommitEffect(r, flags)
    PROVE  /\ evaluation[r] # None /\ decision[r] # None
           /\ Unamended(r) => \/ LabEvaluate(evidence[r], use_time).admission = "ALLOW"
                              \/ LabEvaluate(evidence[r], use_time).reason =
                                     "DELEGATION_EXPIRED"
<1>1. /\ evaluation[r] # None /\ evaluation[r].standing # None
      /\ decision[r] # None
      /\ ~(use_time >= evaluation[r].standing.revalidate_by)
  BY DEF CommitEffect, Current, Presented, Lapsed, Expired
<1>2. use_time < evaluation[r].standing.revalidate_by
  <2>1. use_time \in Nat /\ evaluation[r].standing.revalidate_by \in Nat
    BY <1>1, EvaluationType, BoundsAssumption DEF TypeOK, Times, Standings
  <2> QED  BY <1>1, <2>1
<1>3. use_time \in Times /\ evidence[r] \in FixtureNames
  BY LabAssumption DEF TypeOK
<1>4. ASSUME NEW t \in Times, LabEvaluate(evidence[r], t) = evaluation[r]
      PROVE  \/ LabEvaluate(evidence[r], use_time).admission = "ALLOW"
             \/ LabEvaluate(evidence[r], use_time).reason = "DELEGATION_EXPIRED"
  BY <1>1, <1>2, <1>3, <1>4, AnswerLasts
<1> QED  BY <1>1, <1>4 DEF Unamended

\* From admission to consequence, for every caller in every behaviour: when a
\* consequence takes place, the evidence of the caller it was committed for
\* would be admitted again at that instant, unless the caller has amended it
\* or a delegation has run out (harness.py:639-643, 858).
THEOREM FreshEvidence == Spec => ConsequenceUnderFreshEvidence
<1> DEFINE Fresh ==
      engine'.consequence_count # engine.consequence_count =>
          \E r \in Requests :
              /\ evaluation[r] # None /\ decision[r] # None
              /\ Unamended(r) =>
                     LET again == LabEvaluate(evidence[r], use_time) IN
                     \/ again.admission = "ALLOW"
                     \/ again.reason = "DELEGATION_EXPIRED"
<1>1. TypeOK /\ [Next]_vars => [Fresh]_vars
  <2> SUFFICES ASSUME TypeOK, Next, engine'.consequence_count # engine.consequence_count
               PROVE  \E r \in Requests, flags \in FlagSets : CommitEffect(r, flags)
    BY EffectIsFresh DEF vars
  <2>1. CASE Tick
    BY <2>1 DEF Tick
  <2>2. ASSUME NEW r \in Requests, NEW e \in Evidence, Amend(r, e) PROVE FALSE
    BY <2>2 DEF Amend
  <2>3. ASSUME NEW r \in Requests, Admit(r) PROVE FALSE
    BY <2>3 DEF Admit
  <2>4. ASSUME NEW r \in Requests, IssueDecision(r) PROVE FALSE
    BY <2>4 DEF IssueDecision, IssueOutOfScope, IssueNotAdmitted, IssueUnestablished,
                IssueExpired, Issue, Refuse
  <2>5. ASSUME NEW r \in Requests, Resolve(r) PROVE FALSE
    BY <2>5, ResolveReports
  <2>6. ASSUME NEW r \in Requests, NEW flags \in FlagSets, Activate(r, flags) PROVE FALSE
    BY <2>6, ActivateReports DEF Quiet, Marked, Overtaken
  <2>7. ASSUME NEW r \in Requests, NEW flags \in FlagSets, Commit(r, flags)
        PROVE  CommitEffect(r, flags)
    BY <2>7, CommitReports DEF Quiet, Overtaken
  <2> QED  BY <2>1, <2>2, <2>3, <2>4, <2>5, <2>6, <2>7 DEF Next
<1> QED  BY <1>1, TypeCorrect, PTL DEF Spec, ConsequenceUnderFreshEvidence

=============================================================================
