-------------------------------- MODULE Lab --------------------------------
(***************************************************************************)
(* The whole lab: the lifecycle of module Harness over the proof objects   *)
(* and the admission predicates of modules Records, Admission and Drifts.  *)
(* A fixture is named; its contents and what admit says of them at each    *)
(* instant are looked up.                                                  *)
(***************************************************************************)
EXTENDS Harness, Drifts, TLC

-----------------------------------------------------------------------------
(* The fixtures a caller may hold.  How callers come by them is the         *)
(* environment's doing: none of these changes is made by the program.      *)

\* The source is asked again a minute later, so the horizon moves on.
Refreshed(f) ==
    [f EXCEPT !.observation.observed_at = @ + 1, !.observation.next_update = @ + 1]

\* The candidate is built from another library, and approved as such.
Rebuilt(f) ==
    RebindApproval(
        [f EXCEPT !.closure.dependencies.rules_lib = "rules v2",
                  !.closure.runtime_dependencies.rules_lib = "rules v2",
                  !.closure.aggregate_digest =
                      Digest([root |-> PolicyDigest(f.policy),
                                    dependencies |-> [f.closure.dependencies EXCEPT
                                                          !.rules_lib = "rules v2"]])])

\* The activator's grant ends with the next minute.
Short(f) == [f EXCEPT !.register.grants.g_activate.window.valid_until = f.now + 1]

\* What has to be signed again for a mutation to reach the check it is aimed
\* at: the attacks sign as the principals would.
Resigned(d, f) ==
    CASE d \in {"approved_too_late", "approved_other_policy"} -> ResignApproval(f)
      [] d \in {"coverage_emptied", "derived_by_activator"} -> ResignDerivation(f)
      [] d \in {"absence_unwarranted", "predicate_not_permitted"} -> ResignContract(f)
      [] d \in {"runtime_dependency_changed", "parser_changed", "include_changed"} ->
            RebindApproval(f)
      [] OTHER -> f

Attacked(d, f) == Resigned(d, Drift(d, f))

\* Candidates that are attacked while their caller may have something to fall
\* back to: the mutation, the incumbent's standing and the fallback's.
Unsound ==
    [revoked           |-> <<"status_invalid", "ALLOW", "ALLOW">>,
     rogue             |-> <<"activator_rogue", "ALLOW", "DENY">>,
     divergent         |-> <<"executable_changed", "HOLD", "ALLOW">>,
     unchecked         |-> <<"checker_disabled", "DENY", "ALLOW">>,
     incumbent_revoked |-> <<"obligation_misclaimed", "DENY", None>>,
     incumbent_unknown |-> <<"obligation_misclaimed", "HOLD", None>>,
     neither_standing  |-> <<"obligation_misclaimed", "HOLD", "HOLD">>]

Resort(f, incumbent, fallback) ==
    [f EXCEPT !.incumbent_standing = incumbent, !.fallback_standing = fallback]

Sound == {"candidate", "rival", "incumbent", "refreshed", "rebuilt", "short"}
FixtureNames == Sound \cup DOMAIN Unsound \cup DriftNames

\* By name, every fixture made from one candidate; a mutation's own name is
\* that of the candidate that suffered it.
FixturesOf(candidate) == [e \in FixtureNames |->
    CASE e = "candidate" -> candidate
      [] e \in {"rival", "incumbent"} ->
            ValidFixture(IF e = "rival" THEN "policy-2" ELSE Incumbent)
      [] e = "refreshed" -> Refreshed(candidate)
      [] e = "rebuilt"   -> Rebuilt(candidate)
      [] e = "short"     -> Short(candidate)
      [] e \in DOMAIN Unsound ->
            Resort(Attacked(Unsound[e][1], candidate), Unsound[e][2], Unsound[e][3])
      [] e \in DriftNames -> Attacked(e, candidate)]

Fixtures == FixturesOf(ValidFixture("policy-1"))

\* The callers hold such fixtures, and begin inside the validity windows.
ASSUME LabAssumption == Evidence \subseteq FixtureNames /\ Now - Span <= Start

At(e, t) == [Fixtures[e] EXCEPT !.now = t]

-----------------------------------------------------------------------------
(* What Harness asks of a fixture. *)

LabPolicyOf(e) == Fixtures[e].policy.policy_id

\* The aggregate digest, by name.
LabClosureOf(e) ==
    CASE e = "incumbent" -> "closure of policy-0"
      [] e = "rival"     -> "closure of policy-2"
      [] e = "rebuilt"   -> "rebuilt closure of policy-1"
      [] OTHER           -> "closure of policy-1"

\* Names and digests tell the same closures apart, and no name is missing.
ASSUME ClosureNames ==
    \A d, e \in FixtureNames :
        /\ LabClosureOf(e) # None
        /\ (LabClosureOf(d) = LabClosureOf(e)) <=>
               (Fixtures[d].closure.aggregate_digest = Fixtures[e].closure.aggregate_digest)

\* admit's answer, its standing reduced to what it names and how long it runs.
Reduced(v, closure) ==
    [admission |-> v.admission, reason |-> v.reason, engine_mode |-> v.engine_mode,
     standing |-> IF v.admission = "ALLOW"
                  THEN [policy |-> v.standing.policy_id, closure |-> closure,
                        revalidate_by |-> v.standing.revalidate_by]
                  ELSE None]

Answers == [e \in FixtureNames |-> [t \in Times |->
                Reduced(Evaluation(At(e, t)), LabClosureOf(e))]]

LabEvaluate(e, t) == Answers[e][t]

ActivatorAuthority(f) ==
    Authorised(f, f.activation_principal, "ACTIVATE_POLICY", f.activation_grant_id,
                     f.policy.scope)

Authorities == [e \in FixtureNames |-> [t \in Times |-> ActivatorAuthority(At(e, t))]]

LabActivationAuthority(e, t) == Authorities[e][t]

LabInterpretationBinds(e) == InterpretationBound(Fixtures[e])

LabTargetInScope(e) == Fixtures[e].decision_target \in Fixtures[e].policy.scope.targets

LabIncumbentStanding(e) == Fixtures[e].incumbent_standing

LabFallbackStanding(e) == Fixtures[e].fallback_standing

\* What Harness asks of the evidence, these answer.
ASSUME CompositionAssumption ==
    \A e \in Evidence :
        /\ PolicyOf(e) = LabPolicyOf(e)
        /\ ClosureOf(e) = LabClosureOf(e)
        /\ InterpretationBinds(e) = LabInterpretationBinds(e)
        /\ TargetInScope(e) = LabTargetInScope(e)
        /\ IncumbentStanding(e) = LabIncumbentStanding(e)
        /\ FallbackStanding(e) = LabFallbackStanding(e)
        /\ \A t \in Times :
               /\ Evaluate(e, t) = LabEvaluate(e, t)
               /\ ActivationAuthority(e, t) = LabActivationAuthority(e, t)

-----------------------------------------------------------------------------
(* What the composition promises. *)

\* The fixture r holds is one that could have given it its evaluation.
Unamended(r) == \E t \in Times : LabEvaluate(evidence[r], t) = evaluation[r]

\* From admission to consequence: when a consequence takes place, the caller
\* it was committed for has evidence that admit would accept again at that
\* very instant, grants' windows aside, unless it has amended the evidence
\* since (the horizon of harness.py:639-643 seen through the guard at 858).
ConsequenceUnderFreshEvidence ==
    [][engine'.consequence_count # engine.consequence_count =>
           \E r \in Requests :
               /\ evaluation[r] # None /\ decision[r] # None
               /\ Unamended(r) =>
                      LET again == LabEvaluate(evidence[r], use_time) IN
                      \/ again.admission = "ALLOW"
                      \/ again.reason = "DELEGATION_EXPIRED"]_vars

-----------------------------------------------------------------------------
(* What the documents say and the code does not do: see the findings. *)

\* INTERFACES.md:77: the final guard binds observations and authority state,
\* and any change gives zero consequences.  So whoever has a consequence holds
\* evidence that admit would still accept, as of the instant it was judged at.
\* commit reads neither the register nor the observation.
ConsequenceUnderBoundAuthority ==
    [][engine'.consequence_count # engine.consequence_count =>
           \E r \in Requests :
               /\ evaluation[r] # None /\ decision[r] # None
               /\ LabEvaluate(evidence[r], now).admission = "ALLOW"]_vars

=============================================================================
