----------------------------- MODULE Scenarios -----------------------------
(***************************************************************************)
(* The attack register: for each of its 59 rows the script of              *)
(* scenarios.run_attack plays one sequence of calls on a fresh fixture and *)
(* a fresh engine, and the typed oracle of types.py judges what it hands   *)
(* back; the two controls follow (cli.run).                                *)
(***************************************************************************)
EXTENDS Lab, Sequences

CONSTANT Caller     \* the one call chain of a script

ASSUME CallerAssumption == Requests = {Caller}

VARIABLES
    attack,         \* the script under way: 1..59, then the two controls
    step,           \* its next step
    answer,         \* what the harness answered last in it, or None
    returned,       \* what the script will hand back
    passed          \* the scripts that passed so far

scriptVars == <<attack, step, answer, returned, passed>>

-----------------------------------------------------------------------------
(* Outcomes with the predicate they blame, and the typed oracle. *)

Blaming(report, predicate) == report @@ [predicate |-> predicate]

Demand(admission, reason, predicate) ==
    Blaming(Report(admission, reason, "NOT_ATTEMPTED", "READY"), predicate)

D(reason, predicate) == Demand("DENY", reason, predicate)
H(reason, predicate) == Demand("HOLD", reason, predicate)
A(reason, predicate) == Demand("ALLOW", reason, predicate)

Halting(demand) == [demand EXCEPT !.operational = "HALTED", !.engine_mode = "HALTED"]
Broken(demand) ==
    [demand EXCEPT !.operational = "INTEGRITY_FAILURE", !.engine_mode = "HALTED"]
Running(demand) == [Activated(demand) EXCEPT !.engine_mode = "ACTIVE"]

\* Every row fills every field, and allows one value in each.
AttackRegister == <<
    D("DERIVED_SCOPE_EXCEEDS_SOURCE", "obligation_scope"),
    D("ISSUER_NOT_AUTHORISED", "obligation_issuer_authority"),
    D("DELEGATION_EXPIRED", "obligation_issuer_authority"),
    D("DERIVED_SCOPE_EXCEEDS_SOURCE", "obligation_scope"),
    D("JURISDICTION_NOT_COVERED_BY_OBLIGATION", "obligation_scope"),
    D("SOURCE_OBLIGATION_SUPERSEDED", "revocation_current"),
    D("SUPERSEDED_VERSION_REPLAY", "policy_version"),
    H("DERIVATION_ABSENT_OR_UNVERIFIABLE", "derivation_attestation"),
    D("APPROVAL_AFTER_USE", "approval_temporal_order"),
    D("APPROVAL_NOT_BOUND_TO_ARTEFACT", "approval_binding"),
    Running(D("TARGET_OUT_OF_SCOPE", "decision_target")),
    D("SELF_AUTHORISATION", "obligation_issuer_authority"),
    H("DERIVATION_UNSUPPORTED", "total_rule_coverage"),
    H("UNRESOLVED_CONFLICT_UNDECLARED", "conflict_resolution"),
    D("EXCEPTION_GENERALISED", "policy_exception_scope"),
    D("APPROVAL_INHERITED_ACROSS_CHANGE", "approval_binding"),
    D("DECISION_POLICY_NOT_ADMITTED", "policy_admission"),
    D("ENFORCEMENT_ADMISSION_TOKEN_MISSING", "enforcement_admission_token"),
    Halting(D("UNADMITTED_ACTIVE_POLICY", "declared_activation_surface")),
    D("RECEIPT_REPLAY", "receipt_currentness"),
    D("INCUMBENT_REVOKED", "incumbent_current_standing"),
    H("INCUMBENT_STANDING_UNKNOWN", "incumbent_current_standing"),
    Running(H("STANDING_EXPIRED", "standing_current")),
    Running(H("STANDING_EXPIRED", "standing_current")),
    H("SNAPSHOT_COHERENCE_FAILED", "atomic_snapshot"),
    D("CLOSURE_MISMATCH", "executable_closure"),
    Broken(D("RECEIPT_STATE_DISAGREEMENT", "activation_integrity")),
    D("AUTHORITY_ROLE_SUBSTITUTION", "derive_operation_authority"),
    D("AUTHORITY_REGISTER_ROLLBACK", "authority_register_lineage"),
    D("OBLIGATION_CONTENT_DIGEST_MISMATCH", "obligation_identity"),
    H("REVOCATION_SOURCE_UNAVAILABLE", "revocation_current"),
    Halting(Activated(D("UNMODELLED_CONSEQUENCE_ROUTE", "bounded_non_bypassability"))),
    H("NO_POLICY_STANDING", "fallback_current_standing"),
    H("TCB_VERSION_MISMATCH", "trusted_computing_base"),
    D("DERIVATION_SIGNATURE_INVALID", "derivation_attestation"),
    D("AUTHORITY_ROLE_SUBSTITUTION", "activate_operation_authority"),
    Broken(A("ACTIVATION_READBACK_MISMATCH", "activation_integrity")),
    D("UNMAPPED_EXECUTABLE_RULE", "total_rule_coverage"),
    H("RULE_SET_UNRESOLVED", "total_rule_coverage"),
    H("SCOPE_EVALUATOR_MISMATCH", "canonical_scope"),
    H("WRONG_SOURCE", "observation_source"),
    D("OBSERVATION_CONTRACT_MISMATCH", "observation_jurisdiction"),
    H("NEGATIVE_EVIDENCE_UNWARRANTED", "revocation_current"),
    D("INTERPRETATION_VERSION_MISMATCH", "interpretation_identity"),
    D("LOADED_CLOSURE_MISMATCH", "interpretation_identity"),
    Broken(A("CHECKED_EXECUTED_INTERPRETATION_MISMATCH",
             "activation_interpretation_integrity")),
    Running(H("STANDING_EXPIRED", "standing_current")),
    [A("STATE_INDETERMINATE", "engine_state_observation")
        EXCEPT !.operational = "STATE_INDETERMINATE", !.engine_mode = "QUARANTINED"],
    [Running(A("TRANSACTION_CONFLICT", "activation_compare_and_swap"))
        EXCEPT !.operational = "TRANSACTION_CONFLICT"],
    H("SOURCE_STALE", "revocation_current"),
    Running(A("NO_AUTHORITY_TO_COMMIT", "commit_authority")),
    Broken(Activated(A("ADAPTER_INSTANCE_MISMATCH", "commit_adapter_consistency"))),
    A("RECEIPT_INTEGRITY_INVALID", "receipt_custody"),
    H("RELEASE_IDENTITY_MISMATCH", "build_test_release_identity"),
    Halting(D("PROOF_GRAPH_CYCLE", "proof_graph")),
    Halting(D("INVALID_DEPENDENCY_ORDER", "proof_graph")),
    Halting(D("PROOF_GRAPH_INCOMPLETE", "proof_graph_manifest")),
    D("OBSERVATION_CONTRACT_MISMATCH", "observation_jurisdiction"),
    [Running(A("COMMIT_PRECONDITION_CONFLICT", "final_commit_guard"))
        EXCEPT !.operational = "COMMIT_PRECONDITION_CONFLICT"] >>

Attacks == DOMAIN AttackRegister
PositiveControl == 60
CheckerDisabled == 61
Scripts == Attacks \cup {PositiveControl, CheckerDisabled}

\* oracle_mode REJECT_WRONG_REASON: a wrong implementation, to be rejected.
MustBeRejected(a) == a = 50

\* What the oracle compares; it does not ask for the consequence count.
Compared == {"admission", "operational", "reason", "predicate", "activated", "committed",
             "engine_mode"}

Mismatches(row, out) == {k \in Compared : out[k] # row[k]}

\* evaluate_oracle
Passes(a, out) ==
    IF MustBeRejected(a)
    THEN Mismatches(AttackRegister[a], out) # {} /\ out.admission = AttackRegister[a].admission
    ELSE Mismatches(AttackRegister[a], out) = {}

\* cli.run asks the controls for what they must show and no more.
Accepted(a, out) ==
    CASE a \in Attacks -> Passes(a, out)
      [] a = PositiveControl -> out.committed /\ out.consequence_count = 1
      [] a = CheckerDisabled -> out.reason = "CHECKER_DISABLED" /\ out.engine_mode = "HALTED"

-----------------------------------------------------------------------------
(* Receipts: a signed digest of the content they report. *)

MakeReceipt(content) ==
    [content |-> content, content_digest |-> Digest(content),
     signature |-> Sign("receipt-signer", Digest(content)),
     signer |-> "receipt-signer"]

\* Mutant of ValidateReceipt: the content is not digested again.
ValidateSignature(receipt) ==
    Verify(receipt.signer, receipt.content_digest, receipt.signature)

ValidateReceipt(receipt) ==
    /\ receipt.content_digest = Digest(receipt.content)
    /\ Verify(receipt.signer, receipt.content_digest, receipt.signature)

\* A receipt of the refusal, altered in custody to say the opposite.
TamperedReceipt == [MakeReceipt([decision |-> "DENY"]) EXCEPT !.content.decision = "ALLOW"]

-----------------------------------------------------------------------------
(* The scripts: what each does, call by call. *)

Step(call, with) == [call |-> call, with |-> with]

Amending(e) == Step("amend", e)
Admitting == Step("admit", None)
Activating(flags) == Step("activate", flags)
Deciding(authoritative) == Step("decide", authoritative)
Committing(flags) == Step("commit", flags)
Waiting == Step("wait", None)
Resolving == Step("resolve", None)

\* The script alters what the harness answered.
Rewriting(fields) == Step("rewrite", fields)

\* The script hands back an outcome of its own, having asserted something.
Constructing(asserted, out) == Step("construct", [asserted |-> asserted, out |-> out])

\* Scripts that mutate one thing and ask for admission.
Mutation ==
    1 :> "target_elsewhere" @@ 2 :> "issuer_grant_deleted" @@ 3 :> "issuer_grant_expired"
    @@ 4 :> "target_widened" @@ 5 :> "jurisdiction_changed" @@ 6 :> "status_invalid"
    @@ 7 :> "policy_superseded" @@ 8 :> "derivation_absent" @@ 9 :> "approved_too_late"
    @@ 10 :> "approved_other_policy" @@ 12 :> "issuer_grant_self_authored"
    @@ 13 :> "coverage_emptied" @@ 14 :> "conflict_undeclared"
    @@ 15 :> "exception_generalised" @@ 16 :> "design_changed" @@ 25 :> "snapshot_race"
    @@ 26 :> "runtime_dependency_changed" @@ 28 :> "derived_by_activator"
    @@ 29 :> "register_rolled_back" @@ 30 :> "source_bytes_changed"
    @@ 31 :> "source_unavailable" @@ 34 :> "tcb_changed" @@ 35 :> "assumptions_changed"
    @@ 38 :> "rule_unmapped" @@ 39 :> "rules_unknown" @@ 40 :> "scope_evaluator_changed"
    @@ 41 :> "source_substituted" @@ 42 :> "role_substituted"
    @@ 43 :> "absence_unwarranted" @@ 44 :> "parser_changed" @@ 45 :> "include_changed"
    @@ 58 :> "predicate_not_permitted" @@ CheckerDisabled :> "checker_disabled"

\* _activated_flow, and what most scripts do after it.
Flow == <<Admitting, Activating({})>>
DecidedFlow == Flow \o <<Deciding(TRUE)>>

\* Past the horizon, which is the minute after the fixture's now.
PastHorizon == <<Waiting, Waiting>>

UseScript(a) ==
    CASE a = 11 -> Flow \o <<Amending("target_out_of_scope"), Deciding(TRUE)>>
      [] a = 17 -> <<Admitting, Deciding(TRUE)>>
      [] a = 18 -> <<Admitting, Deciding(TRUE),
                     Rewriting([reason |-> "ENFORCEMENT_ADMISSION_TOKEN_MISSING",
                                predicate |-> "enforcement_admission_token"])>>
      [] a = 23 -> Flow \o PastHorizon \o <<Deciding(TRUE)>>
      [] a \in {24, 47} -> DecidedFlow \o PastHorizon \o <<Committing({})>>
      [] a = 32 -> DecidedFlow \o <<Committing({"hidden_commit_route"})>>
      [] a = 51 -> Flow \o <<Deciding(FALSE), Committing({"diagnostic_authority"})>>
      [] a = 52 -> DecidedFlow \o <<Committing({"adapter_mismatch"})>>
      [] a = 59 -> DecidedFlow \o <<Committing({"mutate_after_guard"})>>
      [] a = PositiveControl -> DecidedFlow \o <<Committing({})>>

ActivationScript(a) ==
    CASE a = 27 -> <<Amending("obligation_misclaimed"), Admitting,
                     Activating({"partial_activation"})>>
      [] a = 36 -> <<Admitting, Amending("activator_rogue"), Activating({})>>
      [] a = 37 -> <<Admitting, Activating({"readback_mismatch"})>>
      [] a = 46 -> <<Admitting, Amending("executable_changed"), Activating({})>>
      [] a = 48 -> <<Admitting, Activating({"state_indeterminate"})>>
      [] a = 49 -> Flow \o <<Activating({"transaction_conflict"}),
                             Rewriting([activated |-> TRUE, engine_mode |-> "ACTIVE"])>>

\* The standings of incumbent and fallback are set after the candidate failed;
\* admit reads neither.
FallbackScript(a) ==
    LET After(e) == <<Amending("obligation_misclaimed"), Admitting, Amending(e), Resolving>>
    IN
    CASE a = 21 -> After("incumbent_revoked")
      [] a = 22 -> After("incumbent_unknown")
      [] a = 33 -> After("neither_standing")
                   \o <<Rewriting([reason |-> "NO_POLICY_STANDING",
                                   predicate |-> "fallback_current_standing"])>>

\* These hand back what they wrote themselves, the graph's reasons aside.
ConstructedScript(a) ==
    LET Graph(reason, predicate) ==
            <<Constructing(reason # "PROOF_GRAPH_VALID", Halting(D(reason, predicate)))>>
    IN
    CASE a = 19 -> <<Step("tamper", None),
                     Constructing(TRUE, Halting(D("UNADMITTED_ACTIVE_POLICY",
                                                  "declared_activation_surface")))>>
      [] a = 20 -> <<Constructing(TRUE, D("RECEIPT_REPLAY", "receipt_currentness"))>>
      [] a = 50 -> <<Constructing(TRUE, H("CONFIGURATION_MISSING", "configuration"))>>
      [] a = 53 -> <<Constructing(~ValidateReceipt(TamperedReceipt),
                                  A("RECEIPT_INTEGRITY_INVALID", "receipt_custody"))>>
      [] a = 54 -> <<Constructing(TRUE, H("RELEASE_IDENTITY_MISMATCH",
                                          "build_test_release_identity"))>>
      [] a = 55 -> Graph(CyclicGraph, "proof_graph")
      [] a = 56 -> Graph(SelfGraph, "proof_graph")
      [] a = 57 -> Graph(TruncatedGraph, "proof_graph_manifest")

Script ==
    [a \in Scripts |->
        CASE a \in DOMAIN Mutation -> <<Amending(Mutation[a]), Admitting>>
          [] a \in {27, 36, 37, 46, 48, 49} -> ActivationScript(a)
          [] a \in {21, 22, 33} -> FallbackScript(a)
          [] a \in {19, 20, 50, 53, 54, 55, 56, 57} -> ConstructedScript(a)
          [] OTHER -> UseScript(a)]

-----------------------------------------------------------------------------
(* The predicate that each call blames, by its reason. *)

ActivationPredicates ==
    [RECEIPT_STATE_DISAGREEMENT |-> "activation_integrity",
     CHECKED_EXECUTED_INTERPRETATION_MISMATCH |-> "activation_interpretation_integrity",
     TRANSACTION_CONFLICT |-> "activation_compare_and_swap",
     TRANSACTION_FAILURE |-> "activation_transaction",
     STATE_INDETERMINATE |-> "engine_state_observation",
     ACTIVATION_READBACK_MISMATCH |-> "activation_integrity",
     ACTIVATION_COMMITTED |-> ""]

DecisionPredicates ==
    [TARGET_OUT_OF_SCOPE |-> "decision_target",
     DECISION_POLICY_NOT_ADMITTED |-> "policy_admission",
     CURRENT_STANDING_UNESTABLISHED |-> "standing",
     STANDING_EXPIRED |-> "standing_current", DECISION_RECORD_ISSUED |-> ""]

CommitPredicates ==
    [UNMODELLED_CONSEQUENCE_ROUTE |-> "bounded_non_bypassability",
     DECISION_RECORD_MISSING |-> "commit_authority",
     NO_AUTHORITY_TO_COMMIT |-> "commit_authority",
     CURRENT_STANDING_UNESTABLISHED |-> "standing_current",
     STANDING_EXPIRED |-> "standing_current",
     STATE_INDETERMINATE |-> "engine_state_observation",
     ENGINE_HALTED |-> "operational_integrity",
     ADAPTER_INSTANCE_MISMATCH |-> "commit_adapter_consistency",
     COMMIT_PRECONDITION_CONFLICT |-> "final_commit_guard",
     GOVERNED_CONSEQUENCE_COMMITTED |-> ""]

ResolutionPredicates ==
    [INCUMBENT_REVOKED |-> "incumbent_current_standing",
     INCUMBENT_STANDING_UNKNOWN |-> "incumbent_current_standing",
     FALLBACK_INDEPENDENTLY_ESTABLISHED |-> "",
     NO_POLICY_STANDING |-> "fallback_current_standing"]

AdmissionPredicates ==
    [e \in FixtureNames, t \in Times |-> Evaluation(At(e, t)).predicate]

\* What is in no table of a call is a reason of the register's authority, or
\* the candidate's own answer, given back.
Blamed(predicates, reason) ==
    IF reason \in DOMAIN predicates THEN predicates[reason]
    ELSE IF Admitted(Caller) THEN "activate_operation_authority"
    ELSE answer.predicate

-----------------------------------------------------------------------------
(* One script after the other: how run_attack's statements become steps. *)

Doing(call) == step <= Len(Script[attack]) /\ Script[attack][step].call = call

With == Script[attack][step].with

Advance == step' = step + 1 /\ UNCHANGED <<attack, passed>>

Answered(predicates) ==
    /\ answer' = Blaming(outcome', Blamed(predicates, outcome'.reason))
    /\ returned' = answer'
    /\ Advance

Prepare ==
    /\ \/ Doing("amend") /\ Amend(Caller, With)
       \/ Doing("wait") /\ Tick /\ now' = now
    /\ UNCHANGED <<answer, returned>>
    /\ Advance

CallAdmit ==
    /\ Doing("admit")
    /\ Admit(Caller)
    /\ answer' = Blaming(outcome', AdmissionPredicates[evidence[Caller], now])
    /\ returned' = answer'
    /\ Advance

CallActivate ==
    /\ Doing("activate")
    /\ Activate(Caller, With)
    /\ Answered(ActivationPredicates)

CallIssueDecision ==
    /\ Doing("decide")
    /\ IssueDecision(Caller)
    /\ decision'[Caller] # None => decision'[Caller].authority_to_commit = With
    /\ Answered(DecisionPredicates)

CallCommit ==
    /\ Doing("commit")
    /\ Commit(Caller, With)
    /\ Answered(CommitPredicates)

CallResolve ==
    /\ Doing("resolve")
    /\ Resolve(Caller)
    /\ Answered(ResolutionPredicates)

Rewrite ==
    /\ Doing("rewrite")
    /\ returned' = With @@ returned
    /\ UNCHANGED <<vars, answer>>
    /\ Advance

\* The slot is written behind the harness's back.
Tamper ==
    /\ Doing("tamper")
    /\ engine' = [engine EXCEPT !.policy = PolicyOf(evidence[Caller]),
                                !.closure = ClosureOf(evidence[Caller]),
                                !.mode = "HALTED"]
    /\ UNCHANGED <<evidence, now, use_time, evaluation, decision, records, outcome,
                   answer, returned>>
    /\ Advance

\* A failed assertion ends the program.
Construct ==
    /\ Doing("construct")
    /\ With.asserted
    /\ returned' = With.out
    /\ UNCHANGED <<vars, answer>>
    /\ Advance

Judging == attack \in Scripts /\ step > Len(Script[attack])

\* The next script starts with a new harness and a valid_fixture() of its own.
Judge ==
    /\ Judging
    /\ passed' = IF Accepted(attack, returned) THEN passed \cup {attack} ELSE passed
    /\ attack' = attack + 1 /\ step' = 1
    /\ answer' = None /\ returned' = None
    /\ evidence' = [r \in Requests |-> "candidate"]
    /\ now' = Start /\ use_time' = Start
    /\ engine' = InitialEngine
    /\ evaluation' = [r \in Requests |-> None] /\ decision' = [r \in Requests |-> None]
    /\ records' = {} /\ outcome' = None

RegisterInit ==
    /\ Init /\ evidence = [r \in Requests |-> "candidate"]
    /\ attack = 1 /\ step = 1 /\ answer = None /\ returned = None /\ passed = {}

\* The program has written its report.
Finished == attack \notin Scripts /\ UNCHANGED <<vars, scriptVars>>

RegisterNext ==
    \/ attack \in Scripts /\ ( \/ Prepare \/ CallAdmit \/ CallActivate
                               \/ CallIssueDecision \/ CallCommit \/ CallResolve
                               \/ Rewrite \/ Tamper \/ Construct )
    \/ Judge
    \/ Finished

RegisterSpec == RegisterInit /\ [][RegisterNext]_<<vars, scriptVars>>

-----------------------------------------------------------------------------
(* Properties. *)

\* Every script that was judged passed: each attack got exactly the verdict,
\* reason, predicate, operational result and engine mode of its row, whatever
\* the other 58 checks would have said, and both controls held
\* (test_attack_register.py, test_controls.py, the exit code of cli.py:60).
RegisterPasses == passed = 1..(attack - 1)

\* Only the positive control has a consequence, in the engine itself and by
\* what a script hands back (test_attack_register.py:37 asks the outcome: "an
\* attack fixture committed a governed consequence").
OnlyControlCommits ==
    /\ engine.consequence_count > 0 => attack = PositiveControl
    /\ Judging /\ returned.consequence_count > 0 => attack = PositiveControl

\* A script that reports the candidate active leaves it in the engine's slot,
\* with the closure its fixture describes, though the outcomes at
\* harness.py:853, 864 and 921 say so without looking.
ReportedActivationIsReal ==
    Judging /\ returned.activated =>
        /\ engine.policy = PolicyOf(evidence[Caller])
        /\ engine.closure = ClosureOf(evidence[Caller])

\* No assertion of a script fails: a receipt altered in custody is told from
\* the one that was signed, and no attacked graph is taken for valid
\* (scenarios.py:284, 300, 314, 325).
AssertionsHold == attack \in Scripts /\ Doing("construct") => With.asserted

-----------------------------------------------------------------------------
(* What the documents say and the code does not do: see the findings. *)

\* attack-register.json: a row's engine_modes.  Where a row demands a stopped
\* engine of a script that called the harness, the engine is in that mode.
\* harness.py:737 and 842 report HALTED of an engine they leave running.
EngineIsAsDemanded ==
    /\ Judging /\ attack \in Attacks /\ ~MustBeRejected(attack) /\ answer # None
    /\ AttackRegister[attack].engine_mode \in StoppedModes
    => engine.mode = AttackRegister[attack].engine_mode

=============================================================================
