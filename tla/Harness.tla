------------------------------ MODULE Harness ------------------------------
(***************************************************************************)
(* The lifecycle of AdmissionHarness: admit, activate, issue_decision,     *)
(* commit and resolve_after_candidate_failure, called in any order by any  *)
(* number of call chains that share one EngineState.  What the calls learn *)
(* from the proof objects is a parameter (Evaluate, ActivationAuthority,   *)
(* ...); module Lab fills it in with module Admission.                     *)
(*                                                                         *)
(* A call chain r is what one caller holds: the fixture it passes and the  *)
(* evaluation and the decision it got back.  The calls themselves are      *)
(* atomic (the program has one thread); between two of them time passes,   *)
(* the caller may amend its fixture, and other chains make their calls.    *)
(***************************************************************************)
EXTENDS Oracle, Integers, FiniteSets

CONSTANTS
    Requests,                   \* the call chains
    Evidence,                   \* what a fixture's proof objects may say
    FlagSets,                   \* the test hooks a call may find raised
    Start,                      \* the instant at which the lab begins
    MaxTime, MaxSlotVersion, MaxStateVersion,   \* bounds, for TLC
    PolicyOf(_),                \* policy.policy_id
    ClosureOf(_),               \* closure.aggregate_digest
    Evaluate(_, _),             \* admit, at an instant
    ActivationAuthority(_, _),  \* _authorised(ACTIVATE_POLICY), at an instant
    InterpretationBinds(_),     \* _validate_interpretation
    TargetInScope(_),           \* decision_target in policy.scope.targets
    IncumbentStanding(_),       \* fixture.incumbent_standing
    FallbackStanding(_)         \* fixture.fallback_standing, or None

Incumbent == "policy-0"
IncumbentClosure == "closure-0"
UnexpectedClosure == "closure-unexpected"

Times == Start..MaxTime
Policies == {PolicyOf(e) : e \in Evidence} \cup {Incumbent}
Closures == {ClosureOf(e) : e \in Evidence}
            \cup {IncumbentClosure, UnexpectedClosure, None}
Modes == {"READY", "ACTIVE", "HALTED", "QUARANTINED"}
OperationalResults ==
    {"NOT_ATTEMPTED", "COMMITTED", "TRANSACTION_CONFLICT", "TRANSACTION_FAILURE",
     "INTEGRITY_FAILURE", "STATE_INDETERMINATE", "COMMIT_PRECONDITION_CONFLICT",
     "HALTED"}

\* The test hooks that activate and commit look for in fixture.flags.
Flags == {"partial_activation", "transaction_conflict", "transaction_failure",
          "state_indeterminate", "readback_mismatch", "hidden_commit_route",
          "diagnostic_authority", "adapter_mismatch", "mutate_after_guard"}

\* The typed reasons: those of the calls that follow admit, and those
\* the evidence gives for a verdict or against an authority.
Reasons ==
    {"RECEIPT_STATE_DISAGREEMENT", "CHECKED_EXECUTED_INTERPRETATION_MISMATCH",
     "TRANSACTION_CONFLICT", "TRANSACTION_FAILURE", "STATE_INDETERMINATE",
     "ACTIVATION_READBACK_MISMATCH", "ACTIVATION_COMMITTED", "TARGET_OUT_OF_SCOPE",
     "DECISION_POLICY_NOT_ADMITTED", "CURRENT_STANDING_UNESTABLISHED",
     "STANDING_EXPIRED", "DECISION_RECORD_ISSUED", "UNMODELLED_CONSEQUENCE_ROUTE",
     "DECISION_RECORD_MISSING", "NO_AUTHORITY_TO_COMMIT", "ENGINE_HALTED",
     "ADAPTER_INSTANCE_MISMATCH", "COMMIT_PRECONDITION_CONFLICT",
     "GOVERNED_CONSEQUENCE_COMMITTED", "INCUMBENT_REVOKED",
     "INCUMBENT_STANDING_UNKNOWN", "FALLBACK_INDEPENDENTLY_ESTABLISHED",
     "NO_POLICY_STANDING"}
    \cup {Evaluate(e, t).reason : e \in Evidence, t \in Times}
    \cup {ActivationAuthority(e, t) : e \in Evidence, t \in Times}

\* An EngineState: what the proofs and the types say of its one instance.
Engines == [slot_version : Nat, state_version : Nat, policy : Policies,
            closure : Closures, mode : Modes, admitted : SUBSET Policies,
            consequence_count : Nat]

\* A StandingRecord, with the policy and closure its snapshot digests.
Standings == [policy : Policies, closure : Closures, revalidate_by : Nat]

\* An AdmissionEvaluation: standing exactly when the verdict is ALLOW.
Evaluations ==
    {v \in [admission : Verdicts, reason : Reasons, engine_mode : {"READY", "HALTED"},
            standing : Standings \cup {None}] :
        v.standing # None <=> v.admission = "ALLOW"}

\* A DecisionRecord.
Decisions == [policy : Policies, authority_to_commit : BOOLEAN, validity_limit : Nat]

\* An Outcome.
Outcomes == [admission : Verdicts, reason : Reasons, operational : OperationalResults,
             engine_mode : Modes, activated : BOOLEAN, committed : BOOLEAN,
             consequence_count : Nat]

ASSUME BoundsAssumption ==
    /\ Start \in Nat /\ MaxTime \in Nat /\ Start <= MaxTime
    /\ MaxSlotVersion \in Nat /\ MaxStateVersion \in Nat
    /\ FlagSets \subseteq SUBSET Flags
    /\ None \notin Standings /\ None \notin Evaluations
    /\ None \notin Decisions /\ None \notin Outcomes

\* What the proof objects answer is well typed.
EvidenceTyped ==
    \A e \in Evidence :
        /\ ClosureOf(e) \notin {UnexpectedClosure, None}
        /\ InterpretationBinds(e) \in BOOLEAN
        /\ TargetInScope(e) \in BOOLEAN
        /\ IncumbentStanding(e) \in Verdicts
        /\ FallbackStanding(e) \in Verdicts \cup {None}
        /\ \A t \in Times : Evaluate(e, t) \in Evaluations

ASSUME EvidenceAssumption == EvidenceTyped

VARIABLES
    evidence,       \* [r -> what chain r's fixture says]
    now,            \* fixture.now: the instant admissions and grants are judged at
    use_time,       \* fixture.use_time or fixture.now: the instant of use
    engine,         \* fixture.engine, the one EngineState
    evaluation,     \* [r -> the AdmissionEvaluation last returned to r, or None]
    decision,       \* [r -> the DecisionRecord last returned to r, or None]
    records,        \* every ActivationRecord returned so far
    outcome         \* the Outcome of the call just made, or None

vars == <<evidence, now, use_time, engine, evaluation, decision, records, outcome>>

-----------------------------------------------------------------------------
(* What calls return. *)

\* _outcome with its defaults.
Report(admission, reason, operational, engine_mode) ==
    [admission |-> admission, reason |-> reason, operational |-> operational,
     engine_mode |-> engine_mode, activated |-> FALSE, committed |-> FALSE,
     consequence_count |-> 0]

\* A report that says the candidate is active.
Activated(report) == [report EXCEPT !.activated = TRUE]

\* Mutant of Verdict: reason and operational result change places.
VerdictSwapped(v) == Report(v.admission, "NOT_ATTEMPTED", v.reason, v.engine_mode)

\* The outcome an evaluation carries.
Verdict(v) == Report(v.admission, v.reason, "NOT_ATTEMPTED", v.engine_mode)

\* What a state digest covers of the engine.
StateDigest(eng) ==
    [slot_version |-> eng.slot_version, policy |-> eng.policy,
     closure |-> eng.closure, state_version |-> eng.state_version, mode |-> eng.mode]

HasStanding(v) == v.admission = "ALLOW" /\ v.standing # None

-----------------------------------------------------------------------------
(* The environment: what happens between two calls. *)

\* Time passes; the fixture's own now follows only when the caller sets it.
Tick ==
    /\ use_time < MaxTime
    /\ use_time' = use_time + 1
    /\ now' \in {now, use_time + 1}
    /\ outcome' = None
    /\ UNCHANGED <<evidence, engine, evaluation, decision, records>>

\* The caller changes or replaces proof objects of its fixture.
Amend(r, e) ==
    /\ e # evidence[r]
    /\ evidence' = [evidence EXCEPT ![r] = e]
    /\ outcome' = None
    /\ UNCHANGED <<now, use_time, engine, evaluation, decision, records>>

-----------------------------------------------------------------------------
(* admit *)

Admit(r) ==
    /\ evaluation' = [evaluation EXCEPT ![r] = Evaluate(evidence[r], now)]
    /\ outcome' = Verdict(evaluation'[r])
    /\ UNCHANGED <<evidence, now, use_time, engine, decision, records>>

-----------------------------------------------------------------------------
(* activate *)

Fail(r, report) ==
    /\ outcome' = report
    /\ UNCHANGED <<evidence, now, use_time, evaluation, decision, records>>

ActivateRefused(r, flags) ==
    /\ evaluation[r] # None /\ ~HasStanding(evaluation[r])
    /\ "partial_activation" \notin flags
    /\ Fail(r, Verdict(evaluation[r]))
    /\ UNCHANGED engine

\* Mutant of PartlyInstalled: the engine is not halted.
PartlyInstalledRunning(e) ==
    [engine EXCEPT !.policy = PolicyOf(e), !.slot_version = @ + 1]

\* The slot moved although the candidate was refused.
PartlyInstalled(e) ==
    [engine EXCEPT !.policy = PolicyOf(e), !.slot_version = @ + 1, !.mode = "HALTED"]

\* Mutant of ActivatePartial: the refusal is reported as if nothing had moved.
ActivatePartialSilent(r, flags) ==
    /\ evaluation[r] # None /\ ~HasStanding(evaluation[r])
    /\ "partial_activation" \in flags
    /\ engine.slot_version < MaxSlotVersion
    /\ engine' = PartlyInstalled(evidence[r])
    /\ Fail(r, Verdict(evaluation[r]))

ActivatePartial(r, flags) ==
    /\ evaluation[r] # None /\ ~HasStanding(evaluation[r])
    /\ "partial_activation" \in flags
    /\ engine.slot_version < MaxSlotVersion
    /\ engine' = PartlyInstalled(evidence[r])
    /\ Fail(r, Report(evaluation[r].admission, "RECEIPT_STATE_DISAGREEMENT",
                      "INTEGRITY_FAILURE", "HALTED"))

Admitted(r) == evaluation[r] # None /\ HasStanding(evaluation[r])

Authority(r) == ActivationAuthority(evidence[r], now)

ActivateUnauthorised(r) ==
    /\ Admitted(r)
    /\ Authority(r) # "AUTHORITY_ESTABLISHED"
    /\ Fail(r, Report("DENY", Authority(r), "NOT_ATTEMPTED", "READY"))
    /\ UNCHANGED engine

ActivateMismatch(r) ==
    /\ Admitted(r)
    /\ Authority(r) = "AUTHORITY_ESTABLISHED"
    /\ ~InterpretationBinds(evidence[r])
    /\ engine' = [engine EXCEPT !.mode = "HALTED"]
    /\ Fail(r, Report("ALLOW", "CHECKED_EXECUTED_INTERPRETATION_MISMATCH",
                      "INTEGRITY_FAILURE", "HALTED"))

\* Everything activate checks again before it touches the slot.
MayActivate(r) ==
    /\ Admitted(r)
    /\ Authority(r) = "AUTHORITY_ESTABLISHED"
    /\ InterpretationBinds(evidence[r])

\* A writer slips in between the read of the slot version and the swap.
Raced(flags) ==
    [engine EXCEPT !.slot_version = IF "transaction_conflict" \in flags THEN @ + 1 ELSE @]

ActivateConflict(r, flags) ==
    /\ MayActivate(r)
    /\ engine.slot_version < MaxSlotVersion
    /\ Raced(flags).slot_version # engine.slot_version
    /\ engine' = Raced(flags)
    /\ Fail(r, Report("ALLOW", "TRANSACTION_CONFLICT", "TRANSACTION_CONFLICT", "READY"))

ActivateFailure(r, flags) ==
    /\ MayActivate(r)
    /\ Raced(flags).slot_version = engine.slot_version
    /\ "transaction_failure" \in flags
    /\ Fail(r, Report("ALLOW", "TRANSACTION_FAILURE", "TRANSACTION_FAILURE", "HALTED"))
    /\ UNCHANGED engine

\* Mutant of Installed: the slot goes on naming the policy it held.
InstalledUnnamed(e) ==
    [engine EXCEPT !.closure = ClosureOf(e),
                   !.slot_version = @ + 1, !.state_version = @ + 1,
                   !.admitted = @ \cup {PolicyOf(e)}, !.mode = "ACTIVE"]

\* The swap itself: the slot holds the candidate the fixture names.
Installed(e) ==
    [engine EXCEPT !.policy = PolicyOf(e), !.closure = ClosureOf(e),
                   !.slot_version = @ + 1, !.state_version = @ + 1,
                   !.admitted = @ \cup {PolicyOf(e)}, !.mode = "ACTIVE"]

Swap(r, flags) ==
    /\ MayActivate(r)
    /\ engine.slot_version < MaxSlotVersion
    /\ engine.state_version < MaxStateVersion
    /\ Raced(flags).slot_version = engine.slot_version
    /\ "transaction_failure" \notin flags

\* Mutant of ActivateIndeterminate: the engine is not quarantined.
ActivateIndeterminateRunning(r, flags) ==
    /\ Swap(r, flags)
    /\ "state_indeterminate" \in flags
    /\ engine' = [Installed(evidence[r]) EXCEPT !.closure = None]
    /\ Fail(r, Report("ALLOW", "STATE_INDETERMINATE", "STATE_INDETERMINATE", "QUARANTINED"))

\* Mutant of ActivateIndeterminate: a write of unknown result is no version.
ActivateIndeterminateUncounted(r, flags) ==
    /\ Swap(r, flags)
    /\ "state_indeterminate" \in flags
    /\ engine' = [Installed(evidence[r]) EXCEPT !.closure = None, !.mode = "QUARANTINED",
                                                !.slot_version = engine.slot_version]
    /\ Fail(r, Report("ALLOW", "STATE_INDETERMINATE", "STATE_INDETERMINATE", "QUARANTINED"))

ActivateIndeterminate(r, flags) ==
    /\ Swap(r, flags)
    /\ "state_indeterminate" \in flags
    /\ engine' = [Installed(evidence[r]) EXCEPT !.closure = None, !.mode = "QUARANTINED"]
    /\ Fail(r, Report("ALLOW", "STATE_INDETERMINATE", "STATE_INDETERMINATE", "QUARANTINED"))

\* Mutant of ActivateReadbackMismatch: the engine is not halted.
ActivateReadbackRunning(r, flags) ==
    /\ Swap(r, flags)
    /\ "state_indeterminate" \notin flags
    /\ "readback_mismatch" \in flags
    /\ engine' = [Installed(evidence[r]) EXCEPT !.closure = UnexpectedClosure]
    /\ Fail(r, Report("ALLOW", "ACTIVATION_READBACK_MISMATCH",
                      "INTEGRITY_FAILURE", "HALTED"))

ActivateReadbackMismatch(r, flags) ==
    /\ Swap(r, flags)
    /\ "state_indeterminate" \notin flags
    /\ "readback_mismatch" \in flags
    /\ engine' = [Installed(evidence[r]) EXCEPT !.closure = UnexpectedClosure,
                                                !.mode = "HALTED"]
    /\ Fail(r, Report("ALLOW", "ACTIVATION_READBACK_MISMATCH",
                      "INTEGRITY_FAILURE", "HALTED"))

ActivateCommitted(r, flags) ==
    /\ Swap(r, flags)
    /\ "state_indeterminate" \notin flags
    /\ "readback_mismatch" \notin flags
    /\ engine' = Installed(evidence[r])
    /\ records' = records \cup {[standing |-> evaluation[r].standing,
                                 expected_slot_version |-> engine.slot_version,
                                 observed_after |-> StateDigest(engine')]}
    /\ outcome' = Activated(Report("ALLOW", "ACTIVATION_COMMITTED", "COMMITTED", "ACTIVE"))
    /\ UNCHANGED <<evidence, now, use_time, evaluation, decision>>

Activate(r, flags) ==
    \/ ActivateRefused(r, flags)
    \/ ActivatePartial(r, flags)
    \/ ActivateUnauthorised(r)
    \/ ActivateMismatch(r)
    \/ ActivateConflict(r, flags)
    \/ ActivateFailure(r, flags)
    \/ ActivateIndeterminate(r, flags)
    \/ ActivateReadbackMismatch(r, flags)
    \/ ActivateCommitted(r, flags)

-----------------------------------------------------------------------------
(* issue_decision *)

\* The fixture's candidate is the one in the engine's slot.
Runs(r) == engine.policy = PolicyOf(evidence[r])

\* What issue_decision says of activation: read from the engine's slot.
SlotReport(r, admission, reason) ==
    IF Runs(r) THEN Activated(Report(admission, reason, "NOT_ATTEMPTED", "ACTIVE"))
               ELSE Report(admission, reason, "NOT_ATTEMPTED", "READY")

Refuse(r, report) ==
    /\ decision' = [decision EXCEPT ![r] = None]
    /\ outcome' = report
    /\ UNCHANGED <<evidence, now, use_time, engine, evaluation, records>>

IssueOutOfScope(r) ==
    /\ evaluation[r] # None
    /\ ~TargetInScope(evidence[r])
    /\ Refuse(r, SlotReport(r, "DENY", "TARGET_OUT_OF_SCOPE"))

IssueNotAdmitted(r) ==
    /\ evaluation[r] # None
    /\ TargetInScope(evidence[r])
    /\ PolicyOf(evidence[r]) \notin engine.admitted
    /\ Refuse(r, Report("DENY", "DECISION_POLICY_NOT_ADMITTED", "NOT_ATTEMPTED", "READY"))

\* Mutant of MayDecide: whether the policy was ever admitted is not asked.
MayDecideUnadmitted(r) == evaluation[r] # None /\ TargetInScope(evidence[r])

\* The candidate is one that some activation put into the admission set.
MayDecide(r) ==
    /\ evaluation[r] # None
    /\ TargetInScope(evidence[r])
    /\ PolicyOf(evidence[r]) \in engine.admitted

IssueUnestablished(r) ==
    /\ MayDecide(r)
    /\ evaluation[r].standing = None
    /\ Refuse(r, Report("HOLD", "CURRENT_STANDING_UNESTABLISHED", "NOT_ATTEMPTED", "READY"))

\* Mutant of Expired: the limit itself still counts.
ExpiredAfter(limit) == use_time > limit

Expired(limit) == use_time >= limit

IssueExpired(r) ==
    /\ MayDecide(r)
    /\ evaluation[r].standing # None
    /\ Expired(evaluation[r].standing.revalidate_by)
    /\ Refuse(r, SlotReport(r, "HOLD", "STANDING_EXPIRED"))

Issue(r, authoritative) ==
    /\ MayDecide(r)
    /\ evaluation[r].standing # None
    /\ ~Expired(evaluation[r].standing.revalidate_by)
    /\ decision' = [decision EXCEPT ![r] =
           [policy |-> PolicyOf(evidence[r]), authority_to_commit |-> authoritative,
            validity_limit |-> evaluation[r].standing.revalidate_by]]
    /\ outcome' = [SlotReport(r, "ALLOW", "DECISION_RECORD_ISSUED")
                       EXCEPT !.engine_mode = "ACTIVE"]
    /\ UNCHANGED <<evidence, now, use_time, engine, evaluation, records>>

IssueDecision(r) ==
    \/ IssueOutOfScope(r)
    \/ IssueNotAdmitted(r)
    \/ IssueUnestablished(r)
    \/ IssueExpired(r)
    \/ \E authoritative \in BOOLEAN : Issue(r, authoritative)

-----------------------------------------------------------------------------
(* commit *)

CommitHiddenRoute(r, flags) ==
    /\ evaluation[r] # None
    /\ "hidden_commit_route" \in flags
    /\ Fail(r, [Report("DENY", "UNMODELLED_CONSEQUENCE_ROUTE", "HALTED", "HALTED")
                    EXCEPT !.activated = Runs(r)])
    /\ UNCHANGED engine

CommitMissing(r, flags) ==
    /\ evaluation[r] # None
    /\ "hidden_commit_route" \notin flags
    /\ decision[r] = None
    /\ Fail(r, Report("HOLD", "DECISION_RECORD_MISSING", "NOT_ATTEMPTED", "READY"))
    /\ UNCHANGED engine

\* A decision is at hand and the route is the governed one.
Presented(r, flags) ==
    /\ evaluation[r] # None /\ decision[r] # None
    /\ "hidden_commit_route" \notin flags

\* A preview, a dry run, a diagnostic: a record without authority.
Diagnostic(r, flags) ==
    ~decision[r].authority_to_commit \/ "diagnostic_authority" \in flags

CommitDiagnostic(r, flags) ==
    /\ Presented(r, flags)
    /\ Diagnostic(r, flags)
    /\ Fail(r, Activated(Report("ALLOW", "NO_AUTHORITY_TO_COMMIT",
                                "NOT_ATTEMPTED", "ACTIVE")))
    /\ UNCHANGED engine

CommitUnestablished(r, flags) ==
    /\ Presented(r, flags) /\ ~Diagnostic(r, flags)
    /\ evaluation[r].standing = None
    /\ Fail(r, Report("HOLD", "CURRENT_STANDING_UNESTABLISHED", "NOT_ATTEMPTED", "READY"))
    /\ UNCHANGED engine

\* Standing at the instant of use is over, by either record of it.
Lapsed(r) ==
    \/ Expired(evaluation[r].standing.revalidate_by)
    \/ Expired(decision[r].validity_limit)

CommitExpired(r, flags) ==
    /\ Presented(r, flags) /\ ~Diagnostic(r, flags)
    /\ evaluation[r].standing # None
    /\ Lapsed(r)
    /\ Fail(r, Activated(Report("HOLD", "STANDING_EXPIRED", "NOT_ATTEMPTED", "ACTIVE")))
    /\ UNCHANGED engine

\* The records are in order; what is left to judge is the engine.
Current(r, flags) ==
    /\ Presented(r, flags) /\ ~Diagnostic(r, flags)
    /\ evaluation[r].standing # None
    /\ ~Lapsed(r)

CommitQuarantined(r, flags) ==
    /\ Current(r, flags)
    /\ engine.mode = "QUARANTINED"
    /\ Fail(r, Report("ALLOW", "STATE_INDETERMINATE", "STATE_INDETERMINATE", "QUARANTINED"))
    /\ UNCHANGED engine

CommitHalted(r, flags) ==
    /\ Current(r, flags)
    /\ engine.mode = "HALTED"
    /\ Fail(r, Report("ALLOW", "ENGINE_HALTED", "HALTED", "HALTED"))
    /\ UNCHANGED engine

\* Mutant of Stopped: a quarantined engine is forgotten.
StoppedByHalt(eng) == eng.mode = "HALTED"

Stopped(eng) == eng.mode \in {"QUARANTINED", "HALTED"}

CommitAdapterMismatch(r, flags) ==
    /\ Current(r, flags) /\ ~Stopped(engine)
    /\ "adapter_mismatch" \in flags
    /\ Fail(r, Activated(Report("ALLOW", "ADAPTER_INSTANCE_MISMATCH",
                                "INTEGRITY_FAILURE", "HALTED")))
    /\ UNCHANGED engine

\* Mutant of Guarded: the guard forgets the state version.
GuardedBySlot(eng) == <<eng.slot_version, eng.closure>>

\* What the final guard compares of the engine before and after it looked.
Guarded(eng) == <<eng.slot_version, eng.state_version, eng.closure>>

\* A writer slips in between the guard and the effect.
Interfered(flags) ==
    [engine EXCEPT !.state_version = IF "mutate_after_guard" \in flags THEN @ + 1 ELSE @]

CommitConflict(r, flags) ==
    /\ Current(r, flags) /\ ~Stopped(engine)
    /\ engine.state_version < MaxStateVersion
    /\ "adapter_mismatch" \notin flags
    /\ Guarded(Interfered(flags)) # Guarded(engine)
    /\ engine' = Interfered(flags)
    /\ Fail(r, Activated(Report("ALLOW", "COMMIT_PRECONDITION_CONFLICT",
                                "COMMIT_PRECONDITION_CONFLICT", "ACTIVE")))

\* Mutant of CommitEffect: it reports the engine's count for its own.
CommitEffectTotal(r, flags) ==
    /\ Current(r, flags) /\ ~Stopped(engine)
    /\ engine.state_version < MaxStateVersion
    /\ "adapter_mismatch" \notin flags
    /\ Guarded(Interfered(flags)) = Guarded(engine)
    /\ engine' = [Interfered(flags) EXCEPT !.consequence_count = @ + 1,
                                           !.state_version = @ + 1]
    /\ outcome' = [Activated(Report("ALLOW", "GOVERNED_CONSEQUENCE_COMMITTED",
                                    "COMMITTED", "ACTIVE"))
                    EXCEPT !.committed = TRUE,
                           !.consequence_count = engine'.consequence_count]
    /\ UNCHANGED <<evidence, now, use_time, evaluation, decision, records>>

CommitEffect(r, flags) ==
    /\ Current(r, flags) /\ ~Stopped(engine)
    /\ engine.state_version < MaxStateVersion
    /\ "adapter_mismatch" \notin flags
    /\ Guarded(Interfered(flags)) = Guarded(engine)
    /\ engine' = [Interfered(flags) EXCEPT !.consequence_count = @ + 1,
                                           !.state_version = @ + 1]
    /\ outcome' = [Activated(Report("ALLOW", "GOVERNED_CONSEQUENCE_COMMITTED",
                                    "COMMITTED", "ACTIVE"))
                    EXCEPT !.committed = TRUE, !.consequence_count = 1]
    /\ UNCHANGED <<evidence, now, use_time, evaluation, decision, records>>

Commit(r, flags) ==
    \/ CommitHiddenRoute(r, flags)
    \/ CommitMissing(r, flags)
    \/ CommitDiagnostic(r, flags)
    \/ CommitUnestablished(r, flags)
    \/ CommitExpired(r, flags)
    \/ CommitQuarantined(r, flags)
    \/ CommitHalted(r, flags)
    \/ CommitAdapterMismatch(r, flags)
    \/ CommitConflict(r, flags)
    \/ CommitEffect(r, flags)

-----------------------------------------------------------------------------
(* resolve_after_candidate_failure: what to do without the candidate. *)

Rejected(r) == evaluation[r] # None /\ evaluation[r].admission # "ALLOW"

Incumbency(r) == IncumbentStanding(evidence[r])
Fallback(r) == FallbackStanding(evidence[r])

Resolved(r, report) ==
    /\ Fail(r, report)
    /\ UNCHANGED engine

\* An incumbent that may not, or may no longer, run leaves nothing to fall
\* back from.
ResolveIncumbent(r) ==
    /\ Rejected(r)
    /\ \/ /\ Incumbency(r) = "DENY"
          /\ Resolved(r, Report("DENY", "INCUMBENT_REVOKED", "NOT_ATTEMPTED", "READY"))
       \/ /\ Incumbency(r) = "HOLD"
          /\ Resolved(r, Report("HOLD", "INCUMBENT_STANDING_UNKNOWN", "NOT_ATTEMPTED",
                                "READY"))

\* Mutant of FallbackAsked: before the incumbent has been looked at.
FallbackAskedFirst(r) == Rejected(r) /\ Fallback(r) # None

FallbackAsked(r) == Rejected(r) /\ Incumbency(r) = "ALLOW" /\ Fallback(r) # None

ResolveFallback(r) ==
    /\ FallbackAsked(r)
    /\ \/ /\ Fallback(r) = "ALLOW"
          /\ Resolved(r, Report("ALLOW", "FALLBACK_INDEPENDENTLY_ESTABLISHED",
                                "NOT_ATTEMPTED", "READY"))
       \/ /\ Fallback(r) # "ALLOW"
          /\ Resolved(r, Report("HOLD", "NO_POLICY_STANDING", "NOT_ATTEMPTED", "READY"))

\* The candidate's own answer stands: it was admitted, or nothing replaces it.
ResolveCandidate(r) ==
    /\ evaluation[r] # None
    /\ Rejected(r) => Incumbency(r) = "ALLOW" /\ Fallback(r) = None
    /\ Resolved(r, Verdict(evaluation[r]))

Resolve(r) == ResolveIncumbent(r) \/ ResolveFallback(r) \/ ResolveCandidate(r)

-----------------------------------------------------------------------------

\* The engine of every new fixture: the incumbent runs in it.
InitialEngine ==
    [slot_version |-> 7, state_version |-> 12, policy |-> Incumbent,
     closure |-> IncumbentClosure, mode |-> "READY",
     admitted |-> {Incumbent}, consequence_count |-> 0]

Init ==
    /\ evidence \in [Requests -> Evidence]
    /\ now = Start /\ use_time = Start
    /\ engine = InitialEngine
    /\ evaluation = [r \in Requests |-> None]
    /\ decision = [r \in Requests |-> None]
    /\ records = {}
    /\ outcome = None

Next ==
    \/ Tick
    \/ \E r \in Requests :
        \/ \E e \in Evidence : Amend(r, e)
        \/ Admit(r)
        \/ IssueDecision(r)
        \/ Resolve(r)
        \/ \E flags \in FlagSets : Activate(r, flags) \/ Commit(r, flags)

Spec == Init /\ [][Next]_vars

-----------------------------------------------------------------------------
(* Properties of every caller, however it interleaves and amends. *)

\* What a state digest digests, and an ActivationRecord.
Digests == [slot_version : Nat, policy : Policies, closure : Closures,
            state_version : Nat, mode : Modes]
Records == [standing : Standings, expected_slot_version : Nat, observed_after : Digests]

\* Everything the callers and the engine hold has the type model.py and
\* types.py give it, and fixture.now is never ahead of the instant of use.
TypeOK ==
    /\ evidence \in [Requests -> Evidence]
    /\ now \in Times /\ use_time \in Times /\ now <= use_time
    /\ engine \in Engines
    /\ evaluation \in [Requests -> Evaluations \cup {None}]
    /\ decision \in [Requests -> Decisions \cup {None}]
    /\ records \subseteq Records
    /\ outcome \in Outcomes \cup {None}

\* A policy that was never admitted is never left running: when one sits in
\* the slot (a refused candidate partly installed, harness.py:688-698), the
\* engine is halted, whatever is called next.
UnadmittedNeverRuns == engine.policy \notin engine.admitted => engine.mode = "HALTED"

\* Two records of the slot: what it held when its version was v is a fact.
AgreeOnSlot(a, b) ==
    a.slot_version = b.slot_version => a.policy = b.policy /\ a.closure = b.closure

\* A slot version names one content: no two activation records observed the
\* same slot version, and while the engine's slot still has the version that
\* a record observed, it holds the policy and the closure of that record.
\* The compare-and-swap of activate (harness.py:721-744) rests on this.
RecordsIdentifySlot ==
    /\ \A a, b \in records :
           a.expected_slot_version = b.expected_slot_version => a = b
    /\ \A a \in records :
           /\ a.observed_after.slot_version = a.expected_slot_version + 1
           /\ a.observed_after.slot_version <= engine.slot_version
           /\ AgreeOnSlot(a.observed_after, engine)

\* An active engine runs what the latest activation record says was observed,
\* in spite of every activation that failed half way since.
ActiveIsRecorded ==
    engine.mode = "ACTIVE" =>
        \E a \in records :
            /\ a.observed_after.policy = engine.policy
            /\ a.observed_after.closure = engine.closure
            /\ \A b \in records : b.expected_slot_version <= a.expected_slot_version

\* Before any candidate is swapped in, only the incumbent's own fixture can
\* have a decision: a decision on a candidate implies that the engine left
\* READY for good.
DecidedIsSwappedIn ==
    engine.mode = "READY" =>
        \A r \in Requests : decision[r] # None => decision[r].policy = Incumbent

\* Whatever call reports ALLOW, somebody holds what allows it: an evaluation
\* that says so, or a fallback's own standing beside an incumbent that is
\* neither revoked nor unknown (harness.py:945-956).  A record without
\* authority is waved through unread (harness.py:847-855).
AllowIsEstablished ==
    /\ outcome # None
    /\ outcome.admission = "ALLOW" /\ outcome.reason # "NO_AUTHORITY_TO_COMMIT"
    => \E r \in Requests :
           \/ evaluation[r] # None /\ evaluation[r].admission = "ALLOW"
           \/ Rejected(r) /\ Incumbency(r) = "ALLOW" /\ Fallback(r) = "ALLOW"

StoppedModes == {"HALTED", "QUARANTINED"}

\* A halted or quarantined engine runs again only through an activation that
\* is committed and recorded (harness.py:744, 875-890).
ResumedOnlyByActivation ==
    [][engine.mode \in StoppedModes /\ engine'.mode \notin StoppedModes =>
           records' # records]_vars

\* What the call just made says it added to the consequences.
Claimed == IF outcome = None THEN 0 ELSE outcome.consequence_count

\* The count a call reports is what it added to the engine's own: commit
\* reports the literal 1 (harness.py:933) and every other call nothing, after
\* however many consequences.  What is claimed is claimed as committed, and is
\* all that changed the engine since the guard looked at it.
ReportedConsequenceIsReal ==
    [][/\ engine'.consequence_count = engine.consequence_count + Claimed'
       /\ outcome' # None => (outcome'.committed <=> Claimed' > 0)
       /\ Claimed' > 0 => engine' = [engine EXCEPT !.consequence_count = @ + 1,
                                                   !.state_version = @ + 1]]_vars

\* What an engine runs: the policy and closure in its slot, and the policies
\* admitted to it.
WhatRuns(eng) == <<eng.policy, eng.closure, eng.admitted>>

\* A caller learns of every change its call made.  NOT_ATTEMPTED leaves the
\* engine alone, and so does the passing of time; what the engine runs changes
\* only under a report of an activation that was done, half done or of unknown
\* result (harness.py:688-784), never under a lost race, a failed transaction
\* or a failed guard; and a call that stops an engine that ran reports the
\* very mode it left it in.
ChangesAreReported ==
    [][/\ engine' # engine => outcome' # None /\ outcome'.operational # "NOT_ATTEMPTED"
       /\ WhatRuns(engine') # WhatRuns(engine) =>
              outcome'.operational \in
                  {"COMMITTED", "INTEGRITY_FAILURE", "STATE_INDETERMINATE"}
       /\ engine.mode \notin StoppedModes /\ engine'.mode \in StoppedModes =>
              outcome'.engine_mode = engine'.mode]_vars

\* The lab as the abstract slot: its gate is shut while the engine is
\* stopped, standing runs to revalidate_by, and a licence is a decision with
\* authority to commit.
Gate == IF engine.mode \in StoppedModes THEN "shut" ELSE "open"

Horizons ==
    [r \in Requests |-> IF evaluation[r] = None \/ evaluation[r].standing = None THEN 0
                        ELSE evaluation[r].standing.revalidate_by]

Licences ==
    [r \in Requests |-> IF decision[r] = None \/ ~decision[r].authority_to_commit THEN 0
                        ELSE decision[r].validity_limit]

Governed ==
    INSTANCE GovernedSlot WITH
        Holders <- Requests, clock <- use_time, gate <- Gate, standing <- Horizons,
        licence <- Licences, consequences <- engine.consequence_count

\* Every consequence is governed: it takes place through an open gate, for a
\* caller whose standing and whose decision both still run (harness.py:829-936).
ConsequenceIsGoverned == Governed!Spec

-----------------------------------------------------------------------------
(* What the documents say and the code does not do: see the findings. *)

\* INTERFACES.md:56: a StandingRecord "cannot be reused after that horizon",
\* and activation is guarded by it (line 69).  activate reads no clock.
ActivationUnderLiveStanding ==
    [][records' # records =>
           \E r \in Requests : evaluation[r] # None /\ HasStanding(evaluation[r])
                               /\ now < evaluation[r].standing.revalidate_by]_vars

\* INTERFACES.md:62 and 69: activation is guarded by the bound Standing record;
\* what it installs is what that standing's snapshot digested.
ActivationInstallsWhatStandingBinds ==
    \A a \in records : /\ a.observed_after.policy = a.standing.policy
                       /\ a.observed_after.closure = a.standing.closure

\* INTERFACES.md:77: any change of the slot or the closure since the decision
\* gives zero consequences: only the active policy's decisions commit.
ConsequenceByActivePolicy ==
    [][engine'.consequence_count # engine.consequence_count =>
           \E r \in Requests : decision[r] # None
                               /\ decision[r].policy = engine.policy]_vars

\* INTERFACES.md:26: an operational failure never rewrites a verdict.
FailureKeepsVerdict ==
    outcome # None /\ outcome.operational \notin {"NOT_ATTEMPTED", "COMMITTED"} =>
        \E r \in Requests : evaluation[r] # None
                            /\ outcome.admission = evaluation[r].admission

=============================================================================
