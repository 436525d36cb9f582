--------------------------- MODULE HarnessProofs ---------------------------
(***************************************************************************)
(* Theorems about module Harness, for every set of callers, every set of   *)
(* fixtures and every answer that admission may give of them.              *)
(***************************************************************************)
EXTENDS Harness, TLAPS

-----------------------------------------------------------------------------
(* What the calls return has the type of an Outcome. *)

\* _outcome (harness.py:368-394) builds an Outcome.
LEMMA ReportType ==
    ASSUME NEW admission \in Verdicts, NEW reason \in Reasons,
           NEW operational \in OperationalResults, NEW mode \in Modes
    PROVE  /\ Report(admission, reason, operational, mode) \in Outcomes
           /\ Activated(Report(admission, reason, operational, mode)) \in Outcomes
BY DEF Report, Activated, Outcomes

\* The outcome that an evaluation carries is one too.
LEMMA VerdictType == ASSUME NEW v \in Evaluations PROVE Verdict(v) \in Outcomes
<1>1. v.admission \in Verdicts /\ v.reason \in Reasons /\ v.engine_mode \in Modes
  BY DEF Evaluations, Modes
<1> QED  BY <1>1, ReportType DEF Verdict, OperationalResults

\* What the evidence answers at an instant of the run is well typed.
LEMMA AnswerType ==
    ASSUME TypeOK, NEW r \in Requests
    PROVE  /\ Evaluate(evidence[r], now) \in Evaluations
           /\ Authority(r) \in Reasons
           /\ PolicyOf(evidence[r]) \in Policies
           /\ ClosureOf(evidence[r]) \in Closures
BY EvidenceAssumption DEF EvidenceTyped, TypeOK, Authority, Policies, Closures, Reasons

\* An evaluation that is not None is well typed, and so is its standing.
LEMMA EvaluationType ==
    ASSUME TypeOK, NEW r \in Requests, evaluation[r] # None
    PROVE  /\ evaluation[r] \in Evaluations
           /\ evaluation[r].admission \in Verdicts
           /\ evaluation[r].standing # None => evaluation[r].standing \in Standings
BY DEF TypeOK, Evaluations

-----------------------------------------------------------------------------
(* Type correctness. *)

\* activate, branch by branch: its report, the engine and the records.
LEMMA ActivateType ==
    ASSUME TypeOK, NEW r \in Requests, NEW flags \in FlagSets, Activate(r, flags)
    PROVE  outcome' \in Outcomes /\ engine' \in Engines /\ records' \subseteq Records
<1> DEFINE e == evidence[r]
<1>1. /\ PolicyOf(e) \in Policies /\ ClosureOf(e) \in Closures
      /\ Authority(r) \in Reasons
  BY AnswerType
<1>2. engine \in Engines /\ records \subseteq Records
  BY DEF TypeOK
<1>a. /\ engine.slot_version + 1 \in Nat /\ engine.state_version + 1 \in Nat
      /\ {"READY", "ACTIVE", "HALTED", "QUARANTINED"} = Modes
  BY <1>2 DEF Engines, Modes
<1>3. PartlyInstalled(e) \in Engines
  BY <1>1, <1>2, <1>a DEF PartlyInstalled, Engines
<1>4. Installed(e) \in Engines
  BY <1>1, <1>2, <1>a DEF Installed, Engines
<1>5. Raced(flags) \in Engines
  BY <1>2, <1>a DEF Raced, Engines
<1>6. CASE ActivateRefused(r, flags)
  BY <1>6, <1>2, EvaluationType, VerdictType DEF ActivateRefused, Fail
<1>7. CASE ActivatePartial(r, flags)
  <2>1. evaluation[r].admission \in Verdicts
    BY <1>7, EvaluationType DEF ActivatePartial
  <2>2. outcome' \in Outcomes
    BY <1>7, <2>1, ReportType DEF ActivatePartial, Fail, OperationalResults, Modes, Reasons
  <2> QED  BY <1>7, <1>2, <1>3, <2>2 DEF ActivatePartial, Fail
<1>8. CASE ActivateUnauthorised(r)
  BY <1>8, <1>1, <1>2, ReportType
     DEF ActivateUnauthorised, Fail, Verdicts, OperationalResults, Modes
<1>9. CASE ActivateMismatch(r)
  <2>1. [engine EXCEPT !.mode = "HALTED"] \in Engines
    BY <1>2 DEF Engines, Modes
  <2> QED  BY <1>9, <1>2, <2>1, ReportType
              DEF ActivateMismatch, Fail, Verdicts, OperationalResults, Modes, Reasons
<1>10. CASE ActivateConflict(r, flags)
  BY <1>10, <1>2, <1>5, ReportType
     DEF ActivateConflict, Fail, Verdicts, OperationalResults, Modes, Reasons
<1>11. CASE ActivateFailure(r, flags)
  BY <1>11, <1>2, ReportType
     DEF ActivateFailure, Fail, Verdicts, OperationalResults, Modes, Reasons
<1>12. CASE ActivateIndeterminate(r, flags)
  <2>1. [Installed(e) EXCEPT !.closure = None, !.mode = "QUARANTINED"] \in Engines
    BY <1>4 DEF Engines, Closures, Modes
  <2> QED  BY <1>12, <1>2, <2>1, ReportType
              DEF ActivateIndeterminate, Fail, Verdicts, OperationalResults, Modes, Reasons
<1>13. CASE ActivateReadbackMismatch(r, flags)
  <2>1. [Installed(e) EXCEPT !.closure = UnexpectedClosure, !.mode = "HALTED"] \in Engines
    BY <1>4 DEF Engines, Closures, Modes
  <2> QED  BY <1>13, <1>2, <2>1, ReportType
              DEF ActivateReadbackMismatch, Fail, Verdicts, OperationalResults, Modes, Reasons
<1>14. CASE ActivateCommitted(r, flags)
  <2>1. evaluation[r].standing \in Standings
    BY <1>14, EvaluationType DEF ActivateCommitted, Swap, MayActivate, Admitted, HasStanding
  <2>2. engine' \in Engines
    BY <1>14, <1>4 DEF ActivateCommitted
  <2>3. StateDigest(engine') \in Digests
    BY <2>2 DEF StateDigest, Digests, Engines
  <2>4. engine.slot_version \in Nat
    BY <1>2 DEF Engines
  <2>5. records' \subseteq Records
    BY <1>14, <1>2, <2>1, <2>3, <2>4 DEF ActivateCommitted, Records
  <2>6. outcome' \in Outcomes
    BY <1>14, ReportType DEF ActivateCommitted, Verdicts, OperationalResults, Modes, Reasons
  <2> QED  BY <2>2, <2>5, <2>6
<1> QED
  BY <1>6, <1>7, <1>8, <1>9, <1>10, <1>11, <1>12, <1>13, <1>14 DEF Activate

\* commit, branch by branch: its report and the engine.
LEMMA CommitType ==
    ASSUME TypeOK, NEW r \in Requests, NEW flags \in FlagSets, Commit(r, flags)
    PROVE  outcome' \in Outcomes /\ engine' \in Engines
<1>1. engine \in Engines
  BY DEF TypeOK
<1>2. Interfered(flags) \in Engines
  BY <1>1 DEF Interfered, Engines
<1>3. CASE CommitHiddenRoute(r, flags)
  <2> DEFINE denied == Report("DENY", "UNMODELLED_CONSEQUENCE_ROUTE", "HALTED", "HALTED")
  <2>1. denied \in Outcomes
    BY ReportType DEF Verdicts, OperationalResults, Modes, Reasons
  <2>2. outcome' = [denied EXCEPT !.activated = Runs(r)] /\ Runs(r) \in BOOLEAN
    BY <1>3 DEF CommitHiddenRoute, Fail, Runs
  <2> HIDE DEF denied
  <2>3. outcome' \in Outcomes
    BY <2>1, <2>2 DEF Outcomes
  <2> QED  BY <1>3, <1>1, <2>3 DEF CommitHiddenRoute
<1>4. CASE CommitMissing(r, flags)
  BY <1>4, <1>1, ReportType
     DEF CommitMissing, Fail, Verdicts, OperationalResults, Modes, Reasons
<1>5. CASE CommitDiagnostic(r, flags)
  BY <1>5, <1>1, ReportType
     DEF CommitDiagnostic, Fail, Verdicts, OperationalResults, Modes, Reasons
<1>6. CASE CommitUnestablished(r, flags)
  BY <1>6, <1>1, ReportType
     DEF CommitUnestablished, Fail, Verdicts, OperationalResults, Modes, Reasons
<1>7. CASE CommitExpired(r, flags)
  BY <1>7, <1>1, ReportType
     DEF CommitExpired, Fail, Verdicts, OperationalResults, Modes, Reasons
<1>8. CASE CommitQuarantined(r, flags)
  BY <1>8, <1>1, ReportType
     DEF CommitQuarantined, Fail, Verdicts, OperationalResults, Modes, Reasons
<1>9. CASE CommitHalted(r, flags)
  BY <1>9, <1>1, ReportType
     DEF CommitHalted, Fail, Verdicts, OperationalResults, Modes, Reasons
<1>10. CASE CommitAdapterMismatch(r, flags)
  BY <1>10, <1>1, ReportType
     DEF CommitAdapterMismatch, Fail, Verdicts, OperationalResults, Modes, Reasons
<1>11. CASE CommitConflict(r, flags)
  BY <1>11, <1>2, ReportType
     DEF CommitConflict, Fail, Verdicts, OperationalResults, Modes, Reasons
<1>12. CASE CommitEffect(r, flags)
  <2>1. engine' \in Engines
    <3>1. /\ Interfered(flags).consequence_count + 1 \in Nat
          /\ Interfered(flags).state_version + 1 \in Nat
      BY <1>2 DEF Engines
    <3> QED  BY <1>12, <1>2, <3>1 DEF CommitEffect, Engines
  <2> DEFINE done == Activated(Report("ALLOW", "GOVERNED_CONSEQUENCE_COMMITTED",
                                      "COMMITTED", "ACTIVE"))
  <2>2. done \in Outcomes
    BY ReportType DEF Verdicts, OperationalResults, Modes, Reasons
  <2>3. outcome' = [done EXCEPT !.committed = TRUE, !.consequence_count = 1]
    BY <1>12 DEF CommitEffect
  <2> HIDE DEF done
  <2>4. outcome' \in Outcomes
    BY <2>2, <2>3 DEF Outcomes
  <2> QED  BY <2>1, <2>4
<1> QED
  BY <1>3, <1>4, <1>5, <1>6, <1>7, <1>8, <1>9, <1>10, <1>11, <1>12 DEF Commit

\* resolve_after_candidate_failure only ever reports.
LEMMA ResolveReports ==
    ASSUME TypeOK, NEW r \in Requests, Resolve(r)
    PROVE  /\ outcome' \in Outcomes
           /\ UNCHANGED <<evidence, now, use_time, engine, evaluation, decision, records>>
<1>1. evaluation[r] \in Evaluations
  BY DEF Resolve, ResolveIncumbent, ResolveFallback, FallbackAsked, ResolveCandidate,
         Rejected, TypeOK
<1>2. CASE ResolveIncumbent(r)
  BY <1>2, ReportType DEF ResolveIncumbent, Resolved, Fail, Verdicts, OperationalResults,
     Modes, Reasons
<1>3. CASE ResolveFallback(r)
  BY <1>3, ReportType DEF ResolveFallback, Resolved, Fail, Verdicts, OperationalResults,
     Modes, Reasons
<1>4. CASE ResolveCandidate(r)
  BY <1>1, <1>4, VerdictType DEF ResolveCandidate, Resolved, Fail
<1> QED  BY <1>2, <1>3, <1>4
            DEF Resolve, ResolveIncumbent, ResolveFallback, ResolveCandidate, Resolved, Fail

\* Every call and every move of the environment keeps the types.
LEMMA TypeStep == TypeOK /\ [Next]_vars => TypeOK'
<1> SUFFICES ASSUME TypeOK, [Next]_vars PROVE TypeOK'
  OBVIOUS
<1>1. CASE UNCHANGED vars
  BY <1>1 DEF vars, TypeOK
<1>2. CASE Tick
  BY <1>2, BoundsAssumption DEF Tick, TypeOK, Times
<1>3. ASSUME NEW r \in Requests, NEW e \in Evidence, Amend(r, e)
      PROVE  TypeOK'
  BY <1>3 DEF Amend, TypeOK
<1>4. ASSUME NEW r \in Requests, Admit(r)
      PROVE  TypeOK'
  <2>1. Evaluate(evidence[r], now) \in Evaluations
    BY AnswerType
  <2>2. evaluation' \in [Requests -> Evaluations \cup {None}]
    BY <1>4, <2>1 DEF Admit, TypeOK
  <2>3. outcome' \in Outcomes
    BY <1>4, <2>1, VerdictType DEF Admit, TypeOK
  <2> QED  BY <1>4, <2>2, <2>3 DEF Admit, TypeOK
<1>5. ASSUME NEW r \in Requests, IssueDecision(r)
      PROVE  TypeOK'
  <2>1. outcome' \in Outcomes
    <3>1. ASSUME NEW a \in Verdicts, NEW s \in Reasons
          PROVE  SlotReport(r, a, s) \in Outcomes
      BY <3>1, ReportType DEF SlotReport, Modes, OperationalResults, Reasons
    <3>2. ASSUME NEW a \in Verdicts, NEW s \in Reasons
          PROVE  Report(a, s, "NOT_ATTEMPTED", "READY") \in Outcomes
      BY ReportType DEF Modes, OperationalResults, Reasons
    <3>3. CASE IssueOutOfScope(r)
      BY <3>3, <3>1 DEF IssueOutOfScope, Refuse, Verdicts, Reasons
    <3>4. CASE IssueNotAdmitted(r)
      BY <3>4, <3>2 DEF IssueNotAdmitted, Refuse, Verdicts, Reasons
    <3>5. CASE IssueUnestablished(r)
      BY <3>5, <3>2 DEF IssueUnestablished, Refuse, Verdicts, Reasons
    <3>6. CASE IssueExpired(r)
      BY <3>6, <3>1 DEF IssueExpired, Refuse, Verdicts, Reasons
    <3>7. ASSUME NEW authoritative \in BOOLEAN, Issue(r, authoritative)
          PROVE  outcome' \in Outcomes
      <4> DEFINE report == SlotReport(r, "ALLOW", "DECISION_RECORD_ISSUED")
      <4>1. report \in Outcomes
        BY <3>1 DEF Verdicts, Reasons
      <4>2. outcome' = [report EXCEPT !.engine_mode = "ACTIVE"]
        BY <3>7 DEF Issue
      <4> HIDE DEF report
      <4> QED  BY <4>1, <4>2 DEF Outcomes, Modes
    <3> QED  BY <1>5, <3>3, <3>4, <3>5, <3>6, <3>7 DEF IssueDecision
  <2>2. decision' \in [Requests -> Decisions \cup {None}]
    <3>1. ASSUME NEW authoritative \in BOOLEAN, Issue(r, authoritative)
          PROVE  decision' \in [Requests -> Decisions \cup {None}]
      <4>1. evaluation[r].standing.revalidate_by \in Nat
        BY <3>1, EvaluationType DEF Issue, MayDecide, Standings
      <4>2. PolicyOf(evidence[r]) \in Policies
        BY AnswerType
      <4> QED  BY <3>1, <4>1, <4>2 DEF Issue, TypeOK, Decisions
    <3> QED  BY <1>5, <3>1 DEF IssueDecision, IssueOutOfScope, IssueNotAdmitted,
                 IssueUnestablished, IssueExpired, Refuse, TypeOK
  <2> QED
    BY <1>5, <2>1, <2>2 DEF IssueDecision, IssueOutOfScope, IssueNotAdmitted,
       IssueUnestablished, IssueExpired, Refuse, Issue, TypeOK
<1>6. ASSUME NEW r \in Requests, NEW flags \in FlagSets, Activate(r, flags)
      PROVE  TypeOK'
  <2>1. UNCHANGED <<evidence, now, use_time, evaluation, decision>>
    BY <1>6
       DEF Activate, ActivateRefused, ActivatePartial, ActivateUnauthorised,
           ActivateMismatch, ActivateConflict, ActivateFailure, ActivateIndeterminate,
           ActivateReadbackMismatch, ActivateCommitted, Fail
  <2> QED  BY <1>6, <2>1, ActivateType DEF TypeOK
<1>7. ASSUME NEW r \in Requests, NEW flags \in FlagSets, Commit(r, flags)
      PROVE  TypeOK'
  <2>1. UNCHANGED <<evidence, now, use_time, evaluation, decision, records>>
    BY <1>7
       DEF Commit, CommitHiddenRoute, CommitMissing, CommitDiagnostic,
           CommitUnestablished, CommitExpired, CommitQuarantined, CommitHalted,
           CommitAdapterMismatch, CommitConflict, CommitEffect, Fail
  <2> QED  BY <1>7, <2>1, CommitType DEF TypeOK
<1>8. ASSUME NEW r \in Requests, Resolve(r)
      PROVE  TypeOK'
  BY <1>8, ResolveReports DEF TypeOK
<1> QED  BY <1>1, <1>2, <1>3, <1>4, <1>5, <1>6, <1>7, <1>8 DEF Next

\* Every caller, every engine state and every report always has its type.
THEOREM TypeCorrect == Spec => []TypeOK
<1>1. Init => TypeOK
  BY BoundsAssumption DEF Init, InitialEngine, TypeOK, Times, Engines, Policies, Closures, Modes
<1> QED  BY <1>1, TypeStep, PTL DEF Spec


-----------------------------------------------------------------------------
(* The slot.  Whatever the caller does, a step moves the engine and the     *)
(* activation records in one of three ways.                                *)

\* The slot keeps its content; its version may still be taken by a race, and
\* an engine may be halted.
Kept ==
    /\ records' = records
    /\ engine'.policy = engine.policy /\ engine'.closure = engine.closure
    /\ engine'.admitted = engine.admitted
    /\ engine'.slot_version \in {engine.slot_version, engine.slot_version + 1}
    /\ engine'.mode \in {engine.mode, "HALTED"}

\* The slot takes a content that no record vouches for, and the engine stops.
Spoiled ==
    /\ records' = records
    /\ engine'.slot_version = engine.slot_version + 1
    /\ engine.admitted \subseteq engine'.admitted
    /\ \/ engine'.mode = "HALTED"
       \/ engine'.mode = "QUARANTINED" /\ engine'.policy \in engine'.admitted

\* The slot takes a content, the engine runs it, and a record says so.
Recorded ==
    /\ engine'.slot_version = engine.slot_version + 1
    /\ engine'.mode = "ACTIVE"
    /\ engine'.policy \in engine'.admitted
    /\ \E new : /\ records' = records \cup {new}
                /\ new.expected_slot_version = engine.slot_version
                /\ new.observed_after = StateDigest(engine')

\* Activation moves the engine in one of those ways.
LEMMA ActivateMoves ==
    ASSUME TypeOK, NEW r \in Requests, NEW flags \in FlagSets, Activate(r, flags)
    PROVE  Kept \/ Spoiled \/ Recorded
<1> DEFINE e == evidence[r]
<1>1. engine \in Engines
  BY DEF TypeOK
<1>2. CASE ActivateRefused(r, flags) \/ ActivateUnauthorised(r) \/ ActivateFailure(r, flags)
  BY <1>2 DEF ActivateRefused, ActivateUnauthorised, ActivateFailure, Fail, Kept
<1>3. CASE ActivatePartial(r, flags)
  BY <1>3, <1>1 DEF ActivatePartial, PartlyInstalled, Fail, Spoiled, Engines
<1>4. CASE ActivateMismatch(r)
  BY <1>4, <1>1 DEF ActivateMismatch, Fail, Kept, Engines
<1>5. CASE ActivateConflict(r, flags)
  BY <1>5, <1>1 DEF ActivateConflict, Raced, Fail, Kept, Engines
<1>6. CASE ActivateIndeterminate(r, flags)
  BY <1>6, <1>1 DEF ActivateIndeterminate, Installed, Fail, Spoiled, Engines
<1>7. CASE ActivateReadbackMismatch(r, flags)
  BY <1>7, <1>1 DEF ActivateReadbackMismatch, Installed, Fail, Spoiled, Engines
<1>8. CASE ActivateCommitted(r, flags)
  <2>1. /\ engine'.slot_version = engine.slot_version + 1 /\ engine'.mode = "ACTIVE"
        /\ engine'.policy \in engine'.admitted
    BY <1>8, <1>1 DEF ActivateCommitted, Installed, Engines
  <2> DEFINE new == [standing |-> evaluation[r].standing,
                     expected_slot_version |-> engine.slot_version,
                     observed_after |-> StateDigest(engine')]
  <2>2. /\ records' = records \cup {new}
        /\ new.expected_slot_version = engine.slot_version
        /\ new.observed_after = StateDigest(engine')
    BY <1>8 DEF ActivateCommitted
  <2> QED  BY <2>1, <2>2 DEF Recorded
<1> QED
  BY <1>2, <1>3, <1>4, <1>5, <1>6, <1>7, <1>8 DEF Activate

\* Commit only ever keeps the slot.
LEMMA CommitMoves ==
    ASSUME TypeOK, NEW r \in Requests, NEW flags \in FlagSets, Commit(r, flags)
    PROVE  Kept
<1>1. engine \in Engines
  BY DEF TypeOK
<1>2. CASE CommitConflict(r, flags)
  BY <1>2, <1>1 DEF CommitConflict, Interfered, Fail, Kept, Engines
<1>3. CASE CommitEffect(r, flags)
  BY <1>3, <1>1 DEF CommitEffect, Interfered, Kept, Engines
<1>4. CASE ~CommitConflict(r, flags) /\ ~CommitEffect(r, flags)
  <2>1. engine' = engine /\ records' = records
    BY <1>4 DEF Commit, CommitHiddenRoute, CommitMissing, CommitDiagnostic,
         CommitUnestablished, CommitExpired, CommitQuarantined, CommitHalted,
         CommitAdapterMismatch, Fail
  <2> QED  BY <2>1 DEF Kept
<1> QED  BY <1>2, <1>3, <1>4

\* So does everything else, and only issue_decision touches the decisions,
\* each of them for a policy in the admission set.
LEMMA EngineMoves ==
    ASSUME TypeOK, [Next]_vars
    PROVE  /\ Kept \/ Spoiled \/ Recorded
           /\ \/ decision' = decision
              \/ /\ engine' = engine
                 /\ \A r \in Requests : \/ decision'[r] \in {decision[r], None}
                                        \/ decision'[r].policy \in engine.admitted
<1>1. CASE UNCHANGED vars
  BY <1>1 DEF vars, Kept
<1>2. CASE Tick
  BY <1>2 DEF Tick, Kept
<1>3. ASSUME NEW r \in Requests, Admit(r) \/ \E e \in Evidence : Amend(r, e)
      PROVE  Kept /\ decision' = decision
  BY <1>3 DEF Admit, Amend, Kept
<1>4. ASSUME NEW r \in Requests, IssueDecision(r)
      PROVE  /\ Kept /\ engine' = engine
             /\ \A q \in Requests : \/ decision'[q] \in {decision[q], None}
                                    \/ decision'[q].policy \in engine.admitted
  <2>1. engine' = engine /\ records' = records
    BY <1>4 DEF IssueDecision, IssueOutOfScope, IssueNotAdmitted, IssueUnestablished,
         IssueExpired, Refuse, Issue
  <2>2. CASE decision' = [decision EXCEPT ![r] = None]
    BY <2>1, <2>2 DEF TypeOK, Kept
  <2>3. ASSUME NEW authoritative \in BOOLEAN, Issue(r, authoritative)
        PROVE  \A q \in Requests : \/ decision'[q] = decision[q]
                                   \/ decision'[q].policy \in engine.admitted
    BY <2>3 DEF Issue, MayDecide, TypeOK
  <2>4. Kept
    BY <2>1 DEF Kept
  <2> QED  BY <1>4, <2>1, <2>2, <2>3, <2>4
              DEF IssueDecision, IssueOutOfScope, IssueNotAdmitted, IssueUnestablished,
                  IssueExpired, Refuse
<1>5. ASSUME NEW r \in Requests, NEW flags \in FlagSets,
             Activate(r, flags) \/ Commit(r, flags)
      PROVE  (Kept \/ Spoiled \/ Recorded) /\ decision' = decision
  <2>1. decision' = decision
    BY <1>5 DEF Activate, ActivateRefused, ActivatePartial, ActivateUnauthorised,
         ActivateMismatch, ActivateConflict, ActivateFailure, ActivateIndeterminate,
         ActivateReadbackMismatch, ActivateCommitted,
         Commit, CommitHiddenRoute, CommitMissing, CommitDiagnostic,
         CommitUnestablished, CommitExpired, CommitQuarantined, CommitHalted,
         CommitAdapterMismatch, CommitConflict, CommitEffect, Fail
  <2> QED  BY <1>5, <2>1, ActivateMoves, CommitMoves
<1>6. ASSUME NEW r \in Requests, Resolve(r)
      PROVE  Kept /\ decision' = decision
  BY <1>6, ResolveReports DEF Kept
<1>7. CASE decision' = decision /\ ~ UNCHANGED vars
  <2> SUFFICES Kept \/ Spoiled \/ Recorded
    BY <1>7
  <2> QED  BY <1>1, <1>2, <1>3, <1>4, <1>5, <1>6 DEF Next
<1> QED  BY <1>1, <1>2, <1>3, <1>4, <1>5, <1>6, <1>7 DEF Next, vars, Tick

-----------------------------------------------------------------------------
(* What the slot holds. *)

\* Until the first swap only the incumbent is in the admission set: without
\* it, DecidedIsSwappedIn is not inductive.
ReadyIsUntouched == engine.mode = "READY" => engine.admitted = {Incumbent}

SlotInv ==
    /\ TypeOK
    /\ UnadmittedNeverRuns
    /\ RecordsIdentifySlot
    /\ ActiveIsRecorded
    /\ ReadyIsUntouched
    /\ DecidedIsSwappedIn

\* The invariant holds of the engine valid_fixture builds.
LEMMA SlotInit == Init => SlotInv
<1> SUFFICES ASSUME Init PROVE SlotInv
  OBVIOUS
<1>1. TypeOK
  BY BoundsAssumption DEF Init, InitialEngine, TypeOK, Times, Engines, Policies, Closures, Modes
<1> QED  BY <1>1 DEF Init, InitialEngine, SlotInv, UnadmittedNeverRuns, RecordsIdentifySlot,
             ActiveIsRecorded, ReadyIsUntouched, DecidedIsSwappedIn

\* Every step keeps it.
LEMMA SlotStep == SlotInv /\ [Next]_vars => SlotInv'
<1> SUFFICES ASSUME SlotInv, [Next]_vars PROVE SlotInv'
  OBVIOUS
<1> USE DEF SlotInv
<1>1. TypeOK'
  BY TypeStep
<1>2. Kept \/ Spoiled \/ Recorded
  BY EngineMoves
<1>3. /\ engine.slot_version \in Nat /\ engine'.slot_version \in Nat
      /\ \A a \in records : /\ a.expected_slot_version \in Nat
                            /\ a.observed_after.slot_version \in Nat
  BY <1>1 DEF TypeOK, Engines, Records, Digests
<1>4. UnadmittedNeverRuns'
  BY <1>2 DEF UnadmittedNeverRuns, Kept, Spoiled, Recorded
<1>5. RecordsIdentifySlot'
  <2>1. CASE Kept \/ Spoiled
    BY <2>1, <1>3 DEF RecordsIdentifySlot, AgreeOnSlot, Kept, Spoiled
  <2>2. CASE Recorded
    <3>1. PICK new : /\ records' = records \cup {new}
                     /\ new.expected_slot_version = engine.slot_version
                     /\ new.observed_after = StateDigest(engine')
      BY <2>2 DEF Recorded
    <3>2. engine'.slot_version = engine.slot_version + 1
      BY <2>2 DEF Recorded
    <3>3. /\ new.observed_after.slot_version = engine.slot_version + 1
          /\ new.observed_after.policy = engine'.policy
          /\ new.observed_after.closure = engine'.closure
      BY <3>1, <3>2 DEF StateDigest
    <3>4. \A a \in records : a.expected_slot_version < engine.slot_version
      BY <1>3 DEF RecordsIdentifySlot
    <3> QED  BY <1>3, <3>1, <3>2, <3>3, <3>4 DEF RecordsIdentifySlot, AgreeOnSlot
  <2> QED  BY <1>2, <2>1, <2>2
<1>6. ActiveIsRecorded'
  <2>1. CASE Kept
    BY <2>1 DEF ActiveIsRecorded, Kept
  <2>2. CASE Spoiled
    BY <2>2 DEF ActiveIsRecorded, Spoiled
  <2>3. CASE Recorded
    <3>1. PICK new : /\ records' = records \cup {new}
                     /\ new.expected_slot_version = engine.slot_version
                     /\ new.observed_after = StateDigest(engine')
      BY <2>3 DEF Recorded
    <3>2. \A a \in records : a.expected_slot_version <= engine.slot_version
      BY <1>3 DEF RecordsIdentifySlot
    <3> QED  BY <1>3, <3>1, <3>2 DEF ActiveIsRecorded, StateDigest
  <2> QED  BY <1>2, <2>1, <2>2, <2>3
<1>7. ReadyIsUntouched'
  BY <1>2 DEF ReadyIsUntouched, Kept, Spoiled, Recorded
<1>8. DecidedIsSwappedIn'
  <2> SUFFICES ASSUME engine'.mode = "READY", NEW r \in Requests, decision'[r] # None
               PROVE  decision'[r].policy = Incumbent
    BY DEF DecidedIsSwappedIn
  <2>1. engine.mode = "READY" /\ engine.admitted = {Incumbent}
    BY <1>2 DEF ReadyIsUntouched, Kept, Spoiled, Recorded
  <2> QED  BY <2>1, EngineMoves DEF DecidedIsSwappedIn
<1> QED  BY <1>1, <1>4, <1>5, <1>6, <1>7, <1>8

LEMMA SlotHolds == Spec => []SlotInv
BY SlotInit, SlotStep, PTL DEF Spec

\* However callers interleave, a slot version names one content: no two
\* activation records differ on it, and none differs from the engine.
THEOREM SlotCorrect == Spec => []RecordsIdentifySlot
<1>1. SlotInv => RecordsIdentifySlot
  BY DEF SlotInv
<1> QED  BY <1>1, SlotHolds, PTL

\* A half-done activation never leaves an unadmitted policy in an engine that
\* is not halted.
THEOREM PartialNeverRuns == Spec => []UnadmittedNeverRuns
<1>1. SlotInv => UnadmittedNeverRuns
  BY DEF SlotInv
<1> QED  BY <1>1, SlotHolds, PTL

\* An active engine runs what its latest activation record observed, after
\* any sequence of failed and unknown activations.
THEOREM ActiveCorrect == Spec => []ActiveIsRecorded
<1>1. SlotInv => ActiveIsRecorded
  BY DEF SlotInv
<1> QED  BY <1>1, SlotHolds, PTL

\* Until the first swap nobody holds a decision on a candidate.
THEOREM DecisionCorrect == Spec => []DecidedIsSwappedIn
<1>1. SlotInv => DecidedIsSwappedIn
  BY DEF SlotInv
<1> QED  BY <1>1, SlotHolds, PTL

\* A stopped engine runs again only through a new activation record.
THEOREM ResumptionCorrect == Spec => ResumedOnlyByActivation
<1>1. SlotInv /\ [Next]_vars
        => [engine.mode \in StoppedModes /\ engine'.mode \notin StoppedModes
                => records' # records]_vars
  <2> SUFFICES ASSUME SlotInv, [Next]_vars,
                       engine.mode \in StoppedModes, engine'.mode \notin StoppedModes
               PROVE  records' # records
    BY DEF vars
  <2>1. Recorded
    BY EngineMoves DEF SlotInv, StoppedModes, Kept, Spoiled
  <2>2. PICK new : /\ records' = records \cup {new}
                   /\ new.expected_slot_version = engine.slot_version
    BY <2>1 DEF Recorded
  <2>3. engine.slot_version \in Nat
        /\ \A a \in records : a.expected_slot_version \in Nat
    BY DEF SlotInv, TypeOK, Engines, Records
  <2>4. new \notin records
    BY <2>2, <2>3 DEF SlotInv, RecordsIdentifySlot
  <2> QED  BY <2>2, <2>4
<1> QED  BY <1>1, SlotInit, SlotStep, PTL DEF Spec, ResumedOnlyByActivation

-----------------------------------------------------------------------------
(* What the reports say.  A step reports one of four things.               *)

\* The call claims no consequence.
ClaimsNothing ==
    outcome' # None => outcome'.committed = FALSE /\ outcome'.consequence_count = 0

\* Nothing happened to the engine.
Quiet == engine' = engine /\ ClaimsNothing

\* A call that was attempted left its mark; if it stopped the engine, it says so.
Marked ==
    /\ outcome' # None /\ ClaimsNothing
    /\ outcome'.operational \in {"COMMITTED", "INTEGRITY_FAILURE", "STATE_INDETERMINATE"}
    /\ engine'.consequence_count = engine.consequence_count
    /\ engine'.mode \in StoppedModes => outcome'.engine_mode = engine'.mode

\* Another writer was faster, and all that changed are versions.
Overtaken ==
    /\ outcome' # None /\ ClaimsNothing
    /\ outcome'.operational # "NOT_ATTEMPTED"
    /\ engine'.consequence_count = engine.consequence_count
    /\ WhatRuns(engine') = WhatRuns(engine)
    /\ engine'.mode = engine.mode

\* A consequence took place, on the very engine the guard saw.
Effected ==
    /\ outcome' # None /\ outcome'.committed = TRUE /\ outcome'.consequence_count = 1
    /\ outcome'.operational = "COMMITTED"
    /\ engine' = [engine EXCEPT !.consequence_count = @ + 1, !.state_version = @ + 1]

\* activate reports what it did to the engine.
LEMMA ActivateReports ==
    ASSUME TypeOK, NEW r \in Requests, NEW flags \in FlagSets, Activate(r, flags)
    PROVE  Quiet \/ Marked \/ Overtaken
<1> DEFINE e == evidence[r]
<1>1. engine \in Engines
  BY DEF TypeOK
<1>2. outcome' # None
  BY ActivateType, BoundsAssumption
<1>3. CASE ActivateRefused(r, flags)
  BY <1>3 DEF Report, Activated, ActivateRefused, Verdict, Fail, Quiet, ClaimsNothing
<1>4. CASE ActivateUnauthorised(r) \/ ActivateFailure(r, flags)
  BY <1>4 DEF Report, Activated, ActivateUnauthorised, ActivateFailure, Fail, Quiet, ClaimsNothing
<1>5. CASE ActivatePartial(r, flags)
  BY <1>1, <1>2, <1>5
     DEF Report, Activated, ActivatePartial, PartlyInstalled, Fail, Marked, StoppedModes,
         ClaimsNothing, Engines
<1>6. CASE ActivateMismatch(r)
  BY <1>1, <1>2, <1>6
     DEF Report, Activated, ActivateMismatch, Fail, Marked, StoppedModes, ClaimsNothing,
         Engines
<1>7. CASE ActivateConflict(r, flags)
  BY <1>1, <1>2, <1>7
     DEF Report, Activated, ActivateConflict, Raced, Fail, Overtaken, WhatRuns,
         ClaimsNothing, Engines
<1>8. CASE ActivateIndeterminate(r, flags)
  BY <1>1, <1>2, <1>8
     DEF Report, Activated, ActivateIndeterminate, Installed, Fail, Marked, StoppedModes,
         ClaimsNothing, Engines
<1>9. CASE ActivateReadbackMismatch(r, flags)
  BY <1>1, <1>2, <1>9
     DEF Report, Activated, ActivateReadbackMismatch, Installed, Fail, Marked,
         StoppedModes, ClaimsNothing, Engines
<1>10. CASE ActivateCommitted(r, flags)
  BY <1>1, <1>2, <1>10
     DEF Report, Activated, ActivateCommitted, Installed, Marked, StoppedModes,
         ClaimsNothing, Engines
<1> QED
  BY <1>3, <1>4, <1>5, <1>6, <1>7, <1>8, <1>9, <1>10 DEF Activate

\* commit reports what it did to the engine.
LEMMA CommitReports ==
    ASSUME TypeOK, NEW r \in Requests, NEW flags \in FlagSets, Commit(r, flags)
    PROVE  Quiet \/ Overtaken \/ (Effected /\ CommitEffect(r, flags))
<1>1. engine \in Engines
  BY DEF TypeOK
<1>2. outcome' # None
  BY CommitType, BoundsAssumption
<1>3. CASE CommitHiddenRoute(r, flags)
  BY <1>3 DEF CommitHiddenRoute, Report, Fail, Quiet, ClaimsNothing
<1>4. CASE \/ CommitMissing(r, flags) \/ CommitDiagnostic(r, flags)
           \/ CommitUnestablished(r, flags) \/ CommitExpired(r, flags)
           \/ CommitQuarantined(r, flags) \/ CommitHalted(r, flags)
           \/ CommitAdapterMismatch(r, flags)
  BY <1>4
     DEF Report, Activated, CommitMissing, CommitDiagnostic, CommitUnestablished, CommitExpired,
         CommitQuarantined, CommitHalted, CommitAdapterMismatch, Fail, Quiet, ClaimsNothing
<1>5. CASE CommitConflict(r, flags)
  BY <1>1, <1>2, <1>5
     DEF Report, Activated, CommitConflict, Interfered, Fail, Overtaken, WhatRuns,
         ClaimsNothing, Engines
<1>6. CASE CommitEffect(r, flags)
  <2>1. Interfered(flags).state_version = engine.state_version
    BY <1>6 DEF CommitEffect, Guarded
  <2>2. Interfered(flags) = engine
    BY <2>1, <1>1 DEF Interfered, Engines
  <2>3. /\ outcome'.committed = TRUE /\ outcome'.consequence_count = 1
        /\ outcome'.operational = "COMMITTED"
    BY <1>6 DEF CommitEffect, Report, Activated
  <2> QED  BY <1>2, <1>6, <2>2, <2>3 DEF CommitEffect, Effected
<1> QED  BY <1>3, <1>4, <1>5, <1>6 DEF Commit

\* So does every step.
LEMMA StepReports ==
    ASSUME TypeOK, Next
    PROVE  Quiet \/ Marked \/ Overtaken \/ Effected
<1>1. CASE Tick
  BY <1>1 DEF Tick, Quiet, ClaimsNothing
<1>2. ASSUME NEW r \in Requests, NEW e \in Evidence, Amend(r, e)
      PROVE  Quiet
  BY <1>2 DEF Amend, Quiet, ClaimsNothing
<1>3. ASSUME NEW r \in Requests, Admit(r)
      PROVE  Quiet
  BY <1>3 DEF Report, Activated, Admit, Verdict, Quiet, ClaimsNothing
<1>4. ASSUME NEW r \in Requests, IssueDecision(r)
      PROVE  Quiet
  <2>1. CASE IssueOutOfScope(r)
    BY <2>1
       DEF IssueOutOfScope, SlotReport, Report, Activated, Refuse, Quiet, ClaimsNothing
  <2>2. CASE IssueExpired(r)
    BY <2>2 DEF IssueExpired, SlotReport, Report, Activated, Refuse, Quiet, ClaimsNothing
  <2>3. CASE IssueNotAdmitted(r) \/ IssueUnestablished(r)
    BY <2>3
       DEF Report, Activated, IssueNotAdmitted, IssueUnestablished, Refuse, Quiet,
           ClaimsNothing
  <2>4. CASE \E authoritative \in BOOLEAN : Issue(r, authoritative)
    BY <2>4 DEF Issue, SlotReport, Report, Activated, Quiet, ClaimsNothing
  <2> QED  BY <1>4, <2>1, <2>2, <2>3, <2>4 DEF IssueDecision
<1>5. ASSUME NEW r \in Requests, Resolve(r)
      PROVE  Quiet
  <2>1. ClaimsNothing
    BY <1>5 DEF Resolve, ResolveIncumbent, ResolveFallback, ResolveCandidate, Resolved, Fail,
       Verdict, Report, ClaimsNothing
  <2> QED  BY <1>5, <2>1, ResolveReports DEF Quiet
<1> QED  BY <1>1, <1>2, <1>3, <1>4, <1>5, ActivateReports, CommitReports DEF Next

\* What a call reports as the consequences it added is what the engine counts
\* since, and nothing else has happened to the engine since the final guard
\* looked at it.
THEOREM ConsequenceReportsCorrect == Spec => ReportedConsequenceIsReal
<1> DEFINE Real ==
      /\ engine'.consequence_count = engine.consequence_count + Claimed'
      /\ outcome' # None => (outcome'.committed <=> Claimed' > 0)
      /\ Claimed' > 0 => engine' = [engine EXCEPT !.consequence_count = @ + 1,
                                                  !.state_version = @ + 1]
<1>1. TypeOK /\ [Next]_vars => [Real]_vars
  <2> SUFFICES ASSUME TypeOK, Next PROVE Real
    BY DEF vars
  <2>1. engine.consequence_count \in Nat /\ engine \in Engines
    BY DEF TypeOK, Engines
  <2>2. CASE Quiet \/ Marked \/ Overtaken
    <3>1. /\ Claimed' = 0
          /\ outcome' # None => outcome'.committed = FALSE
          /\ engine'.consequence_count = engine.consequence_count
      BY <2>2 DEF Quiet, Marked, Overtaken, ClaimsNothing, Claimed
    <3> QED  BY <2>1, <3>1
  <2>3. CASE Effected
    <3>1. /\ Claimed' = 1 /\ outcome'.committed = TRUE
          /\ engine'.consequence_count = engine.consequence_count + 1
      BY <2>1, <2>3 DEF Effected, Engines, Claimed
    <3> QED  BY <2>1, <2>3, <3>1 DEF Effected
  <2> QED  BY <2>2, <2>3, StepReports
<1> QED  BY <1>1, TypeCorrect, PTL DEF Spec, ReportedConsequenceIsReal

\* No call changes the engine unreported: not at all under NOT_ATTEMPTED, not
\* what it runs under a lost race or a failed transaction or guard, and it
\* never stops the engine under another mode's name.
THEOREM ChangesReported == Spec => ChangesAreReported
<1> DEFINE Reported ==
      /\ engine' # engine => outcome' # None /\ outcome'.operational # "NOT_ATTEMPTED"
      /\ WhatRuns(engine') # WhatRuns(engine) =>
             outcome'.operational \in
                 {"COMMITTED", "INTEGRITY_FAILURE", "STATE_INDETERMINATE"}
      /\ engine.mode \notin StoppedModes /\ engine'.mode \in StoppedModes =>
             outcome'.engine_mode = engine'.mode
<1>1. TypeOK /\ [Next]_vars => [Reported]_vars
  <2> SUFFICES ASSUME TypeOK, Next PROVE Reported
    BY DEF vars
  <2>1. CASE Quiet \/ Marked \/ Overtaken
    BY <2>1 DEF Quiet, Marked, Overtaken
  <2>2. CASE Effected
    <3>1. engine'.mode = engine.mode
      BY <2>2 DEF Effected, TypeOK, Engines
    <3> QED  BY <2>2, <3>1 DEF Effected
  <2> QED  BY <2>1, <2>2, StepReports
<1> QED  BY <1>1, TypeCorrect, PTL DEF Spec, ChangesAreReported

-----------------------------------------------------------------------------
(* What is reported as allowed. *)

\* Standing is only ever bound to an evaluation that allows.
LEMMA StandingAllows ==
    ASSUME TypeOK, NEW r \in Requests, evaluation[r] # None, evaluation[r].standing # None
    PROVE  evaluation[r].admission = "ALLOW"
BY DEF TypeOK, Evaluations

\* issue_decision reports ALLOW of an evaluation that allows.
LEMMA IssueAllows ==
    ASSUME TypeOK, NEW r \in Requests, IssueDecision(r), outcome'.admission = "ALLOW"
    PROVE  evaluation[r] # None /\ evaluation[r].admission = "ALLOW" /\ evaluation' = evaluation
<1>1. /\ evaluation[r] # None /\ evaluation' = evaluation
      /\ evaluation[r].standing # None \/ outcome'.admission # "ALLOW"
  BY DEF IssueDecision, IssueOutOfScope, IssueNotAdmitted, IssueUnestablished,
     IssueExpired, Issue, MayDecide, Refuse, SlotReport, Activated, Report
<1> QED  BY <1>1, StandingAllows

\* So do activate and commit.
LEMMA CallAllows ==
    ASSUME TypeOK, NEW r \in Requests, NEW flags \in FlagSets,
           Activate(r, flags) \/ Commit(r, flags),
           outcome'.admission = "ALLOW", outcome'.reason # "NO_AUTHORITY_TO_COMMIT"
    PROVE  evaluation[r] # None /\ evaluation[r].admission = "ALLOW" /\ evaluation' = evaluation
<1>1. CASE Activate(r, flags)
  <2>1. CASE ActivateRefused(r, flags)
    BY <2>1 DEF ActivateRefused, Verdict, Report, Fail
  <2>2. CASE ActivatePartial(r, flags)
    BY <2>2 DEF ActivatePartial, Report, Fail
  <2>3. CASE ~ActivateRefused(r, flags) /\ ~ActivatePartial(r, flags)
    BY <1>1, <2>3 DEF Activate, ActivateUnauthorised, ActivateMismatch, ActivateConflict,
       ActivateFailure, ActivateIndeterminate, ActivateReadbackMismatch, ActivateCommitted,
       Swap, MayActivate, Admitted, HasStanding, Fail
  <2> QED  BY <2>1, <2>2, <2>3
<1>2. CASE Commit(r, flags)
  <2>1. /\ evaluation[r] # None /\ evaluation' = evaluation
        /\ \/ evaluation[r].standing # None
           \/ outcome'.admission # "ALLOW" \/ outcome'.reason = "NO_AUTHORITY_TO_COMMIT"
    BY <1>2 DEF Commit, CommitHiddenRoute, CommitMissing, CommitDiagnostic,
       CommitUnestablished, CommitExpired, CommitQuarantined, CommitHalted,
       CommitAdapterMismatch, CommitConflict, CommitEffect, Current, Presented, Fail,
       Report, Activated
  <2> QED  BY <2>1, StandingAllows
<1> QED  BY <1>1, <1>2

\* No call reports ALLOW that nobody's evaluation and no fallback gives.
THEOREM AllowEstablished == Spec => []AllowIsEstablished
<1>1. Init => AllowIsEstablished
  BY DEF Init, AllowIsEstablished
<1>2. TypeOK /\ TypeOK' /\ AllowIsEstablished /\ [Next]_vars => AllowIsEstablished'
  <2> SUFFICES ASSUME TypeOK, TypeOK', AllowIsEstablished, [Next]_vars,
                      outcome' # None, outcome'.admission = "ALLOW",
                      outcome'.reason # "NO_AUTHORITY_TO_COMMIT"
               PROVE  \E r \in Requests :
                          \/ evaluation'[r] # None /\ evaluation'[r].admission = "ALLOW"
                          \/ Rejected(r)' /\ Incumbency(r)' = "ALLOW" /\ Fallback(r)' = "ALLOW"
    BY DEF AllowIsEstablished
  <2>1. CASE UNCHANGED vars
    BY <2>1 DEF vars, AllowIsEstablished, Rejected, Incumbency, Fallback
  <2>2. CASE Tick \/ \E r \in Requests, e \in Evidence : Amend(r, e)
    BY <2>2 DEF Tick, Amend
  <2>3. ASSUME NEW r \in Requests, Admit(r)
        PROVE  evaluation'[r] # None /\ evaluation'[r].admission = "ALLOW"
    <3>1. evaluation'[r] = Evaluate(evidence[r], now) /\ outcome' = Verdict(evaluation'[r])
      BY <2>3 DEF Admit, TypeOK
    <3>2. evaluation'[r] # None
      BY <3>1, AnswerType, BoundsAssumption
    <3> QED  BY <3>1, <3>2 DEF Verdict, Report
  <2>4. ASSUME NEW r \in Requests, Resolve(r)
        PROVE  \/ evaluation'[r] # None /\ evaluation'[r].admission = "ALLOW"
               \/ Rejected(r)' /\ Incumbency(r)' = "ALLOW" /\ Fallback(r)' = "ALLOW"
    <3>1. evaluation' = evaluation /\ evidence' = evidence
      BY <2>4, ResolveReports
    <3>2. ~ResolveIncumbent(r)
      BY DEF ResolveIncumbent, Resolved, Fail, Report
    <3>3. CASE ResolveFallback(r)
      BY <3>1, <3>3 DEF ResolveFallback, FallbackAsked, Resolved, Fail, Report, Rejected,
         Incumbency, Fallback
    <3>4. CASE ResolveCandidate(r)
      BY <3>1, <3>4 DEF ResolveCandidate, Resolved, Fail, Verdict, Report
    <3> QED  BY <2>4, <3>2, <3>3, <3>4 DEF Resolve
  <2>5. ASSUME NEW r \in Requests, NEW flags \in FlagSets, Activate(r, flags) \/ Commit(r, flags)
        PROVE  evaluation'[r] # None /\ evaluation'[r].admission = "ALLOW"
    BY <2>5, CallAllows
  <2>6. ASSUME NEW r \in Requests, IssueDecision(r)
        PROVE  evaluation'[r] # None /\ evaluation'[r].admission = "ALLOW"
    BY <2>6, IssueAllows
  <2> QED  BY <2>1, <2>2, <2>3, <2>4, <2>5, <2>6 DEF Next
<1> QED
  BY <1>1, <1>2, TypeCorrect, PTL DEF Spec

-----------------------------------------------------------------------------
(* The lab implements the abstract slot of module GovernedSlot.            *)

\* What a call to activate or commit leaves alone.
LEMMA CallsKeep ==
    ASSUME NEW r \in Requests, NEW flags \in FlagSets,
           Activate(r, flags) \/ Commit(r, flags)
    PROVE  UNCHANGED <<use_time, evaluation, decision>>
<1>1. CASE Activate(r, flags)
  BY <1>1 DEF Activate, ActivateRefused, ActivatePartial, ActivateUnauthorised,
              ActivateMismatch, ActivateConflict, ActivateFailure, ActivateIndeterminate,
              ActivateReadbackMismatch, ActivateCommitted, Fail
<1>2. CASE Commit(r, flags)
  BY <1>2 DEF Commit, CommitHiddenRoute, CommitMissing, CommitDiagnostic,
              CommitUnestablished, CommitExpired, CommitQuarantined, CommitHalted,
              CommitAdapterMismatch, CommitConflict, CommitEffect, Fail
<1> QED  BY <1>1, <1>2

\* Standing, if there is any, ends at an instant.
LEMMA HorizonType ==
    ASSUME NEW v \in Evaluations, v.standing # None
    PROVE  v.standing.revalidate_by \in Nat
BY DEF Evaluations, Standings

\* The lab begins as the abstract slot does.
LEMMA GovernedInit == Init => Governed!Init
BY BoundsAssumption DEF Init, InitialEngine, Governed!Init, Gate, StoppedModes, Horizons, Licences

\* admit judges standing afresh.
LEMMA AdmitGoverned ==
    ASSUME TypeOK, TypeOK', NEW r \in Requests, Admit(r)
    PROVE  Governed!Judge(r)
<1>1. Horizons' \in [Requests -> Nat]
  <2>1. evaluation' \in [Requests -> Evaluations \cup {None}]
    BY DEF TypeOK
  <2>2. ASSUME NEW h \in Requests, evaluation'[h] # None, evaluation'[h].standing # None
        PROVE  evaluation'[h].standing.revalidate_by \in Nat
    BY <2>1, <2>2, HorizonType
  <2> QED  BY <2>2 DEF Horizons
<1>2. ASSUME NEW other \in Requests \ {r}
      PROVE  Horizons'[other] = Horizons[other]
  BY <1>2 DEF Admit, Horizons, TypeOK
<1> QED  BY <1>1, <1>2 DEF Admit, Governed!Judge, Gate, Licences

\* issue_decision grants a licence for as long as standing lasts, or none.
LEMMA IssueGoverned ==
    ASSUME TypeOK, NEW r \in Requests, IssueDecision(r)
    PROVE  Governed!Grant(r) \/ Governed!Withdraw(r)
<1>1. decision \in [Requests -> Decisions \cup {None}]
  BY DEF TypeOK
<1>2. /\ UNCHANGED <<use_time, engine, evaluation>>
      /\ UNCHANGED <<Gate, Horizons>>
  BY DEF IssueDecision, IssueOutOfScope, IssueNotAdmitted, IssueUnestablished,
         IssueExpired, Issue, Refuse, Gate, Horizons
<1>3. CASE decision' = [decision EXCEPT ![r] = None]
  <2>1. Licences' = [Licences EXCEPT ![r] = 0]
    BY <1>1, <1>3 DEF Licences
  <2> QED  BY <1>2, <2>1 DEF Governed!Withdraw
<1>4. ASSUME NEW authoritative \in BOOLEAN, Issue(r, authoritative)
      PROVE  Governed!Grant(r) \/ Governed!Withdraw(r)
  <2> DEFINE limit == evaluation[r].standing.revalidate_by
             new == [policy |-> PolicyOf(evidence[r]),
                     authority_to_commit |-> authoritative, validity_limit |-> limit]
  <2>1. /\ evaluation[r] # None /\ evaluation[r].standing # None
        /\ ~(use_time >= limit)
        /\ decision' = [decision EXCEPT ![r] = new]
    BY <1>4 DEF Issue, MayDecide, Expired
  <2>2. new \in Decisions
    <3>1. limit \in Nat /\ PolicyOf(evidence[r]) \in Policies
      BY <2>1, EvaluationType, AnswerType DEF Standings
    <3> QED  BY <3>1 DEF Decisions
  <2>3. new # None /\ new.authority_to_commit = authoritative /\ new.validity_limit = limit
    BY <2>2, BoundsAssumption
  <2> HIDE DEF new
  <2>4. Horizons[r] = limit
    BY <2>1 DEF Horizons
  <2>5. use_time < Horizons[r]
    <3>1. use_time \in Nat /\ limit \in Nat
      BY <2>1, EvaluationType, BoundsAssumption DEF TypeOK, Times, Standings
    <3> QED  BY <2>1, <2>4, <3>1
  <2>6. Licences' = [Licences EXCEPT ![r] = IF authoritative THEN limit ELSE 0]
    BY <1>1, <2>1, <2>3 DEF Licences
  <2>7. CASE authoritative = TRUE
    BY <1>2, <2>4, <2>5, <2>6, <2>7 DEF Governed!Grant
  <2>8. CASE authoritative = FALSE
    BY <1>2, <2>6, <2>8 DEF Governed!Withdraw
  <2> QED  BY <2>7, <2>8
<1> QED
  BY <1>3, <1>4 DEF IssueDecision, IssueOutOfScope, IssueNotAdmitted,
                    IssueUnestablished, IssueExpired, Refuse

\* activate may open and shut the gate, and no more.
LEMMA ActivateGoverned ==
    ASSUME TypeOK, NEW r \in Requests, NEW flags \in FlagSets, Activate(r, flags)
    PROVE  Governed!Move
<1>1. engine'.consequence_count = engine.consequence_count
  BY ActivateReports DEF Quiet, Marked, Overtaken
<1>2. UNCHANGED <<use_time, Horizons, Licences>>
  BY CallsKeep DEF Horizons, Licences
<1>3. Gate' \in {"open", "shut"}
  BY DEF Gate
<1> QED  BY <1>1, <1>2, <1>3 DEF Governed!Move

\* commit has its effect through an open gate under standing and licence.
LEMMA CommitGoverned ==
    ASSUME TypeOK, NEW r \in Requests, NEW flags \in FlagSets, Commit(r, flags)
    PROVE  Governed!Consequence(r) \/ UNCHANGED Governed!vars
<1>1. UNCHANGED <<use_time, Horizons, Licences>>
  BY CallsKeep DEF Horizons, Licences
<1>2. CASE Quiet \/ Overtaken
  BY <1>1, <1>2 DEF Quiet, Overtaken, Gate, Governed!vars
<1>3. CASE CommitEffect(r, flags) /\ Effected
  <2> DEFINE horizon == evaluation[r].standing.revalidate_by
             limit == decision[r].validity_limit
  <2>1. /\ evaluation[r] # None /\ evaluation[r].standing # None
        /\ decision[r] # None /\ decision[r].authority_to_commit
        /\ ~(use_time >= horizon) /\ ~(use_time >= limit)
        /\ engine.mode \notin StoppedModes
    BY <1>3 DEF CommitEffect, Current, Presented, Diagnostic, Lapsed, Expired,
                Stopped, StoppedModes
  <2>2. use_time \in Nat /\ horizon \in Nat /\ limit \in Nat
    BY <2>1, EvaluationType, BoundsAssumption DEF TypeOK, Times, Standings, Decisions
  <2>3. Horizons[r] = horizon /\ Licences[r] = limit
    BY <2>1 DEF Horizons, Licences
  <2>4. use_time < Horizons[r] /\ use_time < Licences[r]
    BY <2>1, <2>2, <2>3
  <2>5. /\ engine'.consequence_count = engine.consequence_count + 1
        /\ engine'.mode = engine.mode
    BY <1>3 DEF Effected, TypeOK, Engines
  <2> QED  BY <1>1, <2>1, <2>4, <2>5 DEF Gate, Governed!Consequence
<1> QED  BY <1>2, <1>3, CommitReports

\* Every consequence, of any caller in any behaviour, is governed: the lab
\* implements the abstract slot.
THEOREM GovernedCorrect == Spec => ConsequenceIsGoverned
<1>1. TypeOK /\ TypeOK' /\ [Next]_vars => [Governed!Next]_(Governed!vars)
  <2> SUFFICES ASSUME TypeOK, TypeOK', [Next]_vars
               PROVE  Governed!Next \/ UNCHANGED Governed!vars
    OBVIOUS
  <2>1. CASE UNCHANGED vars
    BY <2>1 DEF vars, Governed!vars, Gate, Horizons, Licences
  <2>2. CASE Tick
    <3>1. use_time \in Nat /\ use_time' = use_time + 1
      BY <2>2, BoundsAssumption DEF Tick, TypeOK, Times
    <3>2. UNCHANGED <<Gate, Horizons, Licences, engine.consequence_count>>
      BY <2>2 DEF Tick, Gate, Horizons, Licences
    <3> QED  BY <3>1, <3>2 DEF Governed!Next, Governed!Pass
  <2>3. ASSUME NEW r \in Requests, NEW e \in Evidence, Amend(r, e)
        PROVE  UNCHANGED Governed!vars
    BY <2>3 DEF Amend, Governed!vars, Gate, Horizons, Licences
  <2>4. ASSUME NEW r \in Requests, Admit(r)
        PROVE  Governed!Next
    BY <2>4, AdmitGoverned DEF Governed!Next
  <2>5. ASSUME NEW r \in Requests, IssueDecision(r)
        PROVE  Governed!Next
    BY <2>5, IssueGoverned DEF Governed!Next
  <2>6. ASSUME NEW r \in Requests, NEW flags \in FlagSets, Activate(r, flags)
        PROVE  Governed!Next
    BY <2>6, ActivateGoverned DEF Governed!Next
  <2>7. ASSUME NEW r \in Requests, NEW flags \in FlagSets, Commit(r, flags)
        PROVE  Governed!Next \/ UNCHANGED Governed!vars
    BY <2>7, CommitGoverned DEF Governed!Next
  <2>8. ASSUME NEW r \in Requests, Resolve(r)
        PROVE  UNCHANGED Governed!vars
    BY <2>8, ResolveReports DEF Governed!vars, Gate, Horizons, Licences
  <2> QED  BY <2>1, <2>2, <2>3, <2>4, <2>5, <2>6, <2>7, <2>8 DEF Next
<1> QED
  BY <1>1, GovernedInit, TypeCorrect, PTL DEF Spec, ConsequenceIsGoverned, Governed!Spec

=============================================================================
