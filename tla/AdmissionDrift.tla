--------------------------- MODULE AdmissionDrift ---------------------------
(***************************************************************************)
(* One fixture between its construction and its admission: proof objects   *)
(* drift one mutation after another, the deriver, the approver and the     *)
(* contract issuer sign again what changed under them, and time passes.    *)
(* Whatever has happened, Evaluation(fixture) is what admit would answer now.   *)
(***************************************************************************)
EXTENDS Drifts

CONSTANTS
    MaxDrifts,      \* how many mutations one fixture suffers
    MaxWait         \* how many minutes pass before the call

ASSUME DriftAssumption == MaxDrifts \in Nat /\ MaxWait \in Nat

VARIABLES
    fixture,        \* the Fixture
    drifts          \* the mutations it suffered

vars == <<fixture, drifts>>

Built == ValidFixture("policy-1")

Init == fixture = Built /\ drifts = {}

Suffer(d) ==
    /\ d \notin drifts /\ Cardinality(drifts) < MaxDrifts /\ Applicable(d, fixture)
    /\ fixture' = Drift(d, fixture)
    /\ drifts' = drifts \cup {d}

\* Not a step of the lab: a minute passes before the next call of admit.
Wait ==
    /\ fixture.now < Now + MaxWait
    /\ fixture' = Aged(fixture, 1)
    /\ UNCHANGED drifts

DeriverSigns ==
    /\ fixture.derivation.status # "ABSENT"
    /\ fixture' = ResignDerivation(fixture)
    /\ UNCHANGED drifts

ApproverSigns ==
    /\ fixture' = ResignApproval(fixture)
    /\ UNCHANGED drifts

ApproverRebinds ==
    /\ fixture.derivation.status # "ABSENT"
    /\ fixture' = RebindApproval(fixture)
    /\ UNCHANGED drifts

IssuerSigns ==
    /\ fixture' = ResignContract(fixture)
    /\ UNCHANGED drifts

Next ==
    \/ \E d \in DriftNames : Suffer(d)
    \/ Wait
    \/ DeriverSigns
    \/ ApproverSigns
    \/ ApproverRebinds
    \/ IssuerSigns

Spec == Init /\ [][Next]_vars

-----------------------------------------------------------------------------
(* Properties. *)

\* Every answer of admit is a typed verdict.  A refusal leaves no record; an
\* ALLOW leaves a snapshot and the standing given on it, which runs out no earlier
\* than this very instant: at exactly the evidence's greatest age it is born
\* expired (harness.py:521-665).
TypeOK ==
    LET v == Evaluation(fixture) IN
    /\ v.admission \in Verdicts
    /\ v.engine_mode \in {"READY", "HALTED"}
    /\ v.admission # "ALLOW" => v.standing = None /\ v.snapshot = None
    /\ v.admission = "ALLOW" =>
           /\ v.standing.snapshot_digest = Digest(v.snapshot)
           /\ v.standing.evaluated_at = v.snapshot.checked_at
           /\ v.standing.evaluated_at <= v.standing.revalidate_by

\* A fixture as its principals may have left it: each signs again, or not.
SignedAgain(f) ==
    LET derivers == IF f.derivation.status = "ABSENT" THEN {f} ELSE {f, ResignDerivation(f)}
        approvers == derivers \cup {ResignApproval(g) : g \in derivers}
                     \cup {RebindApproval(g) : g \in {h \in derivers :
                                                         h.derivation.status # "ABSENT"}}
    IN  approvers \cup {ResignContract(g) : g \in approvers}

\* The reasons that one mutation of a fresh fixture can give by itself.
Earned ==
    [d \in DriftNames |-> {Evaluation(f).reason : f \in SignedAgain(Drift(d, Built))}]

\* The typed reason of a refusal is a reason one of the mutations earns by
\* itself: whichever occur together and whoever signs again in between, two
\* mutations never add up to a third one's reason (BREAK_IT.md:16).
ReasonIsEarned ==
    fixture.now = Now /\ ~Allowed(fixture) =>
        Evaluation(fixture).reason \in UNION {Earned[d] : d \in drifts}

\* An approval admits only the content it was given for: as long as the
\* approver has not signed again, no substitution of the policy, its closure,
\* its interpretation, its derivation or the obligation's text is admitted.
ApprovalPinsContent ==
    fixture.approval = Built.approval /\ Allowed(fixture) =>
        /\ Identity(fixture.policy) = Identity(Built.policy)
        /\ fixture.closure = Built.closure
        /\ fixture.interpretation = Built.interpretation
        /\ fixture.derivation = Built.derivation
        /\ fixture.obligation.content = Built.obligation.content

\* What the runtime reports it loaded is what the approver signed for, even
\* when the approver has rebound its approval to a divergent fixture.
RuntimeIsApproved ==
    Allowed(fixture) =>
        LET r == fixture.interpretation.runtime
            a == fixture.approval
        IN  /\ a.interpretation_digest = Digest([bound |-> r, runtime |-> r])
            /\ a.closure_digest =
                   Digest([fixture.closure EXCEPT
                               !.dependencies = fixture.closure.runtime_dependencies])
            /\ a.signature = Sign("approver", Digest(Signable(a)))

\* A standing lasts only as long as its evidence: at every instant before
\* revalidate_by the same fixture is still admitted, unless a grant has run
\* out (no horizon follows the grants' windows: harness.py:639-643).
HorizonIsSound ==
    Allowed(fixture) =>
        \A t \in fixture.now .. Evaluation(fixture).standing.revalidate_by - 1 :
            LET later == Evaluation([fixture EXCEPT !.now = t]) IN
            later.admission = "ALLOW" \/ later.reason = "DELEGATION_EXPIRED"

=============================================================================
