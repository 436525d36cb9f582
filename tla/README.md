# Obligation-Bound Policy Admission Lab: a TLA+ verification project

The lab (`src/src/obpa_lab`, about 2,000 lines of Python) is an in-memory reference
harness. A *fixture* is a bundle of proof objects around one candidate policy;
`AdmissionHarness` judges it (`admit`), swaps it into the slot of an engine
(`activate`), writes a decision for it (`issue_decision`) and has the governed effect
(`commit`); `resolve_after_candidate_failure` says what is left when the candidate is
refused. A register of 59 attacks, each a script over these calls, is judged by a typed
oracle. This directory models the calls, the proof-graph search inside `admit`, the
scripts and the oracle, checks them with TLC and proves the main results with TLAPS.
Line numbers are those of `harness.py` unless a file is
named.

## Inventory

| Component | State it keeps | Operations | What makes it correct |
|---|---|---|---|
| Proof objects (`model.py`), digests (`canonical.py`), keys (`crypto.py`) | none: values passed around | content digests, `signable`, sign, verify | a digest changes whenever what it is meant to bind changes |
| Admission: `admit`, `_authorised`, `_validate_observation`, `_validate_interpretation` | none; returns verdict, snapshot, standing | one chain of about 55 early returns | ALLOW only for what was approved and is current; the reason names a predicate that really failed; the horizon does not outlive the evidence |
| Engine and lifecycle: `EngineState`, `activate`, `issue_decision`, `commit` | slot (policy, closure, version), state version, mode, admission set, consequence count | three calls with 9, 5 and 10 outcomes | consequences only on a running engine under live standing; failures leave what they say they leave; records agree with the slot |
| Fixtures and attack scripts (`valid_fixture`, `scenarios.py`) | none | 59 scripts, each a mutation and some calls | inputs of the above |
| Proof-graph verifier (`validate_graph`) | search state of one call | depth-first search, order and manifest checks | accepts exactly complete, acyclic, ordered graphs |
| Fallback (`resolve_after_candidate_failure`) | none | a choice over two standings | nothing is allowed that neither an evaluation nor a fallback beside a sound incumbent allows |
| Receipts (`make_receipt`, `validate_receipt`) | none (`consumed_receipts` is written by a script, read by nothing) | sign, verify | content cannot change under a signature |
| Oracle and register (`types.py`, `registry.py`, JSON) | none | compare an outcome with a row | no pass for the wrong reason |
| Command line (`cli.py`) | what has passed so far | plays the register and two controls, writes a report | exits with 0 only if all of it passed |
| Manifest scripts, tests | none | file I/O | not modelled |

How they interact: a caller holds a fixture and passes it to every call. The fixture
contains the engine, so callers that share an engine share its state; the evaluation,
the activation record and the decision travel through the caller's hands and may be
old, or belong to a fixture that has since been changed, when they come back. The
`activation` argument of `commit` is never read. The calls run in one thread and are
atomic with respect to one another; concurrency inside a call (a lost race, a writer
after the guard, a failed or half-done write) is what the test hooks in `fixture.flags`
stand for, and the code acts on them at fixed places.

What is hard here, then, is not threads but *sequences*: calls of several callers in
any order on one engine, time passing and proof objects changing between them, a fault
in the middle of one of them and anything at all after it. Inside one call the search
of the proof graph is hard, because it is recursive over data the caller supplies; and
the scripts are, because they change a fixture in place, some of them write parts of
their own outcome, and the oracle sees only the end of it. `PROJECT.json` lists the
hazards at their lines.

## Modules

| Module | Models | State and actions |
|---|---|---|
| `Oracle` | the verdicts of `types.py`, the absence of a record | |
| `Digests` | `canonical.py`, `crypto.py`, `signable` | operators |
| `ProofGraph` | what `validate_graph` must answer, without searching; `_proof_graph` and the attacked graphs | operators |
| `GraphSearch` | `validate_graph` as the code does it | one action per call of `visit`, return, skip, and per refusal; a stack of `MaxFrames` frames |
| `MCGraphSearch` | the graphs for TLC | |
| `Records` | the dataclasses, `valid_fixture` | operators |
| `Admission` | `admit` and its three validators | operators; `Evaluation(f)` is what `admit` returns |
| `Drifts` | the mutations of `scenarios.py`, the re-signing helpers | operators |
| `AdmissionDrift` | one fixture between construction and admission | `Suffer` (a mutation), `Wait` (the environment: time passes), `DeriverSigns`, `ApproverSigns`, `ApproverRebinds`, `IssuerSigns` |
| `GovernedSlot` | nothing: the abstract promise about consequences | clock, gate, standing, licence, count |
| `Harness` | `activate`, `issue_decision`, `commit`, `resolve_after_candidate_failure`, and `admit` as a parameter | one action per return of each call; `Tick` and `Amend` are the environment |
| `Lab` | `Harness` over `Admission`: named fixtures, one for each mutation and thirteen more | supplies the parameters; how a caller comes by a refreshed or rebuilt fixture is the environment's doing |
| `MCLab` | sets for the configurations | |
| `Scenarios` | the 59 scripts, the controls, the oracle, the receipts, the loop of `cli.run` | one action per call a script makes, `Rewrite`, `Tamper`, `Construct`, `Judge` |
| `MCScenarios` | every fixture a script starts from | |
| `HarnessProofs`, `GraphSearchProofs` | theorems about the lifecycle and the search | |
| `AdmissionProofs` | what `admit` answers of any fixture | |
| `FixtureProofs` | `valid_fixture` is valid | |
| `DriftProofs`, `AdmissionDriftProofs` | the shape of a drifting fixture, and the theorems about it | |
| `ReasonProofs` | what each mutation leaves of the fixture, and which one a refusal is blamed on | |
| `LabProofs` | theorems about the composition | |

`Lab` composes `Harness` with `Admission` and `Drifts` (`CompositionAssumption`: the
parameters of `Harness` are the answers of `admit`, evaluated by every run of the lab), `Scenarios` composes `Lab` with the oracle;
`Admission` asks `ProofGraph` what the graph of a fixture deserves, and `GraphSearch`
shows that this is what the search answers.

**Records and Admission.** Field names are the code's. A digest is a wrapper around
exactly what the code hashes, so that two digests are equal when the hashed contents
are: `PolicyDigest` covers content and version and leaves scope, rules and design out,
as `Policy.content_digest` does. A signature is bound to a principal and a digest.
Fields that no check reads and that vary with nothing (ids, URIs) are left out, and so
are the two fields of the interpretation that the code sets and never compares.
`Evaluation` is a sequence of checks, each with its verdict, reason and predicate, in the
order of the early returns; the first that fails answers. A fixture's `proof_graph` is
the reason its graph and manifest deserve: `FixtureGraph` is `GraphAnswer` of the graph
`_proof_graph` builds, `CyclicGraph` and its like are `GraphAnswer` of the attacked ones.

**ProofGraph and GraphSearch.** `GraphAnswer` says by reachability (`Circle`), positions
and sets what the verdict must be. `GraphSearch` is the code: the scan of 415-425, then
`visit` as an explicit stack. A frame is a node and the index of the dependency its loop
takes next; `Descend` is a nested call, `Leave` a return, `FindCycle` the `False` that
falls through all frames at once, `Overflow` the `RecursionError` of the interpreter when
`MaxFrames` calls are nested, which nothing in the code catches. Every step of a call is
taken before the call returns: `Spec` has weak fairness of `Next`, because a function
that has been called runs; the code waits for nothing on the way.

**Harness.** The engine is a record with the fields of `EngineState` that a call
changes. A *chain* `r` in `Requests` is what one caller holds: `evidence[r]` (what its
fixture says), `evaluation[r]`, `decision[r]`. `Tick` passes time: `use_time` is
`fixture.use_time or fixture.now`, and `now` follows it or stays, since callers set the
two separately (the scripts move only `use_time`). `Amend` is a caller changing its
fixture between calls. What the code learns from the proof objects are the operator
constants `Evaluate`, `ActivationAuthority`, `InterpretationBinds`, `TargetInScope`,
`PolicyOf` and `ClosureOf`, so that the theorems hold for any admission procedure, and
`Lab` fills them in with `Admission`. `Resolve(r)` reads the standings of incumbent and
fallback from the fixture and the candidate's evaluation from the caller. `outcome` is the
`Outcome` of the call just made, with the count it reports; `records` collects the
activation records.

**Scenarios.** `Script[a]` is the sequence of calls of `run_attack(a)`, in the code's
order, with the hooks it raises and what it does to outcomes on the way: `Rewriting` is a
script that assigns to fields of the outcome it got (18, 33, 49), `Constructing` one that
hands back an outcome of its own after an assertion (19, 20, 50, 53 to 57). `AttackRegister`
has the rows of `attack-register.json`, field by field, `Passes` is `evaluate_oracle`
with its inverted mode for row 50, and `Accepted` adds what `cli.run` asks of the
controls. `predicate`, which `Harness` leaves out, is looked up by the reason each call
gives. A script plays on the engine and the fixture of its own harness: `Judge` ends one
and starts the next with fresh ones.

An operator whose comment begins with *Mutant of* is a plausible defect of the
definition after it. It is used nowhere; each property is shown to fail when its
mutant takes the place of the definition.

## Runs

| Run | Question | States |
|---|---|---|
| `admission_drift` | what may one fixture go through and still be admitted? | 11,300 |
| `lifecycle_faults` | what do faults half way through a call leave behind? | 81,000 |
| `lifecycle_fixtures` | what do consequences rest on when time passes and fixtures change? | 151,000 |
| `two_callers` | what may two callers do to each other? | 129,000 |
| `graph_search` | does the search of the proof graph answer, rightly, and without going over anything twice? | 131,000 |
| `attack_register` | does the harness pass its register? | 213 |

*admission_drift.* `ReasonIsEarned`: the reason of a refusal is one that some mutation
the fixture suffered earns by itself, whichever occur together and whoever signs again
in between. `ApprovalPinsContent`:
while the approver has not signed again, whoever else has, nothing but the approved
content is admitted. `RuntimeIsApproved`: what the runtime says it loaded is what the
approver signed, even if the approver rebinds to a diverged fixture. `HorizonIsSound`:
until `revalidate_by`, admission would answer ALLOW again, unless a grant's window ends
first.
*Bounds:* all pairs of the 41 mutations, in both orders, with any principals signing
again before, between and after; masking that takes a third mutation is not explored by
the run, and is what the theorems of `AdmissionDriftProofs` and `ReasonProofs` exclude,
which know no such bound; `Now`, `MaxAge`, `Span` small but distinct,
so that each of the three limits in the horizon can be the least; three minutes, past
the longest of them.

*lifecycle_faults.* One caller, one sound and four unsound fixtures, every hook.
`UnadmittedNeverRuns`, `ActiveIsRecorded`: whatever fails half way, an engine that runs
runs an admitted policy whose latest record says so. `ResumedOnlyByActivation`: a
stopped engine runs again only with a new record. `ReportedConsequenceIsReal`: the count a call reports, a literal 1 in the code, is what it
added to the engine's. `ChangesAreReported`: what the engine runs changes only under a
report that says so, and a call that stops the engine reports the mode it left it in (the
converse is false, see below).
`AllowIsEstablished`: whatever call reports ALLOW, somebody's evaluation or a fallback
beside an incumbent in good standing says so; the four unsound fixtures give incumbent
and fallback every combination that matters.
*Bounds:* two slot changes and three state changes are enough for a fault, a recovery
and a further fault; one minute of time, since faults do not depend on it.

*lifecycle_fixtures.* Six fixtures, among them one with refreshed evidence, one built
from another library, one whose activator's grant is about to end. `DecidedIsSwappedIn`
and `ConsequenceUnderFreshEvidence`: the caller for whom a consequence takes place has
evidence that `admit` would accept at that very instant, unless it was changed since.
*Bounds:* time runs past the last fixture's horizon.

*two_callers.* Two callers, symmetric, two candidates. `RecordsIdentifySlot`: a slot
version names one content, for the records and the engine. `ConsequenceIsGoverned`: the
lab implements `GovernedSlot`, with the mapping `Gate`, `Horizons`, `Licences`.

*graph_search.* `AnswerIsRight`: what the search returns is `GraphAnswer`.
`ValidNeverOverflows`: only a graph that is refused anyway can exhaust the frames, since
in one that is serialised in dependency order `visit` finds every dependency visited.
`NoWorkTwice`: no visit starts its loop over again, so a graph costs a call for each node
and dependency and not for each path. `SmallGraphsAreAnswered`: a graph with fewer nodes than
frames gets an answer and no `RecursionError`, cyclic or not. *Bounds:* every pair of nodes
with repeated names, missing and self-referring dependencies; every triple with shared
dependencies and two stages; every quadruple with up to two dependencies each (diamonds,
longer cycles); the fixture's graph cut anywhere, the wrong way round, with every
dependency added to its first thirteen nodes, and with forged manifests. Five frames: the
graphs of up to four nodes must be answered, the fixture's graph fills the frames when it is
out of order.

*attack_register.* The program takes no input, so this is one behaviour of 213
states. `RegisterPasses`: each script is passed by the oracle, both controls hold, so the program
exits with 0. `OnlyControlCommits`: the engine, not only the outcome, has no consequence
in any attack, and no attack hands back a count. `ReportedActivationIsReal`: a
script that reports the candidate active has it in the slot, though several refusals say
so without looking. `AssertionsHold`: no assertion of a script fails. *Bounds:* none is
reached: no script makes more than six steps.

`CHECK_DEADLOCK FALSE` in all but the last: the callers may stop calling, and do at the
bounds; a search that has answered is over. The register is checked for deadlock, so no
script hangs on a call the model cannot make. `MaxTime`, `MaxSlotVersion` and
`MaxStateVersion` bound the counters through guards; the theorems do not depend on their
values. The only fairness assumed is that of `GraphSearch`, where it is the interpreter
going on with a call. Between calls there is none: nothing retries or waits, and no caller
is obliged to make another call.

### Where the documents and the code part

Six further runs each state one sentence of the documents and find it violated
(quoted in `PROJECT.json`):

- `activation_after_horizon`: `activate` reads no clock, so a standing is used after
  its horizon. (Nothing is *committed* under it: `ConsequenceIsGoverned`.)
- `activation_of_another_build`: what is installed is what the fixture holds now, not
  what the standing's snapshot digested.
- `consequence_of_replaced_policy`: both sides of the final guard of `commit` are read
  inside `commit`; a slot taken over since the decision is not noticed.
- `consequence_after_revocation`: nor is a grant that was taken from the register since
  admission; `commit` reads neither register nor observation.
- `engine_mode_reported_not_set`: attack 32 passes a row that demands a halted engine, on
  an outcome that reports one; the engine runs on. A failed transaction (731-738) and an
  adapter mismatch (893-902) report HALTED likewise.
- `failure_rewrites_verdict`: an undeclared commit route is reported as DENY.

Remarks that have no run of their own. Evidence exactly `max_age` old is not yet stale,
and the standing granted on it has already expired, because one comparison is strict
(463-495) and the other is not (800, 859). `issue_decision` and the early returns of
`commit` report `activated` and mode ACTIVE of an engine they have not asked; no document
says what the field promises there, so only the ends of the scripts are checked
(`ReportedActivationIsReal`). The slot version `activate` expects is read inside the call
(721), so the compare-and-swap can lose only to a writer within it, which is the
`transaction_conflict` hook; activations one after the other both commit, each at a version
of its own. A contract that warrants absence still gives
HOLD for `ABSENCE_OBSERVED`: the last check accepts only `POSITIVELY_ESTABLISHED`. The
horizon does not follow the grants' windows. `resolve_after_candidate_failure` returns the
candidate's own refusal when the incumbent is in good standing and no fallback is
declared, lets an incumbent's DENY silence a fallback that is allowed, and passes an
admitted candidate through without asking whether its standing still runs. Ten of the 59
rows are judged on outcomes their scripts construct (19, 20, 50, 53 to 57) or rewrite
(18 and 33, scenarios.py 128-129 and 198-199, write the register's reason and predicate over the
ones the harness gave, though README.md:41 says that each attack checks its own); for these
the register does not test the harness. Nothing in the harness refuses a replayed receipt or
compares build ids.

## Proofs

`HarnessProofs` proves, for every set of callers, every set of fixtures, every set of
hooks and every answer admission may give (`EvidenceAssumption`: answers are typed, the
closure of a candidate is neither the readback's unexpected one nor none):

| Theorem | Says |
|---|---|
| `TypeCorrect` | `Spec => []TypeOK` |
| `SlotCorrect` | `Spec => []RecordsIdentifySlot` |
| `PartialNeverRuns` | `Spec => []UnadmittedNeverRuns` |
| `ActiveCorrect` | `Spec => []ActiveIsRecorded` |
| `DecisionCorrect` | `Spec => []DecidedIsSwappedIn` |
| `ResumptionCorrect` | `Spec => ResumedOnlyByActivation` |
| `ConsequenceReportsCorrect` | `Spec => ReportedConsequenceIsReal` |
| `ChangesReported` | `Spec => ChangesAreReported` |
| `AllowEstablished` | `Spec => []AllowIsEstablished` |
| `GovernedCorrect` | `Spec => ConsequenceIsGoverned`, the implementation of `GovernedSlot` |

The argument for the four slot theorems. `SlotInv` is `TypeOK`, the four properties, and one
strengthening, `ReadyIsUntouched`: in a READY engine the incumbent is alone in the
admission set. Without it `DecidedIsSwappedIn` is not inductive, because nothing else
says that a READY engine holds no decision on a candidate it once admitted. The four
lean on one another: `ActiveIsRecorded` needs the part of `RecordsIdentifySlot` that
bounds every record by the engine's slot version, so that a new record is the latest.
Each step is one of three *moves* of the engine (lemma `EngineMoves`): *kept*, *spoiled*
(the slot takes a content that no record vouches for and the engine stops) and
*recorded*. The invariant is preserved by each move instead of by each of 24 branches.
`ResumptionCorrect` follows: only the recorded move leaves a stopped mode, and its
record has a slot version no record has yet. The two theorems on outcomes sort the
steps again, by what they report (`Quiet`, `Marked`, `Overtaken`, `Effected`).
`GovernedCorrect` maps each step: `Admit` to `Judge`, `IssueDecision` to `Grant` or
`Withdraw`, `Activate` to `Move`, `Commit` to `Consequence` or a stutter.
`AllowEstablished` follows every report of ALLOW back to the evaluation or the fallback
that the call had to see.

`GraphSearchProofs` proves, for every set of graphs and manifests over any number of
nodes and every limit of at least two frames (`FramesAssumption`):

| Theorem | Says |
|---|---|
| `SearchTypeCorrect` | `Spec => []TypeOK`, the frame limit included |
| `SearchAnswersRight` | `Spec => []AnswerIsRight` |
| `OrderedGraphFits` | `Spec => []ValidNeverOverflows` |
| `SmallGraphFits` | a graph with fewer nodes than frames never exhausts them |
| `WorkIsLinear` | `Spec => NoWorkTwice` |

The invariant `SearchOK` says what visit's two sets mean. `PathOK`: the stack is the set
`visiting`, without repetition, and each frame is the dependency the one below took last,
so a dependency found in `visiting` closes a circle (`FoundCycle`). `TakenOK`: every
dependency taken has been visited or is the next frame, so a visit returns only when all
its dependencies are visited. Then `NoCircleVisited` is inductive: the first member of a
circle to be visited would need its successor visited before it. `RootsOK` carries this
to the end of the loop, where every node is visited and there is no circle
(`JudgedAcyclic`). `FlatWhenOrdered`: in an ordered graph the stack is at most the root.
Without `TakenOK` neither of the two properties is inductive, since nothing would say
what a frame has left behind it. `SmallGraphFits` is the safety half of `SmallGraphsAreAnswered`: the
frames in use hold different nodes (`PathOK`), so there are no more of them than nodes
(`OverflowFull`, by the pigeonhole principle). `WorkIsLinear`: a loop starts at a node that
is in neither set, and such a node's loop has never begun (`Unentered`).

`AdmissionProofs` proves, for every two fixtures with the fields the statement names:

| Theorem | Says |
|---|---|
| `ApprovalNamesOneContent` | two fixtures that are allowed on one approval agree on policy, closure, interpretation, derivation and the obligation's text |
| `AllowLasts` | what is allowed is allowed at every other instant of the obligation's window before `revalidate_by`, or a delegation has run out |
| `NothingOutlivesHorizon` | once `revalidate_by` is over, the same fixture is refused at every instant |

The argument follows the code's chain of early returns. `FirstFailureIs` says what the first
failing check of a sequence is, `ChainsConcatenate` that the checks of a concatenation are
those of its parts, `AdmissionChain` that `admit` is such a concatenation, and a *chain lemma*
for each part enumerates its checks. So `AllowedPasses`: an ALLOW means that every check of
every part passes; `AdmitAnswers`: any other answer is that of a check which fails, with its
typed verdict. For `ApprovalNamesOneContent` the digests do the rest: an approval holds the
digest of the derivation as signed, the derivation that of the obligation's text, and a
digest is injective (`DigestIsInjective`, `AttestedContent`). For `AllowLasts` each part is
asked again at the other instant: a part that reads no clock answers the same
(`TimelessLast`), an authority can only have expired (`AuthorityCanOnlyExpire`), and
`HorizonIsEarliest` puts the instant before each limit of the evidence.

`FixtureProofs` proves `ValidIsAllowed`: `valid_fixture` is allowed, for every policy and
every `Now`, `MaxAge` and `Span`. It evaluates every check, and the proof graph of 21
nodes (`FixtureGraphIsValid`: a node stands after what it depends on, so there is no
circle). It is why no theorem about what is allowed speaks of nothing.

`AdmissionDriftProofs` proves, for any number of mutations, any waiting and any windows:

| Theorem | Says |
|---|---|
| `ShapeCorrect` | `Spec => []FixtureOK` |
| `AnswerTypeCorrect` | `Spec => []TypeOK` |
| `ApprovalPins` | `Spec => []ApprovalPinsContent` |
| `RuntimeCorrect` | `Spec => []RuntimeIsApproved` |
| `HorizonCorrect` | `Spec => []HorizonIsSound` |

The inductive invariant is `FixtureOK`, the *shape* of a fixture (`Shaped` in `DriftProofs`):
each part is a record with its fields, the instants are integers, the obligation's window
still begins where it began, and a grant to approve is the approver's. None of the four
properties is inductive by itself: a mutation may undo what another did, so a fixture that
is refused now may be allowed later, and only the shape of it is known. `DriftProofs` shows
part by part that each of the 41 mutations and each of the signatures keeps the shape. Given
the shape, the properties follow from `AdmissionProofs`: `ApprovalPins` compares the fixture
with the one that was built (`BuiltIsAttested`), `RuntimeCorrect` needs that a grant
to approve is the approver's, whose key therefore signed, `HorizonCorrect` and `AnswerTypeCorrect` that
the limits are instants.

`ReasonProofs` proves, for the same behaviours, that refusals are honest:

| Theorem | Says |
|---|---|
| `TracedCorrect` | `Spec => []TracedInv` |
| `ReasonCorrect` | `Spec => []ReasonIsEarned` |
| `InnocenceCorrect` | `Spec => []OnlyReapproved`: what is admitted suffered no mutation that a check is about, except the three that only the approval stands against (another design, an approval for another policy, other assumptions) |

`ReasonIsEarned` is not inductive, and the shape of a fixture is too weak to make it so,
since a record of the right fields may hold anything in them. The inductive invariant
`TracedInv` (`Traced`) says what each part does hold: until time passes, every field is as it was
built, but for what a mutation in `drifts` has made of it, and a digest in the derivation, the
approval or the observation is that of the part as it was or as it is. The delicate part is
the approval, because it may have been given before or after anything else happened:
`ApprovalTraced` says of each of its digests that it is the built one unless a mutation
reached what it names (`UnreachedAsBuilt`). One lemma for each group of mutations and each
signature shows that the invariant is kept (`DriftTraced`, `DeriverSigningTraced` and its
like), whatever happened before.

With it a refusal can be blamed. `RefusalAnswers` (in `AdmissionProofs`) says that it is the
answer of a failing check of some part of the chain, all checks before which pass; for
each part a lemma (`ObligationFails`, `DerivationFails`, ...) says which mutations make
which check fail, and another (`ObligationBlames`, ...) that the reason is then the one of a mutation
in `drifts`, and that none of the part's mutations occurred if all its checks pass. The later
lemmas rest on that: that the derivation is as it was, for instance, is known once the
obligation's checks have passed. So `RefusalIsBlamed`. It remains that the mutation earns the
reason alone (`BlameIsEarned`): a mutation that stands alone is blamed too, because nothing
else is there to blame (`AloneIsBlamed`), and the reason is the same one if the principals
sign again as they have signed in the fixture at hand. For `graph_cyclic` it is
`PROOF_GRAPH_CYCLE` (`CycleIsFound`), so the answer `GraphAnswer` gives of both graphs that a
fixture may carry is evaluated and not assumed. `InnocenceCorrect` reads the same lemmas the other way.
TLC finds `TracedInv` and `OnlyReapproved` to hold of the run's behaviours, and fixtures that are
admitted with two of the three mutations among them.

`LabProofs` joins the two halves:

| Theorem | Says |
|---|---|
| `LabMeetsHarness` | `EvidenceTyped`: what `Harness` assumes of its parameters is true of `admit`'s answers over the lab's fixtures |
| `FreshEvidence` | `Spec => ConsequenceUnderFreshEvidence` |

Every fixture a caller may hold has the shape (`FixturesShaped`), so what `admit` answered
lasts until the horizon (`AnswerLasts`); `commit` compares the instant of use with that
horizon before it has an effect (`EffectIsFresh`). `LabMeetsHarness` is proved without
`EvidenceAssumption`, and so discharges it: the theorems of `HarnessProofs` hold of the
composed lab, whatever the windows and however long the run. It needs that the first
instant lies inside the windows and that the callers hold fixtures of the lab
(`LabAssumption`), and that the closures' names are names (`ClosureNames`).

The assumptions on constants: `BoundsAssumption` (the run's instants are natural numbers, the
hooks are hooks, `None` is no record), `EvidenceAssumption`, `FramesAssumption`,
`TimeAssumption` (the windows contain the instants `valid_fixture` uses, and evidence lasts
more than the minute it is old), `LabAssumption`, `ClosureNames` and
`CompositionAssumption`. Each is evaluated by a passing run.

Only model-checked:

- That a small graph is *eventually* answered (`SmallGraphsAreAnswered`), since liveness is out
  of the prover's reach; that it does not overflow is `SmallGraphFits`.
- The register's properties, which speak of one behaviour on constants: running it is
  the proof.

## Plan

Done: records and admission, the lifecycle and its abstract slot, the search of the proof
graph, the fallback, the scripts with oracle and receipts; the proofs about each and
about the composition of lifecycle and admission; the reasons of refusals. Every
property of a passing run is a theorem now, but for the two kinds just named. Left:

1. `ReasonIsEarned` once time has passed. It is stated for the instant of construction; what is
   refused later may be refused for its age, so the statement would have to count the minutes among
   the mutations, and `Traced` the instants that signatures leave behind.
2. `OnlyReapproved` for the composed lab: an admitted caller's fixture has none of the
   mutations outside the three, at any instant it may be admitted.

## Not modelled

Canonical JSON byte by byte and the Ed25519 and SHA-256 primitives: digests are injective
and signatures unforgeable here by construction. The loading of the register from its file
(`registry.py`, whose check of ids and titles concerns the file alone), the writing of the
report and the arguments of the command line: I/O. The manifest scripts, which hash the
files of a checkout in one pass and keep no state. Fields of outcomes that nothing
compares (`sequence`, `operation_results`, `evidence`, the traces), and release build ids,
which only a script writes and nothing reads.
