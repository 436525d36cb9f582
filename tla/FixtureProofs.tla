--------------------------- MODULE FixtureProofs ---------------------------
(***************************************************************************)
(* The consistent fixture is admitted: the theorems about what an ALLOW    *)
(* promises speak of something, whatever the instants and the windows are. *)
(***************************************************************************)
EXTENDS AdmissionProofs

-----------------------------------------------------------------------------
(* The graph that every fixture carries is valid. *)

\* Where each node of the fixture's graph stands.
Place ==
    [obligation |-> 1, register |-> 2, candidate |-> 3, closure |-> 4, interpretation |-> 5,
     tcb |-> 6, contract |-> 7, observation |-> 8, precontext |-> 9, derive_auth |-> 10,
     attestation |-> 11, approve_auth |-> 12, approval |-> 13, snapshot |-> 14,
     standing |-> 15, activate_auth |-> 16, activation |-> 17, engine_observation |-> 18,
     decision |-> 19, commit_guard |-> 20, commit_result |-> 21]

\* The node stands where Place says, and so do its dependencies, all of them
\* before it and none of a later stage.
InPlace(i) ==
    LET node == FixtureNodes[i] IN
    /\ node.object_id \in DOMAIN Place /\ Place[node.object_id] = i
    /\ \A k \in DOMAIN node.depends_on :
           LET d == node.depends_on[k] IN
           /\ d \in DOMAIN Place /\ Place[d] \in 1..21
           /\ FixtureNodes[Place[d]].object_id = d
           /\ Place[d] < i /\ FixtureNodes[Place[d]].stage <= node.stage

\* The nodes one by one.
LEMMA FixtureRows ==
    /\ DOMAIN FixtureNodes = 1..21
    /\ FixtureNodes[1] = Row("obligation", 0, <<>>)
    /\ FixtureNodes[2] = Row("register", 0, <<>>)
    /\ FixtureNodes[3] = Row("candidate", 0, <<>>)
    /\ FixtureNodes[4] = Row("closure", 0, <<>>)
    /\ FixtureNodes[5] = Row("interpretation", 0, <<>>)
    /\ FixtureNodes[6] = Row("tcb", 0, <<>>)
    /\ FixtureNodes[7] = Row("contract", 1, <<"register", "tcb">>)
    /\ FixtureNodes[8] = Row("observation", 2, <<"contract">>)
    /\ FixtureNodes[9] =
           Row("precontext", 2, <<"obligation", "register", "candidate", "closure",
                                "interpretation", "tcb", "contract", "observation">>)
    /\ FixtureNodes[10] = Row("derive_auth", 3, <<"precontext", "register">>)
    /\ FixtureNodes[11] = Row("attestation", 3, <<"precontext", "derive_auth">>)
    /\ FixtureNodes[12] = Row("approve_auth", 4, <<"precontext", "attestation", "register">>)
    /\ FixtureNodes[13] = Row("approval", 4, <<"precontext", "attestation", "approve_auth">>)
    /\ FixtureNodes[14] = Row("snapshot", 5, <<"precontext", "approval">>)
    /\ FixtureNodes[15] = Row("standing", 6, <<"snapshot">>)
    /\ FixtureNodes[16] = Row("activate_auth", 7, <<"snapshot", "standing", "register">>)
    /\ FixtureNodes[17] = Row("activation", 7, <<"activate_auth", "standing">>)
    /\ FixtureNodes[18] = Row("engine_observation", 8, <<"activation">>)
    /\ FixtureNodes[19] = Row("decision", 9, <<"standing", "engine_observation">>)
    /\ FixtureNodes[20] = Row("commit_guard", 10, <<"decision", "engine_observation">>)
    /\ FixtureNodes[21] = Row("commit_result", 10, <<"commit_guard">>)
BY DEF FixtureNodes

\* Each of them is in its place.
LEMMA NodesInPlace == \A i \in 1..21 : InPlace(i)
<1>1. InPlace(1)
  BY FixtureRows DEF InPlace, Row, Place
<1>2. InPlace(2)
  BY FixtureRows DEF InPlace, Row, Place
<1>3. InPlace(3)
  BY FixtureRows DEF InPlace, Row, Place
<1>4. InPlace(4)
  BY FixtureRows DEF InPlace, Row, Place
<1>5. InPlace(5)
  BY FixtureRows DEF InPlace, Row, Place
<1>6. InPlace(6)
  BY FixtureRows DEF InPlace, Row, Place
<1>7. InPlace(7)
  BY FixtureRows DEF InPlace, Row, Place
<1>8. InPlace(8)
  BY FixtureRows DEF InPlace, Row, Place
<1>9. InPlace(9)
  BY FixtureRows DEF InPlace, Row, Place
<1>10. InPlace(10)
  BY FixtureRows DEF InPlace, Row, Place
<1>11. InPlace(11)
  BY FixtureRows DEF InPlace, Row, Place
<1>12. InPlace(12)
  BY FixtureRows DEF InPlace, Row, Place
<1>13. InPlace(13)
  BY FixtureRows DEF InPlace, Row, Place
<1>14. InPlace(14)
  BY FixtureRows DEF InPlace, Row, Place
<1>15. InPlace(15)
  BY FixtureRows DEF InPlace, Row, Place
<1>16. InPlace(16)
  BY FixtureRows DEF InPlace, Row, Place
<1>17. InPlace(17)
  BY FixtureRows DEF InPlace, Row, Place
<1>18. InPlace(18)
  BY FixtureRows DEF InPlace, Row, Place
<1>19. InPlace(19)
  BY FixtureRows DEF InPlace, Row, Place
<1>20. InPlace(20)
  BY FixtureRows DEF InPlace, Row, Place
<1>21. InPlace(21)
  BY FixtureRows DEF InPlace, Row, Place
<1>22. 1..21 = {1, 2, 3, 4, 5, 6, 7, 8, 9, 10, 11, 12, 13, 14, 15, 16, 17, 18, 19, 20, 21}
  OBVIOUS
<1> QED
  BY <1>1, <1>2, <1>3, <1>4, <1>5, <1>6, <1>7, <1>8, <1>9, <1>10, <1>11, <1>12,
     <1>13, <1>14, <1>15, <1>16, <1>17, <1>18, <1>19, <1>20, <1>21, <1>22

\* validate_graph answers PROOF_GRAPH_VALID of the graph that _proof_graph
\* builds (harness.py).
LEMMA FixtureGraphIsValid == FixtureGraph = "PROOF_GRAPH_VALID"
<1> DEFINE n == FixtureNodes
<1>1. DOMAIN n = 1..21
  BY FixtureRows
<1>2. \A i \in 1..21 : InPlace(i)
  BY NodesInPlace
<1> HIDE DEF n
<1>3. ASSUME NEW i \in 1..21, NEW k \in DOMAIN n[i].depends_on
      PROVE  DepAt(n, i, k) < i /\ n[DepAt(n, i, k)].stage <= n[i].stage
  <2> DEFINE d == n[i].depends_on[k]
  <2>1. /\ Place[d] \in 1..21 /\ n[Place[d]].object_id = d
        /\ Place[d] < i /\ n[Place[d]].stage <= n[i].stage
    BY <1>2 DEF InPlace, n
  <2>2. ASSUME NEW j \in 1..21, n[j].object_id = d PROVE j = Place[d]
    BY <1>2, <2>2 DEF InPlace, n
  <2>3. Position(n, d) = Place[d]
    BY <1>1, <2>1, <2>2 DEF Position
  <2> QED  BY <2>1, <2>3 DEF DepAt
<1>4. DependenciesFirst(n)
  BY <1>1, <1>3 DEF DependenciesFirst
<1>5. WellFormed(n)
  <2> SUFFICES ASSUME NEW i \in 1..21
               PROVE  /\ ~Duplicate(n, i) /\ ~SelfReference(n, i)
                      /\ Range(n[i].depends_on) \subseteq Ids(n)
    BY <1>1 DEF WellFormed
  <2>1. ~Duplicate(n, i)
    <3>1. ASSUME NEW j \in 1..(i - 1) PROVE n[j].object_id # n[i].object_id
      <4>1. j \in 1..21 /\ j # i
        OBVIOUS
      <4> QED  BY <1>2, <4>1 DEF InPlace, n
    <3> QED  BY <3>1 DEF Duplicate
  <2>2. ~SelfReference(n, i)
    <3>1. InPlace(i)
      BY <1>2
    <3>2. ASSUME NEW k \in DOMAIN n[i].depends_on
          PROVE  n[i].depends_on[k] # n[i].object_id
      BY <3>1 DEF InPlace, n
    <3> QED  BY <3>2 DEF SelfReference, Range
  <2>3. Range(n[i].depends_on) \subseteq Ids(n)
    <3>1. ASSUME NEW k \in DOMAIN n[i].depends_on PROVE n[i].depends_on[k] \in Ids(n)
      <4>1. /\ Place[n[i].depends_on[k]] \in 1..21
            /\ n[Place[n[i].depends_on[k]]].object_id = n[i].depends_on[k]
        BY <1>2 DEF InPlace, n
      <4> QED  BY <1>1, <4>1 DEF Ids
    <3> QED  BY <3>1 DEF Range
  <2> QED  BY <2>1, <2>2, <2>3
<1>6. Required \subseteq Ids(n)
  <2>1. /\ n[1].object_id = "obligation" /\ n[2].object_id = "register"
        /\ n[7].object_id = "contract" /\ n[8].object_id = "observation"
        /\ n[11].object_id = "attestation" /\ n[13].object_id = "approval"
        /\ n[14].object_id = "snapshot" /\ n[15].object_id = "standing"
    BY FixtureRows DEF Row, n
  <2>2. \A i \in 1..21 : n[i].object_id \in Ids(n)
    BY <1>1 DEF Ids
  <2> QED  BY <2>1, <2>2 DEF Required
<1>7. FixtureGraph = GraphAnswer(n, Manifest(n))
  BY DEF FixtureGraph, FixtureManifest, n
<1> QED  BY <1>4, <1>5, <1>6, <1>7 DEF GraphAnswer, LinearReason, Complete

-----------------------------------------------------------------------------
(* Every other check of admit passes as well. *)

\* What the fixture is made of.
LEMMA FixtureParts ==
    ASSUME NEW id
    PROVE  LET v == ValidFixture(id)
               p == Policy(id)
           IN  /\ v.now = Now /\ v.obligation = Obligation /\ v.register = Register
               /\ v.policy = p /\ v.closure = Closure(p)
               /\ v.interpretation = Interpretation(p) /\ v.derivation = Derivation(p)
               /\ v.approval = Approval(p) /\ v.observation_contract = Contract
               /\ v.observation = Observation /\ v.flags = {}
               /\ v.proof_graph = FixtureGraph
               /\ p.scope = Device7 /\ p.version = 1 /\ p.content = id
BY DEF ValidFixture, Policy

\* Now is inside every window, and a scope contains itself.
LEMMA WithinWindow == WindowContains(Window, Now) /\ ScopeContains(Device7, Device7)
<1>1. WindowContains(Window, Now)
  <2>1. Window.valid_from = Now - Span /\ Window.valid_until = Now + Span
    BY DEF Window
  <2> QED  BY <2>1, TimeAssumption DEF WindowContains
<1> QED  BY <1>1 DEF ScopeContains

\* The register lets each holder do what its grant is for.
LEMMA HoldersMay ==
    ASSUME NEW id, NEW h \in DOMAIN Holder
    PROVE  ~Refused(Authorised(ValidFixture(id), Holder[h][1], Holder[h][2], h, Device7))
<1> DEFINE v == ValidFixture(id)
           c == GrantChecks(v, v.register.grants[h], Holder[h][1], Holder[h][2], Device7)
<1>1. /\ v.register.grants = [x \in DOMAIN Holder |-> Grant(x)]
      /\ v.register.version = 1 /\ v.now = Now
  <2>1. v.register = Register /\ v.now = Now
    BY FixtureParts
  <2>2. Register.grants = [x \in DOMAIN Holder |-> Grant(x)] /\ Register.version = 1
    BY DEF Register
  <2> HIDE DEF v
  <2> QED  BY <2>1, <2>2
<1> HIDE DEF v
<1>2. v.register.grants[h] = Grant(h)
  BY <1>1
<1>3. /\ Grant(h).principal = Holder[h][1] /\ Grant(h).capability = Holder[h][2]
      /\ Grant(h).register_version = 1 /\ Grant(h).revoked = FALSE
      /\ Grant(h).window = Window /\ Grant(h).scope = Device7
      /\ Grant(h).self_authored = FALSE
  BY DEF Grant
<1>4. /\ ~c[1].fails /\ ~c[2].fails /\ ~c[3].fails /\ ~c[4].fails /\ ~c[5].fails
      /\ ~c[6].fails
  <2> DEFINE g == v.register.grants[h]
  <2>1. /\ c[1].fails = (g.principal # Holder[h][1] \/ g.capability # Holder[h][2])
        /\ c[2].fails = (g.register_version # v.register.version)
        /\ c[3].fails = g.revoked /\ c[4].fails = ~WindowContains(g.window, v.now)
        /\ c[5].fails = ~ScopeContains(g.scope, Device7) /\ c[6].fails = g.self_authored
    BY GrantChecksAre
  <2> HIDE DEF c
  <2> QED  BY <1>1, <1>2, <1>3, <2>1, WithinWindow
<1>5. Checks(c) = {c[1], c[2], c[3], c[4], c[5], c[6]}
  BY GrantChecksAre
<1> HIDE DEF c
<1>6. Passing(c)
  BY <1>4, <1>5 DEF Passing
<1> QED  BY <1>1, <1>6, EstablishedAuthority DEF v, c

\* What is signed by its own principal has a valid signature.
LEMMA SignedIsValid ==
    ASSUME NEW rec, "principal" \in DOMAIN rec
    PROVE  SignatureValid(Signed(rec, rec.principal))
<1> DEFINE s == Signed(rec, rec.principal)
<1>1. /\ s.signed_digest = Digest(Signable(rec))
      /\ s.signature = Sign(rec.principal, Digest(Signable(rec)))
      /\ s.principal = rec.principal
  BY DEF Signed
<1>2. Signable(s) = Signable(rec)
  BY DEF Signable, Restrict, Signed
<1> QED  BY <1>1, <1>2 DEF SignatureValid, Verify

\* The checks of the obligation pass.
LEMMA ObligationPasses ==
    ASSUME NEW id PROVE Passing(ObligationChecks(ValidFixture(id)))
<1> DEFINE v == ValidFixture(id)
           c == ObligationChecks(v)
           issuer == Authorised(v, v.obligation_issuer, "REGISTER_OBLIGATION",
                                v.obligation_issuer_grant_id, v.obligation.scope)
<1>1. /\ v.checker_enabled = TRUE /\ v.verification_configured = TRUE
      /\ v.claimed_obligation_id = "obl-1"
      /\ v.policy_source_current_digest = ObligationDigest(Obligation)
      /\ v.latest_policy_version = 1 /\ v.obligation_issuer = "obligation-issuer"
      /\ v.obligation_issuer_grant_id = "g_register"
  BY DEF ValidFixture
<1>2. /\ v.now = Now /\ v.obligation = Obligation /\ v.register = Register
      /\ v.policy.scope = Device7 /\ v.policy.version = 1 /\ v.flags = {}
  BY FixtureParts
<1>3. /\ Obligation.obligation_id = "obl-1" /\ Obligation.superseded = FALSE
      /\ Obligation.revoked = FALSE /\ Obligation.window = Window
      /\ Obligation.scope = Device7 /\ Obligation.actual_conflicts = {}
      /\ Obligation.resolved_by = ""
      /\ Register.version = 1 /\ Register.current_version = 1
      /\ Register.fork_detected = FALSE /\ Register.trusted_time_observed = TRUE
  BY DEF Obligation, Register
<1>4. ~Refused(issuer)
  <2>1. /\ "g_register" \in DOMAIN Holder
        /\ Holder["g_register"][1] = "obligation-issuer"
        /\ Holder["g_register"][2] = "REGISTER_OBLIGATION"
    BY DEF Holder
  <2>2. issuer = Authorised(v, "obligation-issuer", "REGISTER_OBLIGATION", "g_register",
                            Device7)
    BY <1>1, <1>2, <1>3
  <2> HIDE DEF issuer, v
  <2> QED  BY <2>1, <2>2, HoldersMay DEF v
<1> HIDE DEF v
<1>5. ~c[1].fails
  BY <1>1 DEF ObligationChecks, Deny, Halt
<1>6. ~c[2].fails /\ ~c[3].fails /\ ~c[4].fails /\ ~c[5].fails /\ ~c[6].fails
  BY <1>1, <1>2, <1>3, WithinWindow DEF ObligationChecks, Deny
<1>7. ~c[7].fails /\ ~c[8].fails /\ ~c[9].fails
  <2>1. /\ c[7].fails = (v.register.version < v.register.current_version)
        /\ c[8].fails = v.register.fork_detected
        /\ c[9].fails = ~v.register.trusted_time_observed
    BY DEF ObligationChecks, Deny, Hold
  <2>2. v.register.version = 1 /\ v.register.current_version = 1
    BY <1>2, <1>3
  <2>3. v.register.fork_detected = FALSE /\ v.register.trusted_time_observed = TRUE
    BY <1>2, <1>3, Zenon
  <2> HIDE DEF c
  <2>4. ~c[7].fails
    <3>1. ~(v.register.version < v.register.current_version)
      BY <2>2
    <3> QED  BY <2>1, <3>1, Zenon
  <2> QED  BY <2>1, <2>3, <2>4
<1>8. ~c[10].fails /\ ~c[11].fails
  BY <1>2, <1>3, <1>4 DEF ObligationChecks, Deny, Hold
<1>9. ~c[12].fails /\ ~c[13].fails /\ ~c[14].fails
  <2>1. /\ c[12].fails => v.obligation.resolved_by # ""
        /\ c[13].fails = (v.policy.version < v.latest_policy_version)
        /\ c[14].fails = ("exception_generalised" \in v.flags)
    BY DEF ObligationChecks, Deny
  <2>2. v.obligation.resolved_by = "" /\ v.flags = {}
    BY <1>2, <1>3
  <2>3. v.policy.version = 1 /\ v.latest_policy_version = 1
    BY <1>1, <1>2
  <2> HIDE DEF c
  <2>4. ~c[12].fails
    BY <2>1, <2>2
  <2>5. ~c[13].fails
    <3>1. ~(v.policy.version < v.latest_policy_version)
      BY <2>3
    <3> QED  BY <2>1, <3>1, Zenon
  <2>6. ~c[14].fails
    BY <2>1, <2>2
  <2> QED  BY <2>4, <2>5, <2>6
<1>10. Checks(c) = {c[1], c[2], c[3], c[4], c[5], c[6], c[7], c[8], c[9], c[10], c[11],
                    c[12], c[13], c[14]}
  BY ObligationChain
<1> HIDE DEF c
<1> QED
  BY <1>5, <1>6, <1>7, <1>8, <1>9, <1>10 DEF Passing, c, v

\* The checks of the derivation pass: the principal signed it, and it covers
\* every rule of the closure.
LEMMA DerivationPasses ==
    ASSUME NEW id PROVE Passing(DerivationChecks(ValidFixture(id)))
<1> DEFINE v == ValidFixture(id)
           c == DerivationChecks(v)
           d == v.derivation
           p == Policy(id)
           signed == [status |-> "CURRENT", obligation_digest |-> ObligationDigest(Obligation),
                      policy_digest |-> PolicyDigest(p), coverage |-> p.rules,
                      assumptions |-> "declared-inputs-only", principal |-> "deriver",
                      grant_id |-> "g_derive"]
           authority == Authorised(v, d.principal, "DERIVE_POLICY", d.grant_id,
                                   v.policy.scope)
<1>1. /\ d = Signed(signed, "deriver") /\ v.policy = p /\ v.obligation = Obligation
      /\ v.policy.scope = Device7 /\ v.closure = Closure(p)
  BY FixtureParts DEF Derivation
<1>2. /\ d.status = "CURRENT" /\ d.obligation_digest = ObligationDigest(Obligation)
      /\ d.policy_digest = PolicyDigest(p) /\ d.coverage = p.rules
      /\ d.principal = "deriver" /\ d.grant_id = "g_derive"
  BY <1>1 DEF Signed
<1>3. SignatureValid(d)
  <2>1. "principal" \in DOMAIN signed /\ signed.principal = "deriver"
    OBVIOUS
  <2> HIDE DEF signed, d
  <2> QED  BY <1>1, <2>1, SignedIsValid
<1>4. v.closure.rule_inventory.known = TRUE /\ v.closure.rule_inventory.rules = p.rules
  BY <1>1 DEF Closure
<1> HIDE DEF d, signed, v
<1>5. ~Refused(authority)
  <2>1. /\ "g_derive" \in DOMAIN Holder
        /\ Holder["g_derive"][1] = "deriver" /\ Holder["g_derive"][2] = "DERIVE_POLICY"
    BY DEF Holder
  <2>2. authority = Authorised(v, "deriver", "DERIVE_POLICY", "g_derive", Device7)
    BY <1>1, <1>2
  <2> HIDE DEF authority
  <2> QED  BY <2>1, <2>2, HoldersMay DEF v
<1>6. Unmapped(v) = {}
  BY <1>2, <1>4 DEF Unmapped, d
<1>7. /\ c[1].fails = (d.status = "ABSENT") /\ c[2].fails = (d.status # "CURRENT")
      /\ c[3].fails = (\/ d.obligation_digest # ObligationDigest(v.obligation)
                       \/ d.policy_digest # PolicyDigest(v.policy))
      /\ c[4].fails = ~SignatureValid(d) /\ c[5].fails = Refused(authority)
      /\ c[6].fails = ~v.closure.rule_inventory.known
      /\ c[7].fails = Unsupported(v) /\ c[8].fails = (Unmapped(v) # {})
  BY DEF DerivationChecks, Deny, Hold, d
<1>8. Checks(c) = {c[1], c[2], c[3], c[4], c[5], c[6], c[7], c[8]}
  BY DerivationChain
<1> HIDE DEF c, authority
<1>9. /\ ~c[1].fails /\ ~c[2].fails /\ ~c[3].fails /\ ~c[4].fails /\ ~c[5].fails
      /\ ~c[7].fails /\ ~c[8].fails
  BY <1>1, <1>2, <1>3, <1>5, <1>6, <1>7 DEF Unsupported
<1>10. ~c[6].fails
  BY <1>4, <1>7, Zenon
<1> QED  BY <1>8, <1>9, <1>10 DEF Passing, c, v

\* The checks of the approval pass: it names what is in the fixture.
LEMMA ApprovalPasses ==
    ASSUME NEW id PROVE Passing(ApprovalChecks(ValidFixture(id)))
<1> DEFINE v == ValidFixture(id)
           c == ApprovalChecks(v)
           a == v.approval
           p == Policy(id)
           signed == [policy_digest |-> PolicyDigest(p),
                      closure_digest |-> Digest(Closure(p)),
                      interpretation_digest |-> Digest(Interpretation(p)),
                      attestation_digest |-> Digest(Signable(Derivation(p))),
                      design_digest |-> p.design_digest, scope_digest |-> Digest(p.scope),
                      principal |-> "approver", grant_id |-> "g_approve",
                      approved_at |-> Now - 2, activation_requested_at |-> Now - 1]
           authority == Authorised(v, a.principal, "APPROVE_POLICY", a.grant_id,
                                   v.policy.scope)
<1>1. /\ a = Signed(signed, "approver") /\ v.policy = p /\ v.policy.scope = Device7
      /\ v.closure = Closure(p) /\ v.interpretation = Interpretation(p)
      /\ v.derivation = Derivation(p)
  BY FixtureParts DEF Approval
<1>2. /\ a.policy_digest = PolicyDigest(p) /\ a.closure_digest = Digest(Closure(p))
      /\ a.interpretation_digest = Digest(Interpretation(p))
      /\ a.attestation_digest = Digest(Signable(Derivation(p)))
      /\ a.design_digest = p.design_digest /\ a.scope_digest = Digest(p.scope)
      /\ a.principal = "approver" /\ a.grant_id = "g_approve"
      /\ a.approved_at = Now - 2 /\ a.activation_requested_at = Now - 1
  BY <1>1 DEF Signed
<1>3. SignatureValid(a)
  <2>1. "principal" \in DOMAIN signed /\ signed.principal = "approver"
    OBVIOUS
  <2> HIDE DEF signed, a
  <2> QED  BY <1>1, <2>1, SignedIsValid
<1> HIDE DEF a, signed, v
<1>4. ~Refused(authority)
  <2>1. /\ "g_approve" \in DOMAIN Holder
        /\ Holder["g_approve"][1] = "approver" /\ Holder["g_approve"][2] = "APPROVE_POLICY"
    BY DEF Holder
  <2>2. authority = Authorised(v, "approver", "APPROVE_POLICY", "g_approve", Device7)
    BY <1>1, <1>2
  <2> HIDE DEF authority
  <2> QED  BY <2>1, <2>2, HoldersMay DEF v
<1>5. ApprovalBound(v)
  BY <1>1, <1>2 DEF ApprovalBound, a
<1>6. /\ c[1].fails = (a.approved_at > a.activation_requested_at)
      /\ c[2].fails = ~ApprovalBound(v)
      /\ c[3].fails = (a.design_digest # v.policy.design_digest)
      /\ c[4].fails = ~SignatureValid(a) /\ c[5].fails = Refused(authority)
  BY DEF ApprovalChecks, Deny, a
<1>7. Checks(c) = {c[1], c[2], c[3], c[4], c[5]}
  BY ApprovalChain
<1> HIDE DEF c, authority
<1>8. ~(a.approved_at > a.activation_requested_at)
  BY <1>2, TimeAssumption
<1>9. ~c[1].fails
  BY <1>6, <1>8, Zenon
<1>10. ~c[2].fails /\ ~c[3].fails /\ ~c[4].fails /\ ~c[5].fails
  BY <1>1, <1>2, <1>3, <1>4, <1>5, <1>6
<1> QED  BY <1>7, <1>9, <1>10 DEF Passing, c, v

\* The checks of the closure, of what the runtime loaded, of the environment
\* and of the graph pass.
LEMMA RuntimePasses ==
    ASSUME NEW id
    PROVE  LET v == ValidFixture(id) IN
           /\ Passing(ClosureChecks(v)) /\ Passing(InterpretationChecks(v))
           /\ Passing(EnvironmentChecks(v)) /\ Passing(GraphChecks(v))
<1> DEFINE v == ValidFixture(id)
           p == Policy(id)
<1>1. /\ v.policy = p /\ v.policy.content = id /\ v.closure = Closure(p)
      /\ v.interpretation = Interpretation(p) /\ v.flags = {}
      /\ v.proof_graph = FixtureGraph
  BY FixtureParts
<1>2. /\ v.scope_evaluator_version = v.actual_scope_evaluator_version
      /\ v.target_set_digest = v.actual_target_set_digest
      /\ v.actual_tcb_digest = v.tcb_digest
  BY DEF ValidFixture
<1>3. /\ Interpretation(p).bound = Interpretation(p).runtime
      /\ Interpretation(p).bound.source = BytesDigest(p.content)
  BY DEF Interpretation
<1>4. /\ Closure(p).root_policy_digest = PolicyDigest(p)
      /\ Closure(p).dependencies = Closure(p).runtime_dependencies
  BY DEF Closure
<1> HIDE DEF v, p
<1>5. Passing(ClosureChecks(v))
  <2> DEFINE c == ClosureChecks(v)
  <2>1. ~c[1].fails /\ ~c[2].fails
    BY <1>1, <1>4 DEF ClosureChecks, Deny
  <2>2. Checks(c) = {c[1], c[2]}
    BY ClosureChain
  <2> HIDE DEF c
  <2> QED  BY <2>1, <2>2 DEF Passing, c
<1>6. Passing(InterpretationChecks(v))
  <2> DEFINE c == InterpretationChecks(v)
  <2>1. \A fields : ~Diverges(v, fields)
    BY <1>1, <1>3 DEF Diverges
  <2>2. ~c[1].fails /\ ~c[2].fails /\ ~c[3].fails /\ ~c[4].fails /\ ~c[5].fails
        /\ ~c[6].fails
    BY <1>1, <1>3, <2>1 DEF InterpretationChecks, Deny
  <2>3. Checks(c) = {c[1], c[2], c[3], c[4], c[5], c[6]}
    BY InterpretationChain
  <2> HIDE DEF c
  <2> QED  BY <2>2, <2>3 DEF Passing, c
<1>7. Passing(EnvironmentChecks(v))
  <2> DEFINE c == EnvironmentChecks(v)
  <2>1. ~c[1].fails /\ ~c[2].fails /\ ~c[3].fails /\ ~c[4].fails
    BY <1>1, <1>2 DEF EnvironmentChecks, Deny, Hold
  <2>2. Checks(c) = {c[1], c[2], c[3], c[4]}
    BY EnvironmentChain
  <2> HIDE DEF c
  <2> QED  BY <2>1, <2>2 DEF Passing, c
<1>8. Passing(GraphChecks(v))
  <2> DEFINE c == GraphChecks(v)
  <2>1. ~c[1].fails
    BY <1>1, FixtureGraphIsValid DEF GraphChecks, Halt, Deny
  <2>2. Checks(c) = {c[1]}
    BY GraphChain
  <2> HIDE DEF c
  <2> QED  BY <2>1, <2>2 DEF Passing, c
<1> QED  BY <1>5, <1>6, <1>7, <1>8 DEF v

\* The checks of the external evidence pass: a minute old, it is still fresh.
LEMMA EvidencePasses ==
    ASSUME NEW id PROVE Passing(ObservationChecks(ValidFixture(id)))
<1> DEFINE v == ValidFixture(id)
           c == ObservationChecks(v)
           k == v.observation_contract
           o == v.observation
           signed == [contract_id |-> "obs-contract-1", version |-> 1, status |-> "CURRENT",
                      issuer |-> "contract-issuer", issuer_grant_id |-> "g_contract",
                      source_id |-> "revocation-source-A",
                      source_role |-> "REVOCATION_STATUS",
                      endpoint |-> "revocation.example", namespace |-> "authority/main",
                      object_classes |-> {"obligation", "grant", "policy"},
                      permitted_predicates |-> {"NOT_REVOKED", "REVOKED"},
                      absence_establishes |-> {"NOT_REVOKED"}, max_age |-> MaxAge,
                      temporal_policy_id |-> "utc-strict-v1",
                      interpretation_rule |-> "signed-record-v1"]
           authority == Authorised(v, k.issuer, "DECLARE_OBSERVATION_CONTRACT",
                                   k.issuer_grant_id, v.policy.scope)
<1>1. /\ k = Contract /\ o = Observation /\ v.now = Now /\ v.policy.scope = Device7
      /\ k = Signed(signed, "contract-issuer")
  <2>1. k = Contract /\ o = Observation /\ v.now = Now /\ v.policy.scope = Device7
    BY FixtureParts
  <2>2. Contract = Signed(signed, "contract-issuer")
    BY DEF Contract
  <2> HIDE DEF k, o, v, signed
  <2> QED  BY <2>1, <2>2
<1>2. /\ k.status = "CURRENT" /\ k.issuer = "contract-issuer"
      /\ k.issuer_grant_id = "g_contract" /\ k.max_age = MaxAge
      /\ k.object_classes = {"obligation", "grant", "policy"}
      /\ k.permitted_predicates = {"NOT_REVOKED", "REVOKED"}
      /\ k.signature = Sign("contract-issuer", k.signed_digest)
  BY <1>1 DEF Signed
<1>3. /\ o.contract_id = k.contract_id /\ o.contract_version = k.version
      /\ o.contract_digest = Digest(Signable(k))
      /\ o.source_id = k.source_id /\ o.endpoint = k.endpoint
      /\ o.namespace = k.namespace /\ o.queried_object_class = "obligation"
      /\ o.source_role = k.source_role /\ o.proposition = "NOT_REVOKED"
      /\ o.temporal_policy_id = k.temporal_policy_id
      /\ o.interpretation_rule = k.interpretation_rule
      /\ o.evidence_state = "POSITIVELY_ESTABLISHED"
      /\ o.observed_at = Now - 1 /\ o.next_update = Now - 1 + MaxAge
  BY <1>1 DEF Observation
<1> HIDE DEF k, o, signed, v
<1>4. ~Refused(authority)
  <2>1. /\ "g_contract" \in DOMAIN Holder
        /\ Holder["g_contract"][1] = "contract-issuer"
        /\ Holder["g_contract"][2] = "DECLARE_OBSERVATION_CONTRACT"
    BY DEF Holder
  <2>2. authority = Authorised(v, "contract-issuer", "DECLARE_OBSERVATION_CONTRACT",
                               "g_contract", Device7)
    BY <1>1, <1>2
  <2> HIDE DEF authority
  <2> QED  BY <2>1, <2>2, HoldersMay DEF v
<1>5. ~Stale(v)
  BY <1>1, <1>2, <1>3, TimeAssumption DEF Stale, k, o
<1>6. ~c[1].fails /\ ~c[2].fails /\ ~c[3].fails
  <2>1. /\ c[1].fails = Refused(authority)
        /\ c[2].fails = (k.status # "CURRENT"
                         \/ ~Verify(k.issuer, k.signed_digest, k.signature))
        /\ c[3].fails = (\/ o.contract_id # k.contract_id
                         \/ o.contract_version # k.version
                         \/ o.contract_digest # Digest(Signable(k)))
    BY DEF ObservationChecks, Deny, Hold, k, o
  <2> HIDE DEF c, authority
  <2> QED  BY <1>2, <1>3, <1>4, <2>1 DEF Verify
<1>7. ~c[4].fails /\ ~c[5].fails /\ ~c[6].fails /\ ~c[7].fails
  <2>1. /\ c[4].fails = (o.source_id # k.source_id \/ o.endpoint # k.endpoint)
        /\ c[5].fails = (o.namespace # k.namespace
                         \/ o.queried_object_class \notin k.object_classes)
        /\ c[6].fails = (o.source_role # k.source_role
                         \/ o.proposition \notin k.permitted_predicates)
        /\ c[7].fails = (\/ o.temporal_policy_id # k.temporal_policy_id
                         \/ o.interpretation_rule # k.interpretation_rule)
    BY DEF ObservationChecks, Deny, Hold, k, o
  <2> HIDE DEF c
  <2> QED  BY <1>2, <1>3, <2>1
<1>8. /\ ~c[8].fails /\ ~c[9].fails /\ ~c[10].fails /\ ~c[11].fails
      /\ ~c[12].fails /\ ~c[13].fails /\ ~c[14].fails
  <2>1. /\ c[8].fails = (o.evidence_state = "SOURCE_UNAVAILABLE")
        /\ c[9].fails = (o.evidence_state = "MALFORMED_RESPONSE")
        /\ c[10].fails = Stale(v)
        /\ c[11].fails => o.evidence_state = "ABSENCE_OBSERVED"
        /\ c[12].fails = (o.evidence_state = "CONFLICT")
        /\ c[13].fails = (o.evidence_state = "POSITIVELY_INVALID")
        /\ c[14].fails = (o.evidence_state # "POSITIVELY_ESTABLISHED")
    BY DEF ObservationChecks, Deny, Hold, o
  <2> HIDE DEF c
  <2> QED  BY <1>3, <1>5, <2>1
<1>9. Checks(c) = {c[1], c[2], c[3], c[4], c[5], c[6], c[7], c[8], c[9], c[10], c[11],
                   c[12], c[13], c[14]}
  BY ObservationChain
<1> HIDE DEF c
<1> QED  BY <1>6, <1>7, <1>8, <1>9 DEF Passing, c, v

\* The consistent fixture is allowed, whichever policy it is for and whatever
\* the instants and the windows are: valid_fixture is valid, and no theorem
\* about what is allowed speaks of nothing (valid_fixture in harness.py).
THEOREM ValidIsAllowed == ASSUME NEW id PROVE Allowed(ValidFixture(id))
<1> DEFINE v == ValidFixture(id)
<1>1. /\ Passing(ObligationChecks(v)) /\ Passing(DerivationChecks(v))
      /\ Passing(ApprovalChecks(v)) /\ Passing(ObservationChecks(v))
      /\ Passing(ClosureChecks(v)) /\ Passing(InterpretationChecks(v))
      /\ Passing(EnvironmentChecks(v)) /\ Passing(GraphChecks(v))
  BY ObligationPasses, DerivationPasses, ApprovalPasses, EvidencePasses, RuntimePasses
<1> HIDE DEF v
<1>2. Passing(AdmissionChecks(v))
  BY <1>1, AdmissionChain DEF Passing
<1>3. Evaluation(v).admission = "ALLOW"
  BY <1>2, AdmitAnswers DEF Passing
<1> QED  BY <1>3 DEF Allowed, v

=============================================================================
