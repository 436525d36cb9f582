-------------------------- MODULE AdmissionProofs --------------------------
(***************************************************************************)
(* What admit promises of any fixture whatever: which check gives the      *)
(* verdict, what an ALLOW establishes, and how long it lasts.              *)
(***************************************************************************)
EXTENDS Drifts, SequenceTheorems, WellFoundedInduction, TLAPS

-----------------------------------------------------------------------------
(* The chain of checks: which of them gives the verdict. *)

\* The checks of a chain, whatever their order.
Checks(chain) == {chain[i] : i \in 1..Len(chain)}

Passing(chain) == \A c \in Checks(chain) : ~c.fails

\* Some set has the chain's checks: what the sequence theorems ask for.
IsChain(chain) == \E S : chain \in Seq(S)

\* A non-empty set of naturals has its Min as a member.
LEMMA MinIsMember ==
    ASSUME NEW S \in SUBSET Nat, S # {}
    PROVE  Min(S) \in S /\ \A y \in S : Min(S) <= y
<1>1. PICK x \in S : \A y \in S : <<y, x>> \notin OpToRel(<, Nat)
  BY NatLessThanWellFounded, WFMin
<1>2. OpToRel(<, Nat) = {p \in Nat \X Nat : p[1] < p[2]}
  BY Zenon DEF OpToRel
<1>3. ASSUME NEW y \in S PROVE x <= y
  <2>1. y < x => <<y, x>> \in {p \in Nat \X Nat : p[1] < p[2]}
    OBVIOUS
  <2>2. ~(y < x)
    BY <1>1, <1>2, <2>1
  <2> QED  BY <2>2
<1> QED  BY <1>3 DEF Min

\* The check that decides: it fails, and no check before it does.
Decides(chain, i) ==
    i \in 1..Len(chain) /\ chain[i].fails /\ \A j \in 1..(i - 1) : ~chain[j].fails

\* The verdict of a chain is its first failing check, or passed if none fails
\* (the early returns of admit and of authorise).
LEMMA FirstFailureDecides ==
    ASSUME NEW chain, NEW passed, Len(chain) \in Nat
    PROVE  \/ Passing(chain) /\ FirstFailure(chain, passed) = passed
           \/ \E i : Decides(chain, i) /\ FirstFailure(chain, passed) = chain[i]
<1> DEFINE I == {i \in 1..Len(chain) : Fails(chain[i])}
<1>1. CASE I = {}
  BY <1>1 DEF FirstFailure, SelectInSeq, Passing, Checks, Fails
<1>2. CASE I # {}
  <2>1. Min(I) \in I /\ \A y \in I : Min(I) <= y
    <3>1. I \in SUBSET Nat
      OBVIOUS
    <3> HIDE DEF I
    <3> QED  BY <1>2, <3>1, MinIsMember
  <2>2. FirstFailure(chain, passed) = chain[Min(I)]
    BY <1>2, <2>1 DEF FirstFailure, SelectInSeq
  <2>3. \A j \in 1..(Min(I) - 1) : ~Fails(chain[j])
    BY <2>1
  <2>4. Decides(chain, Min(I))
    BY <2>1, <2>3 DEF Decides, Fails
  <2> QED  BY <2>2, <2>4
<1> QED  BY <1>1, <1>2

\* What a chain answers is one of its failing checks.
LEMMA FirstFailureIs ==
    ASSUME NEW chain, NEW passed, Len(chain) \in Nat
    PROVE  \/ Passing(chain) /\ FirstFailure(chain, passed) = passed
           \/ /\ FirstFailure(chain, passed) \in Checks(chain)
              /\ FirstFailure(chain, passed).fails
BY FirstFailureDecides DEF Decides, Checks

\* Two chains one after the other have the checks of both.
LEMMA ChainsConcatenate ==
    ASSUME NEW s, NEW t, IsChain(s), IsChain(t)
    PROVE  IsChain(s \o t) /\ Checks(s \o t) = Checks(s) \cup Checks(t)
<1>1. PICK S : s \in Seq(S)
  BY DEF IsChain
<1>2. PICK T : t \in Seq(T)
  BY DEF IsChain
<1>3. s \in Seq(S \cup T) /\ t \in Seq(S \cup T)
  BY <1>1, <1>2
<1>4. /\ s \o t \in Seq(S \cup T)
      /\ Len(s \o t) = Len(s) + Len(t)
      /\ \A i \in 1..Len(s) + Len(t) :
             (s \o t)[i] = IF i <= Len(s) THEN s[i] ELSE t[i - Len(s)]
  BY <1>3, ConcatProperties
<1>5. Len(s) \in Nat /\ Len(t) \in Nat
  BY <1>3
<1>6. ASSUME NEW c \in Checks(s \o t) PROVE c \in Checks(s) \cup Checks(t)
  BY <1>4, <1>5 DEF Checks
<1>7. ASSUME NEW c \in Checks(s) PROVE c \in Checks(s \o t)
  BY <1>4, <1>5 DEF Checks
<1>8. ASSUME NEW j \in 1..Len(t) PROVE t[j] \in Checks(s \o t)
  <2>1. j + Len(s) \in 1..Len(s \o t) /\ (s \o t)[j + Len(s)] = t[j]
    BY <1>4, <1>5
  <2> QED  BY <2>1 DEF Checks
<1>9. Checks(s \o t) = Checks(s) \cup Checks(t)
  BY <1>6, <1>7, <1>8 DEF Checks
<1> QED  BY <1>4, <1>9 DEF IsChain

\* A chain answers with this reason.
RefusesFor(chain, reason) == \E i : Decides(chain, i) /\ chain[i].reason = reason

\* Of two chains one after the other, the second only answers when the first
\* one passes.
LEMMA FirstChainAnswersFirst ==
    ASSUME NEW s, NEW t, IsChain(s), IsChain(t), NEW reason, RefusesFor(s \o t, reason)
    PROVE  RefusesFor(s, reason) \/ (Passing(s) /\ RefusesFor(t, reason))
<1> DEFINE n == Len(s)
           m == Len(t)
<1>1. /\ n \in Nat /\ m \in Nat /\ Len(s \o t) = n + m
      /\ \A i \in 1..n + m : (s \o t)[i] = IF i <= n THEN s[i] ELSE t[i - n]
  <2>1. PICK S : s \in Seq(S)
    BY DEF IsChain
  <2>2. PICK T : t \in Seq(T)
    BY DEF IsChain
  <2>3. s \in Seq(S \cup T) /\ t \in Seq(S \cup T)
    BY <2>1, <2>2
  <2> QED  BY <2>3, ConcatProperties
<1>2. PICK i : Decides(s \o t, i) /\ (s \o t)[i].reason = reason
  BY DEF RefusesFor
<1> HIDE DEF n, m
<1>3. i \in 1..n + m /\ \A j \in 1..(i - 1) : j \in 1..n + m /\ ~(s \o t)[j].fails
  BY <1>1, <1>2 DEF Decides
<1>4. CASE i <= n
  <2>1. \A j \in 1..(i - 1) : (s \o t)[j] = s[j]
    BY <1>1, <1>3, <1>4
  <2>2. Decides(s, i) /\ s[i].reason = reason
    BY <1>1, <1>2, <1>3, <1>4, <2>1 DEF Decides, n
  <2> QED  BY <2>2 DEF RefusesFor
<1>5. CASE ~(i <= n)
  <2> DEFINE k == i - n
  <2>1. k \in 1..m /\ (s \o t)[i] = t[k]
    BY <1>1, <1>3, <1>5
  <2>2. ASSUME NEW j \in 1..(k - 1) PROVE ~t[j].fails
    <3>1. j + n \in 1..(i - 1) /\ (s \o t)[j + n] = t[j]
      BY <1>1, <1>3, <2>1
    <3> QED  BY <1>3, <3>1
  <2>3. \A j \in 1..n : ~s[j].fails
    <3>1. ASSUME NEW j \in 1..n PROVE j \in 1..(i - 1) /\ (s \o t)[j] = s[j]
      BY <1>1, <1>3, <1>5
    <3> QED  BY <1>3, <3>1
  <2> HIDE DEF k
  <2>4. Decides(t, k) /\ t[k].reason = reason
    BY <1>2, <2>1, <2>2 DEF Decides, m
  <2>5. Passing(s)
    BY <2>3 DEF Passing, Checks, n
  <2> QED  BY <2>4, <2>5 DEF RefusesFor
<1> QED  BY <1>4, <1>5

-----------------------------------------------------------------------------
(* Authority. *)

\* The checks of a grant, and what each one answers when it fails.
LEMMA GrantChecksAre ==
    ASSUME NEW f, NEW g, NEW p, NEW k, NEW s
    PROVE  LET c == GrantChecks(f, g, p, k, s) IN
           /\ Len(c) = 6
           /\ Checks(c) = {c[1], c[2], c[3], c[4], c[5], c[6]}
           /\ c[1].fails = (g.principal # p \/ g.capability # k)
           /\ c[2].fails = (g.register_version # f.register.version)
           /\ c[3].fails = g.revoked
           /\ c[4].fails = ~WindowContains(g.window, f.now)
           /\ c[5].fails = ~ScopeContains(g.scope, s)
           /\ c[6].fails = g.self_authored
           /\ c[4].reason = "DELEGATION_EXPIRED"
           /\ \A d \in Checks(c) : d.reason # "AUTHORITY_ESTABLISHED"
<1> DEFINE c == GrantChecks(f, g, p, k, s)
<1>1. Len(c) = 6
  BY DEF GrantChecks
<1>2. Checks(c) = {c[1], c[2], c[3], c[4], c[5], c[6]}
  BY <1>1 DEF Checks
<1>3. \A d \in Checks(c) : d.reason # "AUTHORITY_ESTABLISHED"
  <2>1. /\ c[1].reason # "AUTHORITY_ESTABLISHED" /\ c[2].reason # "AUTHORITY_ESTABLISHED"
        /\ c[3].reason # "AUTHORITY_ESTABLISHED" /\ c[4].reason # "AUTHORITY_ESTABLISHED"
        /\ c[5].reason # "AUTHORITY_ESTABLISHED" /\ c[6].reason # "AUTHORITY_ESTABLISHED"
    BY DEF GrantChecks, Deny
  <2> HIDE DEF c
  <2> QED  BY <1>2, <2>1
<1> QED  BY <1>1, <1>2, <1>3 DEF GrantChecks, Deny

\* An authority is established by a grant that is there, held by this
\* principal for this capability, and none of whose checks fails.
LEMMA EstablishedAuthority ==
    ASSUME NEW f, NEW p, NEW k, NEW id, NEW s
    PROVE  ~Refused(Authorised(f, p, k, id, s)) <=>
               /\ id \in DOMAIN f.register.grants
               /\ Passing(GrantChecks(f, f.register.grants[id], p, k, s))
<1> DEFINE g == f.register.grants[id]
           c == GrantChecks(f, g, p, k, s)
<1>1. CASE id \notin DOMAIN f.register.grants
  BY <1>1 DEF Authorised, Refused
<1>2. CASE id \in DOMAIN f.register.grants
  <2>1. Authorised(f, p, k, id, s) = FirstFailure(c, Established).reason
    BY <1>2 DEF Authorised, GrantFailure
  <2>2. Established.reason = "AUTHORITY_ESTABLISHED"
    BY DEF Established, Deny
  <2>3. /\ Len(c) \in Nat
        /\ \A d \in Checks(c) : d.reason # "AUTHORITY_ESTABLISHED"
    BY GrantChecksAre
  <2>4. \/ Passing(c) /\ FirstFailure(c, Established) = Established
        \/ /\ FirstFailure(c, Established) \in Checks(c)
           /\ FirstFailure(c, Established).fails
    BY <2>3, FirstFailureIs
  <2> HIDE DEF c, g
  <2>5. Refused(Authorised(f, p, k, id, s)) <=> ~Passing(c)
    BY <2>1, <2>2, <2>3, <2>4 DEF Refused, Passing
  <2> QED  BY <1>2, <2>5 DEF c, g
<1> QED  BY <1>1, <1>2

\* When the clock alone moves, an established authority can only expire.
LEMMA AuthorityCanOnlyExpire ==
    ASSUME NEW f, NEW h, h.register = f.register,
           NEW p, NEW k, NEW id, NEW s, ~Refused(Authorised(f, p, k, id, s))
    PROVE  ~Refused(Authorised(h, p, k, id, s))
           \/ Authorised(h, p, k, id, s) = "DELEGATION_EXPIRED"
<1> DEFINE g == f.register.grants[id]
           c == GrantChecks(f, g, p, k, s)
           d == GrantChecks(h, g, p, k, s)
<1>1. id \in DOMAIN f.register.grants /\ Passing(c)
  BY EstablishedAuthority
<1>2. Authorised(h, p, k, id, s) = FirstFailure(d, Established).reason
  BY <1>1 DEF Authorised, GrantFailure
<1>3. \/ Passing(d) /\ FirstFailure(d, Established) = Established
      \/ /\ FirstFailure(d, Established) \in Checks(d)
         /\ FirstFailure(d, Established).fails
  <2>1. Len(d) \in Nat
    BY GrantChecksAre
  <2> QED  BY <2>1, FirstFailureIs
<1>4. ~c[1].fails /\ ~c[2].fails /\ ~c[3].fails /\ ~c[5].fails /\ ~c[6].fails
  BY <1>1, GrantChecksAre DEF Passing
<1>5. /\ c[1].fails = d[1].fails /\ c[2].fails = d[2].fails /\ c[3].fails = d[3].fails
      /\ c[5].fails = d[5].fails /\ c[6].fails = d[6].fails
  BY GrantChecksAre
<1>6. /\ Checks(d) = {d[1], d[2], d[3], d[4], d[5], d[6]}
      /\ d[4].reason = "DELEGATION_EXPIRED"
  BY GrantChecksAre
<1>7. Established.reason = "AUTHORITY_ESTABLISHED"
  BY DEF Established, Deny
<1> HIDE DEF c, d, g
<1> QED  BY <1>2, <1>3, <1>4, <1>5, <1>6, <1>7 DEF Refused

-----------------------------------------------------------------------------
(* Admission: the chain of admit, group by group. *)

IsTyped(c) == c.admission \in {"HOLD", "DENY"} /\ c.engine_mode \in {"READY", "HALTED"}

\* The checks of the obligation, the register's lineage and the policy's version:
\* how many there are, and that each answers a typed refusal.
LEMMA ObligationChain ==
    ASSUME NEW f
    PROVE  /\ IsChain(ObligationChecks(f))
           /\ LET c == ObligationChecks(f) IN
              Checks(c) = {c[1], c[2], c[3], c[4], c[5], c[6], c[7], c[8],
              c[9], c[10], c[11], c[12], c[13], c[14]}
           /\ \A c \in Checks(ObligationChecks(f)) : IsTyped(c)
<1> DEFINE c == ObligationChecks(f)
<1>1. Len(c) = 14
  BY DEF ObligationChecks
<1>2. Checks(c) = {c[1], c[2], c[3], c[4], c[5], c[6], c[7], c[8],
              c[9], c[10], c[11], c[12], c[13], c[14]}
  BY <1>1 DEF Checks
<1>3. c \in Seq({c[1], c[2], c[3], c[4], c[5], c[6], c[7], c[8],
              c[9], c[10], c[11], c[12], c[13], c[14]})
  BY DEF ObligationChecks
<1>4. /\ IsTyped(c[1]) /\ IsTyped(c[2]) /\ IsTyped(c[3]) /\ IsTyped(c[4])
      /\ IsTyped(c[5]) /\ IsTyped(c[6]) /\ IsTyped(c[7])
  BY DEF ObligationChecks, Deny, Hold, Halt, IsTyped
<1>5. /\ IsTyped(c[8]) /\ IsTyped(c[9]) /\ IsTyped(c[10]) /\ IsTyped(c[11])
      /\ IsTyped(c[12]) /\ IsTyped(c[13]) /\ IsTyped(c[14])
  BY DEF ObligationChecks, Deny, Hold, Halt, IsTyped
<1> HIDE DEF c
<1> QED  BY <1>2, <1>3, <1>4, <1>5 DEF IsChain, c

\* The checks of the derivation and its coverage of the rules:
\* how many there are, and that each answers a typed refusal.
LEMMA DerivationChain ==
    ASSUME NEW f
    PROVE  /\ IsChain(DerivationChecks(f))
           /\ LET c == DerivationChecks(f) IN
              Checks(c) = {c[1], c[2], c[3], c[4], c[5], c[6], c[7], c[8]}
           /\ \A c \in Checks(DerivationChecks(f)) : IsTyped(c)
<1> DEFINE c == DerivationChecks(f)
<1>1. Len(c) = 8
  BY DEF DerivationChecks
<1>2. Checks(c) = {c[1], c[2], c[3], c[4], c[5], c[6], c[7], c[8]}
  BY <1>1 DEF Checks
<1>3. c \in Seq({c[1], c[2], c[3], c[4], c[5], c[6], c[7], c[8]})
  BY DEF DerivationChecks
<1>4. \A d \in {c[1], c[2], c[3], c[4], c[5], c[6], c[7], c[8]} : IsTyped(d)
  BY DEF DerivationChecks, Deny, Hold, Halt, IsTyped
<1> QED  BY <1>2, <1>3, <1>4 DEF IsChain

\* The checks of the approval:
\* how many there are, and that each answers a typed refusal.
LEMMA ApprovalChain ==
    ASSUME NEW f
    PROVE  /\ IsChain(ApprovalChecks(f))
           /\ LET c == ApprovalChecks(f) IN Checks(c) = {c[1], c[2], c[3], c[4], c[5]}
           /\ \A c \in Checks(ApprovalChecks(f)) : IsTyped(c)
<1> DEFINE c == ApprovalChecks(f)
<1>1. Len(c) = 5
  BY DEF ApprovalChecks
<1>2. Checks(c) = {c[1], c[2], c[3], c[4], c[5]}
  BY <1>1 DEF Checks
<1>3. c \in Seq({c[1], c[2], c[3], c[4], c[5]})
  BY DEF ApprovalChecks
<1>4. \A d \in {c[1], c[2], c[3], c[4], c[5]} : IsTyped(d)
  BY DEF ApprovalChecks, Deny, Hold, Halt, IsTyped
<1> QED  BY <1>2, <1>3, <1>4 DEF IsChain

\* The checks of the executable closure:
\* how many there are, and that each answers a typed refusal.
LEMMA ClosureChain ==
    ASSUME NEW f
    PROVE  /\ IsChain(ClosureChecks(f))
           /\ LET c == ClosureChecks(f) IN Checks(c) = {c[1], c[2]}
           /\ \A c \in Checks(ClosureChecks(f)) : IsTyped(c)
<1> DEFINE c == ClosureChecks(f)
<1>1. Len(c) = 2
  BY DEF ClosureChecks
<1>2. Checks(c) = {c[1], c[2]}
  BY <1>1 DEF Checks
<1>3. c \in Seq({c[1], c[2]})
  BY DEF ClosureChecks
<1>4. \A d \in {c[1], c[2]} : IsTyped(d)
  BY DEF ClosureChecks, Deny, Hold, Halt, IsTyped
<1> QED  BY <1>2, <1>3, <1>4 DEF IsChain

\* The checks of what the runtime loaded:
\* how many there are, and that each answers a typed refusal.
LEMMA InterpretationChain ==
    ASSUME NEW f
    PROVE  /\ IsChain(InterpretationChecks(f))
           /\ LET c == InterpretationChecks(f) IN
              Checks(c) = {c[1], c[2], c[3], c[4], c[5], c[6]}
           /\ \A c \in Checks(InterpretationChecks(f)) : IsTyped(c)
<1> DEFINE c == InterpretationChecks(f)
<1>1. Len(c) = 6
  BY DEF InterpretationChecks
<1>2. Checks(c) = {c[1], c[2], c[3], c[4], c[5], c[6]}
  BY <1>1 DEF Checks
<1>3. c \in Seq({c[1], c[2], c[3], c[4], c[5], c[6]})
  BY DEF InterpretationChecks
<1>4. \A d \in {c[1], c[2], c[3], c[4], c[5], c[6]} : IsTyped(d)
  BY DEF InterpretationChecks, Deny, Hold, Halt, IsTyped
<1> QED  BY <1>2, <1>3, <1>4 DEF IsChain

\* The checks of the canonical scope and the trusted computing base:
\* how many there are, and that each answers a typed refusal.
LEMMA EnvironmentChain ==
    ASSUME NEW f
    PROVE  /\ IsChain(EnvironmentChecks(f))
           /\ LET c == EnvironmentChecks(f) IN Checks(c) = {c[1], c[2], c[3], c[4]}
           /\ \A c \in Checks(EnvironmentChecks(f)) : IsTyped(c)
<1> DEFINE c == EnvironmentChecks(f)
<1>1. Len(c) = 4
  BY DEF EnvironmentChecks
<1>2. Checks(c) = {c[1], c[2], c[3], c[4]}
  BY <1>1 DEF Checks
<1>3. c \in Seq({c[1], c[2], c[3], c[4]})
  BY DEF EnvironmentChecks
<1>4. \A d \in {c[1], c[2], c[3], c[4]} : IsTyped(d)
  BY DEF EnvironmentChecks, Deny, Hold, Halt, IsTyped
<1> QED  BY <1>2, <1>3, <1>4 DEF IsChain

\* The checks of the external evidence:
\* how many there are, and that each answers a typed refusal.
LEMMA ObservationChain ==
    ASSUME NEW f
    PROVE  /\ IsChain(ObservationChecks(f))
           /\ LET c == ObservationChecks(f) IN
              Checks(c) = {c[1], c[2], c[3], c[4], c[5], c[6], c[7], c[8],
              c[9], c[10], c[11], c[12], c[13], c[14]}
           /\ \A c \in Checks(ObservationChecks(f)) : IsTyped(c)
<1> DEFINE c == ObservationChecks(f)
<1>1. Len(c) = 14
  BY DEF ObservationChecks
<1>2. Checks(c) = {c[1], c[2], c[3], c[4], c[5], c[6], c[7], c[8],
              c[9], c[10], c[11], c[12], c[13], c[14]}
  BY <1>1 DEF Checks
<1>3. c \in Seq({c[1], c[2], c[3], c[4], c[5], c[6], c[7], c[8],
              c[9], c[10], c[11], c[12], c[13], c[14]})
  BY DEF ObservationChecks
<1>4. \A d \in {c[1], c[2], c[3], c[4], c[5], c[6], c[7], c[8],
              c[9], c[10], c[11], c[12], c[13], c[14]} : IsTyped(d)
  BY DEF ObservationChecks, Deny, Hold, Halt, IsTyped
<1> QED  BY <1>2, <1>3, <1>4 DEF IsChain

\* The checks of the proof graph:
\* how many there are, and that each answers a typed refusal.
LEMMA GraphChain ==
    ASSUME NEW f
    PROVE  /\ IsChain(GraphChecks(f))
           /\ LET c == GraphChecks(f) IN Checks(c) = {c[1]}
           /\ \A c \in Checks(GraphChecks(f)) : IsTyped(c)
<1> DEFINE c == GraphChecks(f)
<1>1. Len(c) = 1
  BY DEF GraphChecks
<1>2. Checks(c) = {c[1]}
  BY <1>1 DEF Checks
<1>3. c \in Seq({c[1]})
  BY DEF GraphChecks
<1>4. \A d \in {c[1]} : IsTyped(d)
  BY DEF GraphChecks, Deny, Hold, Halt, IsTyped
<1> QED  BY <1>2, <1>3, <1>4 DEF IsChain

\* The checks of admit are those of its eight groups.
LEMMA AdmissionChain ==
    ASSUME NEW f
    PROVE  /\ IsChain(AdmissionChecks(f))
           /\ Checks(AdmissionChecks(f)) =
                  Checks(ObligationChecks(f)) \cup Checks(DerivationChecks(f))
                  \cup Checks(ApprovalChecks(f)) \cup Checks(ClosureChecks(f))
                  \cup Checks(InterpretationChecks(f)) \cup Checks(EnvironmentChecks(f))
                  \cup Checks(ObservationChecks(f)) \cup Checks(GraphChecks(f))
<1> DEFINE Joined(s, t) == IsChain(s \o t) /\ Checks(s \o t) = Checks(s) \cup Checks(t)
           c2 == ObligationChecks(f) \o DerivationChecks(f)
           c3 == c2 \o ApprovalChecks(f)
           c4 == c3 \o ClosureChecks(f)
           c5 == c4 \o InterpretationChecks(f)
           c6 == c5 \o EnvironmentChecks(f)
           c7 == c6 \o ObservationChecks(f)
<1>1. Joined(ObligationChecks(f), DerivationChecks(f))
  BY ChainsConcatenate, ObligationChain, DerivationChain
<1>2. Joined(c2, ApprovalChecks(f))
  BY <1>1, ChainsConcatenate, ApprovalChain
<1>3. Joined(c3, ClosureChecks(f))
  BY <1>2, ChainsConcatenate, ClosureChain
<1>4. Joined(c4, InterpretationChecks(f))
  BY <1>3, ChainsConcatenate, InterpretationChain
<1>5. Joined(c5, EnvironmentChecks(f))
  BY <1>4, ChainsConcatenate, EnvironmentChain
<1>6. Joined(c6, ObservationChecks(f))
  BY <1>5, ChainsConcatenate, ObservationChain
<1>7. Joined(c7, GraphChecks(f))
  BY <1>6, ChainsConcatenate, GraphChain
<1> QED  BY <1>1, <1>2, <1>3, <1>4, <1>5, <1>6, <1>7 DEF AdmissionChecks

\* admit allows exactly when every check of its chain passes; otherwise it
\* answers as one of the failing checks says.
LEMMA AdmitAnswers ==
    ASSUME NEW f
    PROVE  \/ /\ Passing(AdmissionChecks(f))
              /\ Evaluation(f).admission = "ALLOW" /\ Evaluation(f).engine_mode = "READY"
              /\ Evaluation(f).snapshot = Snapshot(f) /\ Evaluation(f).standing = Standing(f)
           \/ \E c \in Checks(AdmissionChecks(f)) :
                  /\ c.fails /\ IsTyped(c)
                  /\ Evaluation(f).admission = c.admission /\ Evaluation(f).reason = c.reason
                  /\ Evaluation(f).engine_mode = c.engine_mode
                  /\ Evaluation(f).snapshot = None /\ Evaluation(f).standing = None
<1> DEFINE chain == AdmissionChecks(f)
           first == FirstFailure(chain, Passed)
<1>1. Len(chain) \in Nat
  BY AdmissionChain DEF IsChain
<1>2. \A c \in Checks(chain) : IsTyped(c)
  BY AdmissionChain, ObligationChain, DerivationChain, ApprovalChain, ClosureChain,
     InterpretationChain, EnvironmentChain, ObservationChain, GraphChain
<1>3. ~Passed.fails /\ Passed.engine_mode = "READY"
  BY DEF Passed, Deny
<1>4. \/ Passing(chain) /\ first = Passed
      \/ first \in Checks(chain) /\ first.fails
  BY <1>1, FirstFailureIs
<1> HIDE DEF chain
<1> QED  BY <1>2, <1>3, <1>4 DEF Evaluation, chain

\* A refusal gives the reason of the first group that does not pass: every
\* group before it does (the early returns of admit, harness.py:521-637).
LEMMA RefusalAnswers ==
    ASSUME NEW f, ~Allowed(f)
    PROVE  LET r == Evaluation(f).reason
               obligation == Passing(ObligationChecks(f))
               derivation == obligation /\ Passing(DerivationChecks(f))
               approval == derivation /\ Passing(ApprovalChecks(f))
               closure == approval /\ Passing(ClosureChecks(f))
               interpretation == closure /\ Passing(InterpretationChecks(f))
               environment == interpretation /\ Passing(EnvironmentChecks(f))
               observation == environment /\ Passing(ObservationChecks(f))
           IN  \/ RefusesFor(ObligationChecks(f), r)
               \/ obligation /\ RefusesFor(DerivationChecks(f), r)
               \/ derivation /\ RefusesFor(ApprovalChecks(f), r)
               \/ approval /\ RefusesFor(ClosureChecks(f), r)
               \/ closure /\ RefusesFor(InterpretationChecks(f), r)
               \/ interpretation /\ RefusesFor(EnvironmentChecks(f), r)
               \/ environment /\ RefusesFor(ObservationChecks(f), r)
               \/ observation /\ RefusesFor(GraphChecks(f), r)
<1> DEFINE chain == AdmissionChecks(f)
           r == Evaluation(f).reason
           c1 == ObligationChecks(f)
           c2 == c1 \o DerivationChecks(f)
           c3 == c2 \o ApprovalChecks(f)
           c4 == c3 \o ClosureChecks(f)
           c5 == c4 \o InterpretationChecks(f)
           c6 == c5 \o EnvironmentChecks(f)
           c7 == c6 \o ObservationChecks(f)
           Split(s, t) == /\ IsChain(s \o t)
                          /\ Passing(s \o t) => Passing(s) /\ Passing(t)
                          /\ RefusesFor(s \o t, r) =>
                                 RefusesFor(s, r) \/ (Passing(s) /\ RefusesFor(t, r))
<1>1. ASSUME NEW s, NEW t, IsChain(s), IsChain(t) PROVE Split(s, t)
  BY <1>1, ChainsConcatenate, FirstChainAnswersFirst DEF Passing
<1>2. RefusesFor(chain, r)
  <2>1. Len(chain) \in Nat
    BY AdmissionChain DEF IsChain
  <2>2. \/ Passing(chain) /\ FirstFailure(chain, Passed) = Passed
        \/ \E i : Decides(chain, i) /\ FirstFailure(chain, Passed) = chain[i]
    BY <2>1, FirstFailureDecides
  <2>3. ~Passed.fails
    BY DEF Passed, Deny
  <2>4. FirstFailure(chain, Passed).fails /\ r = FirstFailure(chain, Passed).reason
    <3> HIDE DEF chain
    <3> QED  BY DEF Allowed, Evaluation, chain
  <2> HIDE DEF chain, r
  <2> QED  BY <2>2, <2>3, <2>4 DEF RefusesFor
<1>3. chain = c7 \o GraphChecks(f)
  BY DEF AdmissionChecks
<1> HIDE DEF chain, r
<1>4. IsChain(c1) /\ Split(c1, DerivationChecks(f))
  BY <1>1, ObligationChain, DerivationChain
<1>5. Split(c2, ApprovalChecks(f))
  BY <1>1, <1>4, ApprovalChain
<1>6. Split(c3, ClosureChecks(f))
  BY <1>1, <1>5, ClosureChain
<1>7. Split(c4, InterpretationChecks(f))
  BY <1>1, <1>6, InterpretationChain
<1>8. Split(c5, EnvironmentChecks(f))
  BY <1>1, <1>7, EnvironmentChain
<1>9. Split(c6, ObservationChecks(f))
  BY <1>1, <1>8, ObservationChain
<1>10. Split(c7, GraphChecks(f))
  BY <1>1, <1>9, GraphChain
<1> QED
  BY <1>2, <1>3, <1>4, <1>5, <1>6, <1>7, <1>8, <1>9, <1>10 DEF r

\* An admitted fixture passes each of the eight groups.
LEMMA AllowedPasses ==
    ASSUME NEW f, Allowed(f)
    PROVE  /\ Passing(ObligationChecks(f)) /\ Passing(DerivationChecks(f))
           /\ Passing(ApprovalChecks(f)) /\ Passing(ClosureChecks(f))
           /\ Passing(InterpretationChecks(f)) /\ Passing(EnvironmentChecks(f))
           /\ Passing(ObservationChecks(f)) /\ Passing(GraphChecks(f))
<1>1. Passing(AdmissionChecks(f))
  BY AdmitAnswers DEF Allowed, IsTyped
<1> QED  BY <1>1, AdmissionChain DEF Passing

-----------------------------------------------------------------------------
(* What an ALLOW establishes. *)

\* Of the obligation: its window is open now.
LEMMA AllowedObligation ==
    ASSUME NEW f, Allowed(f)
    PROVE  WindowContains(f.obligation.window, f.now)
<1> DEFINE c == ObligationChecks(f)
<1>1. ~c[5].fails
  BY AllowedPasses, ObligationChain DEF Passing
<1>2. c[5].fails = ~WindowContains(f.obligation.window, f.now)
  BY DEF ObligationChecks, Deny
<1> QED  BY <1>1, <1>2

\* Of the derivation: it was signed, and it names this obligation and policy.
LEMMA AllowedDerivation ==
    ASSUME NEW f, Allowed(f)
    PROVE  /\ f.derivation.obligation_digest = ObligationDigest(f.obligation)
           /\ f.derivation.policy_digest = PolicyDigest(f.policy)
           /\ SignatureValid(f.derivation)
<1> DEFINE c == DerivationChecks(f)
<1>1. ~c[3].fails /\ ~c[4].fails
  BY AllowedPasses, DerivationChain DEF Passing
<1>2. /\ c[3].fails = (\/ f.derivation.obligation_digest # ObligationDigest(f.obligation)
                       \/ f.derivation.policy_digest # PolicyDigest(f.policy))
      /\ c[4].fails = ~SignatureValid(f.derivation)
  BY DEF DerivationChecks, Deny
<1> QED  BY <1>1, <1>2

\* Of the approval: it names all that it approves, it was signed, and the
\* register lets its principal approve.
LEMMA AllowedApproval ==
    ASSUME NEW f, Allowed(f)
    PROVE  /\ ApprovalBound(f)
           /\ f.approval.design_digest = f.policy.design_digest
           /\ SignatureValid(f.approval)
           /\ ~Refused(Authorised(f, f.approval.principal, "APPROVE_POLICY",
                                  f.approval.grant_id, f.policy.scope))
<1> DEFINE c == ApprovalChecks(f)
           authority == Authorised(f, f.approval.principal, "APPROVE_POLICY",
                                   f.approval.grant_id, f.policy.scope)
<1>1. ~c[2].fails /\ ~c[3].fails /\ ~c[4].fails /\ ~c[5].fails
  BY AllowedPasses, ApprovalChain DEF Passing
<1>2. /\ c[2].fails = ~ApprovalBound(f)
      /\ c[3].fails = (f.approval.design_digest # f.policy.design_digest)
      /\ c[4].fails = ~SignatureValid(f.approval)
      /\ c[5].fails = Refused(authority)
  BY DEF ApprovalChecks, Deny
<1> QED  BY <1>1, <1>2

\* Of the closure and the interpretation: the runtime's account of them is
\* the checked one.
LEMMA AllowedRuntime ==
    ASSUME NEW f, Allowed(f)
    PROVE  /\ f.closure.dependencies = f.closure.runtime_dependencies
           /\ \A x \in {"source", "versions", "include", "defaults", "environment",
                        "normalised_executable", "engine_instance_id", "loaded_closure"} :
                  f.interpretation.bound[x] = f.interpretation.runtime[x]
<1> DEFINE k == ClosureChecks(f)
           c == InterpretationChecks(f)
           b == f.interpretation.bound
           r == f.interpretation.runtime
<1>1. ~k[2].fails
  BY AllowedPasses, ClosureChain DEF Passing
<1>2. k[2].fails = (f.closure.dependencies # f.closure.runtime_dependencies)
  BY DEF ClosureChecks, Deny
<1>3. ~c[2].fails /\ ~c[3].fails /\ ~c[4].fails /\ ~c[5].fails /\ ~c[6].fails
  BY AllowedPasses, InterpretationChain DEF Passing
<1>4. /\ c[2].fails = Diverges(f, {"versions"})
      /\ c[3].fails = Diverges(f, {"source"})
      /\ c[4].fails = Diverges(f, {"include", "defaults", "environment"})
      /\ c[5].fails = Diverges(f, {"normalised_executable"})
      /\ c[6].fails = Diverges(f, {"engine_instance_id", "loaded_closure"})
  BY DEF InterpretationChecks, Deny
<1>5. ASSUME NEW fields, ~Diverges(f, fields), NEW x \in fields PROVE b[x] = r[x]
  BY <1>5 DEF Diverges, Restrict
<1> HIDE DEF b, r
<1>6. /\ b["versions"] = r["versions"] /\ b["source"] = r["source"]
      /\ b["include"] = r["include"] /\ b["defaults"] = r["defaults"]
      /\ b["environment"] = r["environment"]
      /\ b["normalised_executable"] = r["normalised_executable"]
      /\ b["engine_instance_id"] = r["engine_instance_id"]
      /\ b["loaded_closure"] = r["loaded_closure"]
  BY <1>3, <1>4, <1>5
<1> QED  BY <1>1, <1>2, <1>6 DEF b, r

\* Of the evidence: it is not stale now.
LEMMA AllowedEvidence ==
    ASSUME NEW f, Allowed(f)
    PROVE  ~Stale(f)
<1> DEFINE c == ObservationChecks(f)
<1>1. ~c[10].fails
  BY AllowedPasses, ObservationChain DEF Passing
<1>2. c[10].fails = Stale(f)
  BY DEF ObservationChecks, Hold, Deny
<1> QED  BY <1>1, <1>2

\* A digest tells contents apart.
LEMMA DigestIsInjective ==
    ASSUME NEW x, NEW y, Digest(x) = Digest(y)
    PROVE  x = y
BY DEF Digest

\* The approval and the derivation speak of what is in the fixture.
Attested(f) ==
    /\ ApprovalBound(f) /\ f.approval.design_digest = f.policy.design_digest
    /\ f.derivation.obligation_digest = ObligationDigest(f.obligation)
    /\ SignatureValid(f.derivation)
    /\ {"obligation_digest", "principal"} \subseteq DOMAIN f.derivation

\* The two fixtures differ in nothing that an approval is given for.
SameContent(f, g) ==
    /\ Identity(f.policy) = Identity(g.policy)
    /\ f.closure = g.closure /\ f.interpretation = g.interpretation
    /\ Signable(f.derivation) = Signable(g.derivation)
    /\ f.derivation.signature = g.derivation.signature
    /\ f.derivation.signed_digest = g.derivation.signed_digest
    /\ f.obligation.content = g.obligation.content

\* An approval is attested by one content only: through its five digests, and
\* through the derivation it names to the obligation's text.
LEMMA AttestedContent ==
    ASSUME NEW f, NEW g, Attested(f), Attested(g), f.approval = g.approval
    PROVE  SameContent(f, g)
<1>1. /\ PolicyDigest(f.policy) = PolicyDigest(g.policy)
      /\ Digest(f.closure) = Digest(g.closure)
      /\ Digest(f.interpretation) = Digest(g.interpretation)
      /\ Digest(Signable(f.derivation)) = Digest(Signable(g.derivation))
      /\ Digest(f.policy.scope) = Digest(g.policy.scope)
      /\ f.policy.design_digest = g.policy.design_digest
  BY DEF Attested, ApprovalBound
<1>2. /\ f.closure = g.closure /\ f.interpretation = g.interpretation
      /\ Signable(f.derivation) = Signable(g.derivation)
      /\ f.policy.scope = g.policy.scope
  BY <1>1, DigestIsInjective
<1>3. f.policy.content = g.policy.content /\ f.policy.version = g.policy.version
  <2>1. Restrict(f.policy, {"content", "version"}) = Restrict(g.policy, {"content", "version"})
    BY <1>1, DigestIsInjective DEF PolicyDigest
  <2> QED  BY <2>1 DEF Restrict
<1>4. /\ f.derivation.obligation_digest = g.derivation.obligation_digest
      /\ f.derivation.principal = g.derivation.principal
  <2>1. ASSUME NEW d, NEW x \in {"obligation_digest", "principal"}, x \in DOMAIN d
        PROVE  Signable(d)[x] = d[x]
    BY <2>1 DEF Signable, Restrict
  <2> QED  BY <1>2, <2>1 DEF Attested
<1>5. f.obligation.content = g.obligation.content
  <2>1. ObligationDigest(f.obligation) = ObligationDigest(g.obligation)
    BY <1>4 DEF Attested
  <2>2. Restrict(f.obligation, {"content"}) = Restrict(g.obligation, {"content"})
    BY <2>1, DigestIsInjective DEF ObligationDigest
  <2> QED  BY <2>2 DEF Restrict
<1>6. /\ f.derivation.signature = g.derivation.signature
      /\ f.derivation.signed_digest = g.derivation.signed_digest
  BY <1>2, <1>4 DEF Attested, SignatureValid, Verify
<1>7. Identity(f.policy) = Identity(g.policy)
  BY <1>1, <1>2, <1>3 DEF Identity, Restrict
<1> QED  BY <1>2, <1>5, <1>6, <1>7 DEF SameContent

\* One approval, one content: any two fixtures that are both allowed under the
\* same approval agree on the policy as far as a digest covers it, on the
\* closure, on the interpretation, on the derivation, and on the obligation's
\* text, whatever else they differ in (harness.py:567-594).
THEOREM ApprovalNamesOneContent ==
    ASSUME NEW f, NEW g, Allowed(f), Allowed(g), f.approval = g.approval,
           {"obligation_digest", "principal"} \subseteq DOMAIN f.derivation,
           {"obligation_digest", "principal"} \subseteq DOMAIN g.derivation
    PROVE  SameContent(f, g)
BY AllowedApproval, AllowedDerivation, AttestedContent DEF Attested

-----------------------------------------------------------------------------
(* The horizon of a standing. *)

FixtureFields ==
    {"now", "obligation", "claimed_obligation_id", "obligation_issuer",
     "obligation_issuer_grant_id", "policy", "register", "closure", "interpretation",
     "derivation", "approval", "observation_contract", "observation", "tcb_digest",
     "actual_tcb_digest", "scope_evaluator_version", "actual_scope_evaluator_version",
     "target_set_digest", "actual_target_set_digest", "activation_principal",
     "activation_grant_id", "decision_target", "checker_enabled",
     "verification_configured", "latest_policy_version",
     "policy_source_current_digest", "flags", "proof_graph", "incumbent_standing",
     "fallback_standing"}

\* The instants that bound an admission are instants.
Timed(f) ==
    /\ f.now \in Int
    /\ f.obligation.window.valid_from \in Int /\ f.obligation.window.valid_until \in Int
    /\ f.observation.observed_at \in Int /\ f.observation.next_update \in Int
    /\ f.observation_contract.max_age \in Int

\* The horizon is the earliest of its three limits.
LEMMA HorizonIsEarliest ==
    ASSUME NEW f, Timed(f)
    PROVE  /\ RevalidateBy(f) \in Int
           /\ RevalidateBy(f) <= f.observation.next_update
           /\ RevalidateBy(f) <= f.observation.observed_at + f.observation_contract.max_age
           /\ RevalidateBy(f) <= f.obligation.window.valid_until
           /\ \A m \in Int : m <= RevalidateBy(f) <=>
                  /\ m <= f.observation.next_update
                  /\ m <= f.observation.observed_at + f.observation_contract.max_age
                  /\ m <= f.obligation.window.valid_until
<1> DEFINE a == f.observation.next_update
           b == f.observation.observed_at + f.observation_contract.max_age
           c == f.obligation.window.valid_until
<1>1. a \in Int /\ b \in Int /\ c \in Int
  BY DEF Timed
<1> HIDE DEF a, b, c
<1>2. \E x \in {a, b, c} : \A y \in {a, b, c} : x <= y
  BY <1>1
<1>3. Min({a, b, c}) \in {a, b, c} /\ \A y \in {a, b, c} : Min({a, b, c}) <= y
  BY <1>2 DEF Min
<1> QED  BY <1>1, <1>3 DEF RevalidateBy, a, b, c

\* No standing is born after its own horizon: what is allowed now is not stale
\* and its obligation's window is open.
LEMMA AllowedByHorizon ==
    ASSUME NEW f, Allowed(f), Timed(f)
    PROVE  f.now <= RevalidateBy(f)
<1>1. /\ f.now <= f.observation.next_update
      /\ f.now <= f.observation.observed_at + f.observation_contract.max_age
      /\ f.now <= f.obligation.window.valid_until
  BY AllowedEvidence, AllowedObligation DEF Stale, WindowContains, Timed
<1> QED  BY <1>1, HorizonIsEarliest DEF Timed

\* The same fixture at another instant.
Retimed(f, g) == \A x \in FixtureFields \ {"now"} : g[x] = f[x]

\* All that fails is a delegation that has run out.
OnlyExpires(chain) == \A c \in Checks(chain) : c.fails => c.reason = "DELEGATION_EXPIRED"

\* The obligation's checks at another instant of its window.
LEMMA ObligationLasts ==
    ASSUME NEW f, NEW g, Retimed(f, g), Passing(ObligationChecks(f)),
           WindowContains(f.obligation.window, g.now)
    PROVE  OnlyExpires(ObligationChecks(g))
<1> DEFINE c == ObligationChecks(f)
           d == ObligationChecks(g)
<1>1. /\ g.obligation = f.obligation /\ g.claimed_obligation_id = f.claimed_obligation_id
      /\ g.obligation_issuer = f.obligation_issuer
      /\ g.obligation_issuer_grant_id = f.obligation_issuer_grant_id
      /\ g.policy = f.policy /\ g.register = f.register
      /\ g.checker_enabled = f.checker_enabled
      /\ g.verification_configured = f.verification_configured
      /\ g.latest_policy_version = f.latest_policy_version
      /\ g.policy_source_current_digest = f.policy_source_current_digest
      /\ g.flags = f.flags
  BY DEF Retimed, FixtureFields
<1>2. /\ d[1].fails = c[1].fails /\ d[2].fails = c[2].fails /\ d[3].fails = c[3].fails
      /\ d[4].fails = c[4].fails /\ d[6].fails = c[6].fails /\ d[7].fails = c[7].fails
      /\ d[8].fails = c[8].fails /\ d[9].fails = c[9].fails /\ d[11].fails = c[11].fails
      /\ d[13].fails = c[13].fails /\ d[14].fails = c[14].fails
  <2> DEFINE Reads(h, r) ==
               /\ r[1].fails = (~h.checker_enabled \/ ~h.verification_configured)
               /\ r[2].fails = (h.claimed_obligation_id # h.obligation.obligation_id)
               /\ r[3].fails =
                      (h.policy_source_current_digest # ObligationDigest(h.obligation))
               /\ r[4].fails = (h.obligation.superseded \/ h.obligation.revoked)
               /\ r[6].fails = ~ScopeContains(h.obligation.scope, h.policy.scope)
               /\ r[7].fails = (h.register.version < h.register.current_version)
               /\ r[8].fails = h.register.fork_detected
               /\ r[9].fails = ~h.register.trusted_time_observed
               /\ r[11].fails =
                      (h.obligation.actual_conflicts \ h.obligation.declared_conflicts # {})
               /\ r[13].fails = (h.policy.version < h.latest_policy_version)
               /\ r[14].fails = ("exception_generalised" \in h.flags)
  <2>1. Reads(f, c)
    BY DEF ObligationChecks, Deny, Halt, Hold
  <2>2. Reads(g, d)
    BY DEF ObligationChecks, Deny, Halt, Hold
  <2> HIDE DEF c, d
  <2> QED  BY <1>1, <2>1, <2>2
<1>3. ~d[5].fails
  BY <1>1 DEF ObligationChecks, Deny
<1>4. d[10].fails => d[10].reason = "DELEGATION_EXPIRED"
  <2> DEFINE before == Authorised(f, f.obligation_issuer, "REGISTER_OBLIGATION",
                                  f.obligation_issuer_grant_id, f.obligation.scope)
             after == Authorised(g, f.obligation_issuer, "REGISTER_OBLIGATION",
                                 f.obligation_issuer_grant_id, f.obligation.scope)
  <2>1. c[10].fails = Refused(before) /\ d[10].fails = Refused(after)
    BY <1>1 DEF ObligationChecks, Deny
  <2>2. after = "DELEGATION_EXPIRED" => d[10].reason = "DELEGATION_EXPIRED"
    BY <1>1 DEF ObligationChecks, Deny
  <2>3. ~c[10].fails
    BY ObligationChain DEF Passing
  <2>4. ~Refused(after) \/ after = "DELEGATION_EXPIRED"
    BY <1>1, <2>1, <2>3, AuthorityCanOnlyExpire
  <2> QED  BY <2>1, <2>2, <2>4
<1>5. d[12].fails => d[12].reason = "DELEGATION_EXPIRED"
  <2> DEFINE before == Authorised(f, f.obligation.resolved_by, "RESOLVE_CONFLICT",
                                  "g_resolve", f.obligation.scope)
             after == Authorised(g, f.obligation.resolved_by, "RESOLVE_CONFLICT",
                                 "g_resolve", f.obligation.scope)
  <2>1. /\ c[12].fails = (f.obligation.resolved_by # "" /\ Refused(before))
        /\ d[12].fails = (f.obligation.resolved_by # "" /\ Refused(after))
        /\ d[12].reason = after
    BY <1>1 DEF ObligationChecks, Deny
  <2>2. ~c[12].fails
    BY ObligationChain DEF Passing
  <2>3. Refused(before) \/ ~Refused(after) \/ after = "DELEGATION_EXPIRED"
    BY <1>1, AuthorityCanOnlyExpire
  <2> QED  BY <2>1, <2>2, <2>3
<1>6. /\ ~c[1].fails /\ ~c[2].fails /\ ~c[3].fails /\ ~c[4].fails /\ ~c[6].fails
      /\ ~c[7].fails /\ ~c[8].fails /\ ~c[9].fails /\ ~c[11].fails /\ ~c[13].fails
      /\ ~c[14].fails
  BY ObligationChain DEF Passing
<1>7. Checks(d) = {d[1], d[2], d[3], d[4], d[5], d[6], d[7], d[8],
                   d[9], d[10], d[11], d[12], d[13], d[14]}
  BY ObligationChain
<1> HIDE DEF c, d
<1>8. OnlyExpires(d)
  BY <1>2, <1>3, <1>4, <1>5, <1>6, <1>7 DEF OnlyExpires
<1> QED  BY <1>8 DEF d

\* The derivation's checks at another instant.
LEMMA DerivationLasts ==
    ASSUME NEW f, NEW g, Retimed(f, g), Passing(DerivationChecks(f))
    PROVE  OnlyExpires(DerivationChecks(g))
<1> DEFINE c == DerivationChecks(f)
           d == DerivationChecks(g)
           before == Authorised(f, f.derivation.principal, "DERIVE_POLICY",
                                f.derivation.grant_id, f.policy.scope)
           after == Authorised(g, f.derivation.principal, "DERIVE_POLICY",
                               f.derivation.grant_id, f.policy.scope)
<1>1. /\ g.obligation = f.obligation /\ g.policy = f.policy /\ g.register = f.register
      /\ g.derivation = f.derivation /\ g.closure = f.closure
  BY DEF Retimed, FixtureFields
<1>2. /\ d[1].fails = c[1].fails /\ d[2].fails = c[2].fails /\ d[3].fails = c[3].fails
      /\ d[4].fails = c[4].fails /\ d[6].fails = c[6].fails /\ d[7].fails = c[7].fails
      /\ d[8].fails = c[8].fails
  BY <1>1 DEF DerivationChecks, Deny, Hold, Unmapped, Unsupported
<1>3. /\ c[5].fails = Refused(before)
      /\ d[5].fails = Refused(after) /\ d[5].reason = after
  BY <1>1 DEF DerivationChecks, Deny
<1>4. /\ Checks(c) = {c[1], c[2], c[3], c[4], c[5], c[6], c[7], c[8]}
      /\ Checks(d) = {d[1], d[2], d[3], d[4], d[5], d[6], d[7], d[8]}
  BY DerivationChain
<1>5. ~Refused(before) => ~Refused(after) \/ after = "DELEGATION_EXPIRED"
  BY <1>1, AuthorityCanOnlyExpire
<1>6. OnlyExpires(d)
  <2> HIDE DEF d, before, after
  <2> QED  BY <1>2, <1>3, <1>4, <1>5 DEF OnlyExpires, Passing
<1> QED  BY <1>6

\* The approval's checks at another instant.
LEMMA ApprovalLasts ==
    ASSUME NEW f, NEW g, Retimed(f, g), Passing(ApprovalChecks(f))
    PROVE  OnlyExpires(ApprovalChecks(g))
<1> DEFINE c == ApprovalChecks(f)
           d == ApprovalChecks(g)
           before == Authorised(f, f.approval.principal, "APPROVE_POLICY",
                                f.approval.grant_id, f.policy.scope)
           after == Authorised(g, f.approval.principal, "APPROVE_POLICY",
                               f.approval.grant_id, f.policy.scope)
<1>1. /\ g.approval = f.approval /\ g.policy = f.policy /\ g.register = f.register
      /\ g.closure = f.closure /\ g.interpretation = f.interpretation
      /\ g.derivation = f.derivation
  BY DEF Retimed, FixtureFields
<1>2. /\ d[1].fails = c[1].fails /\ d[2].fails = c[2].fails
      /\ d[3].fails = c[3].fails /\ d[4].fails = c[4].fails
  BY <1>1 DEF ApprovalChecks, Deny, ApprovalBound
<1>3. /\ c[5].fails = Refused(before)
      /\ d[5].fails = Refused(after) /\ d[5].reason = after
  BY <1>1 DEF ApprovalChecks, Deny
<1>4. /\ Checks(c) = {c[1], c[2], c[3], c[4], c[5]}
      /\ Checks(d) = {d[1], d[2], d[3], d[4], d[5]}
  BY ApprovalChain
<1>5. ~Refused(before) => ~Refused(after) \/ after = "DELEGATION_EXPIRED"
  BY <1>1, AuthorityCanOnlyExpire
<1>6. OnlyExpires(d)
  <2> HIDE DEF d, before, after
  <2> QED  BY <1>2, <1>3, <1>4, <1>5 DEF OnlyExpires, Passing
<1> QED  BY <1>6

\* The observation's checks at another instant before its evidence is stale.
LEMMA ObservationLasts ==
    ASSUME NEW f, NEW g, Retimed(f, g), Timed(f), Passing(ObservationChecks(f)),
           g.now \in Int, g.now < f.observation.next_update,
           g.now < f.observation.observed_at + f.observation_contract.max_age
    PROVE  OnlyExpires(ObservationChecks(g))
<1> DEFINE c == ObservationChecks(f)
           d == ObservationChecks(g)
           contract == f.observation_contract
           before == Authorised(f, contract.issuer, "DECLARE_OBSERVATION_CONTRACT",
                                contract.issuer_grant_id, f.policy.scope)
           after == Authorised(g, contract.issuer, "DECLARE_OBSERVATION_CONTRACT",
                               contract.issuer_grant_id, f.policy.scope)
<1>1. /\ g.observation_contract = f.observation_contract /\ g.observation = f.observation
      /\ g.policy = f.policy /\ g.register = f.register
  BY DEF Retimed, FixtureFields
<1>2. /\ d[2].fails = c[2].fails /\ d[3].fails = c[3].fails /\ d[4].fails = c[4].fails
      /\ d[5].fails = c[5].fails /\ d[6].fails = c[6].fails /\ d[7].fails = c[7].fails
      /\ d[8].fails = c[8].fails /\ d[9].fails = c[9].fails
      /\ d[11].fails = c[11].fails /\ d[12].fails = c[12].fails
      /\ d[13].fails = c[13].fails /\ d[14].fails = c[14].fails
  BY <1>1 DEF ObservationChecks, Deny, Hold
<1>3. /\ c[1].fails = Refused(before)
      /\ d[1].fails = Refused(after) /\ d[1].reason = after
  BY <1>1 DEF ObservationChecks, Deny
<1>4. ~c[10].fails => ~d[10].fails
  <2>1. c[10].fails = Stale(f) /\ d[10].fails = Stale(g)
    BY DEF ObservationChecks, Hold, Deny
  <2>2. ~Stale(f) => ~Stale(g)
    BY <1>1 DEF Stale, Timed
  <2> QED  BY <2>1, <2>2
<1>5. /\ Checks(c) = {c[1], c[2], c[3], c[4], c[5], c[6], c[7], c[8],
                      c[9], c[10], c[11], c[12], c[13], c[14]}
      /\ Checks(d) = {d[1], d[2], d[3], d[4], d[5], d[6], d[7], d[8],
                      d[9], d[10], d[11], d[12], d[13], d[14]}
  BY ObservationChain
<1>6. ~Refused(before) => ~Refused(after) \/ after = "DELEGATION_EXPIRED"
  BY <1>1, AuthorityCanOnlyExpire
<1>7. OnlyExpires(d)
  <2> HIDE DEF d, before, after
  <2> QED  BY <1>2, <1>3, <1>4, <1>5, <1>6 DEF OnlyExpires, Passing
<1> QED  BY <1>7

\* The checks that read no clock at all.
LEMMA TimelessLast ==
    ASSUME NEW f, NEW g, Retimed(f, g)
    PROVE  /\ ClosureChecks(g) = ClosureChecks(f)
           /\ InterpretationChecks(g) = InterpretationChecks(f)
           /\ EnvironmentChecks(g) = EnvironmentChecks(f)
           /\ GraphChecks(g) = GraphChecks(f)
<1>1. /\ g.closure = f.closure /\ g.policy = f.policy
      /\ g.interpretation = f.interpretation /\ g.proof_graph = f.proof_graph
      /\ g.scope_evaluator_version = f.scope_evaluator_version
      /\ g.actual_scope_evaluator_version = f.actual_scope_evaluator_version
      /\ g.target_set_digest = f.target_set_digest
      /\ g.actual_target_set_digest = f.actual_target_set_digest
      /\ g.tcb_digest = f.tcb_digest /\ g.actual_tcb_digest = f.actual_tcb_digest
      /\ g.flags = f.flags
  BY DEF Retimed, FixtureFields
<1>2. ClosureChecks(g) = ClosureChecks(f)
  BY <1>1 DEF ClosureChecks
<1>3. InterpretationChecks(g) = InterpretationChecks(f)
  BY <1>1 DEF InterpretationChecks, Diverges
<1>4. EnvironmentChecks(g) = EnvironmentChecks(f)
  BY <1>1 DEF EnvironmentChecks
<1>5. GraphChecks(g) = GraphChecks(f)
  BY <1>1 DEF GraphChecks
<1> QED  BY <1>2, <1>3, <1>4, <1>5

\* An ALLOW lasts until its horizon: at any other instant before revalidate_by
\* and inside the obligation's window, the same fixture is allowed, or refused
\* because a delegation has run out (harness.py:639-643).
THEOREM AllowLasts ==
    ASSUME NEW f, NEW g, Allowed(f), Timed(f), Retimed(f, g), g.now \in Int,
           f.obligation.window.valid_from <= g.now, g.now < RevalidateBy(f)
    PROVE  Evaluation(g).admission = "ALLOW" \/ Evaluation(g).reason = "DELEGATION_EXPIRED"
<1>1. /\ g.now < f.observation.next_update
      /\ g.now < f.observation.observed_at + f.observation_contract.max_age
      /\ g.now < f.obligation.window.valid_until
  BY HorizonIsEarliest DEF Timed
<1>2. WindowContains(f.obligation.window, g.now)
  BY <1>1 DEF WindowContains
<1>3. OnlyExpires(ObligationChecks(g)) /\ OnlyExpires(DerivationChecks(g))
      /\ OnlyExpires(ApprovalChecks(g)) /\ OnlyExpires(ObservationChecks(g))
  BY <1>1, <1>2, AllowedPasses, ObligationLasts, DerivationLasts, ApprovalLasts,
     ObservationLasts
<1>4. /\ Passing(ClosureChecks(g)) /\ Passing(InterpretationChecks(g))
      /\ Passing(EnvironmentChecks(g)) /\ Passing(GraphChecks(g))
  BY TimelessLast, AllowedPasses
<1>5. OnlyExpires(AdmissionChecks(g))
  BY <1>3, <1>4, AdmissionChain DEF OnlyExpires, Passing
<1> QED  BY <1>5, AdmitAnswers DEF OnlyExpires

\* Nothing outlives its horizon: once revalidate_by is over, the same fixture is
\* refused at every later instant.  So where issue_decision and commit compare
\* use_time with the horizon (harness.py:799-800, 858-859), they refuse nothing
\* that admit, asked again of the same evidence, would allow, the very instant
\* of the horizon aside.
THEOREM NothingOutlivesHorizon ==
    ASSUME NEW f, NEW g, Timed(f), Retimed(f, g), g.now \in Int, RevalidateBy(f) < g.now
    PROVE  ~Allowed(g)
<1>1. /\ g.obligation = f.obligation /\ g.observation = f.observation
      /\ g.observation_contract = f.observation_contract
  BY DEF Retimed, FixtureFields
<1>2. Timed(g)
  BY <1>1 DEF Timed
<1>3. RevalidateBy(g) = RevalidateBy(f)
  BY <1>1 DEF RevalidateBy
<1> QED  BY <1>2, <1>3, AllowedByHorizon, HorizonIsEarliest DEF Timed

=============================================================================
