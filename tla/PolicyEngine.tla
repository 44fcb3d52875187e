------------------------------- MODULE PolicyEngine ------------------------------
(***************************************************************************)
(* What becomes of one candidate memory: the detector runner's results     *)
(* (detectors/runner.py), the need of a semantic assessment                *)
(* (memory/service.py) and the policy engine (policies/engine.py), as pure *)
(* operators.  Names and patterns are members of small sets, a severity is *)
(* its rank (0: nothing found), a semantic risk is one of three.           *)
(***************************************************************************)
EXTENDS Naturals, FiniteSets

Sources == {"user", "tool"}
MemoryKinds == {"fact", "instruction", "credential"}
Namespaces == {"project", "policies"}
Categories == {"structural_invalidity", "credential_material", "persistence"}
Actions == {"allow", "redact", "quarantine", "block"}
Kept == {"allow", "redact"}

Candidates == [source : Sources, kind : MemoryKinds, namespace : Namespaces,
               secret : BOOLEAN, lasting : BOOLEAN]

(* How inspect() of one detector ended, and the categories it matched.     *)
Raws == [end : {"ok", "reported", "late", "raised", "malformed"},
         categories : SUBSET Categories, severity : 0..5]

(* How a call of the provider ended: "foreign" is an answer about another  *)
(* candidate or by another model.                                          *)
Replies == [end : {"ok", "late", "raised", "malformed", "foreign"}, risk : 0..2]

Answers == [state : {"ok", "timeout", "failed", "absent"}, risk : 0..2]
NoAnswer == [state |-> "absent", risk |-> 0]

Matches == [sources : SUBSET Sources, namespaces : SUBSET Namespaces, kinds : SUBSET MemoryKinds,
            categories : SUBSET Categories, severity : 0..5, risk : 0..2, lasting : SUBSET BOOLEAN,
            semantic : BOOLEAN]
Rules == [priority : Nat, id : Nat, match : Matches, action : Actions, review : BOOLEAN]

(* Policies as validated: a failure on a high-risk candidate keeps nothing. *)
Failures == [high : {"quarantine", "block"}, low : Actions]
ConformingPolicy(p) ==
  /\ p.mode \in {"enforce", "shadow"}
  /\ p.default \in Actions /\ p.shadow \in Kept
  /\ p.protected \subseteq Namespaces
  /\ p.rules \subseteq Rules /\ IsFiniteSet(p.rules)
  /\ \A r, q \in p.rules : r.id = q.id => r = q
  /\ {p.detector, p.timeout, p.invalid} \subseteq Failures

---------------------------------------------------------------------------
(* Mutant: a detector that did not answer in time found nothing. *)
FindingInTime(raw) ==
  IF raw.end \in {"ok", "late"}
  THEN [status |-> "ok", categories |-> raw.categories, severity |-> raw.severity]
  ELSE [status |-> "failed", categories |-> {}, severity |-> 0]

(* _run_one_untraced and _hygienic_result: every way but a well-formed OK  *)
(* result is a failure, without a verdict of its own.                      *)
Finding(raw) ==
  IF raw.end = "ok"
  THEN [status |-> "ok", categories |-> raw.categories, severity |-> raw.severity]
  ELSE [status |-> "failed", categories |-> {}, severity |-> 0]

(* run: one result for every detector, whatever the others did. *)
Findings(raws) == [d \in DOMAIN raws |-> Finding(raws[d])]

Positive(findings) ==
  {d \in DOMAIN findings : findings[d].status = "ok" /\ findings[d].categories # {}}
Found(findings) == UNION {findings[d].categories : d \in Positive(findings)}

Severe(findings, rank) == \E d \in Positive(findings) : findings[d].severity >= rank

(* _requires_semantic *)
RequiresSemantic(c, findings) ==
  \/ Severe(findings, 3)
  \/ c.source = "tool"
  \/ c.kind = "instruction"

(* _is_high_risk *)
HighRisk(c) ==
  \/ c.kind \in {"instruction", "credential"}
  \/ c.namespace = "policies"
  \/ c.source = "tool" /\ c.lasting

---------------------------------------------------------------------------
(* _hard_guard *)
Guarded(p, c, findings) ==
  \/ Found(findings) \cap {"structural_invalidity", "credential_material"} # {}
  \/ c.kind = "credential" \/ c.secret
  \/ c.namespace \in p.protected

DetectorFailed(findings) == \E d \in DOMAIN findings : findings[d].status # "ok"
Failed(findings, semantic) == DetectorFailed(findings) \/ semantic.state \in {"timeout", "failed"}

(* _failure_action *)
FailureAction(p, c, findings, semantic) ==
  LET behavior == IF DetectorFailed(findings) THEN p.detector
                  ELSE IF semantic.state = "timeout" THEN p.timeout ELSE p.invalid
  IN IF HighRisk(c) THEN behavior.high ELSE behavior.low

(* _matches *)
Matching(m, c, findings, semantic) ==
  /\ c.source \in m.sources /\ c.namespace \in m.namespaces /\ c.kind \in m.kinds
  /\ c.lasting \in m.lasting
  /\ m.categories # {} => Found(findings) \cap m.categories # {}
  /\ m.severity > 0 => Severe(findings, m.severity)
  /\ m.risk > 0 \/ m.semantic => semantic.state = "ok"
  /\ semantic.risk >= m.risk

Before(r, q) == r.priority < q.priority \/ (r.priority = q.priority /\ r.id < q.id)

(* _document_rule: the first one that matches. *)
Winning(p, c, findings, semantic) ==
  LET matching == {r \in p.rules : Matching(r.match, c, findings, semantic)}
  IN {r \in matching : \A q \in matching \ {r} : Before(r, q)}

RuleAction(r) == IF r.review /\ r.action \in Kept THEN "quarantine" ELSE r.action

(* evaluate, without the shadow mode. *)
WouldHave(p, c, findings, semantic) ==
  IF Guarded(p, c, findings) THEN "block"
  ELSE IF Failed(findings, semantic) THEN FailureAction(p, c, findings, semantic)
  ELSE IF Winning(p, c, findings, semantic) = {} THEN p.default
  ELSE RuleAction(CHOOSE r \in Winning(p, c, findings, semantic) : TRUE)

(* evaluate *)
Actual(p, c, findings, semantic) ==
  IF p.mode = "shadow" THEN p.shadow ELSE WouldHave(p, c, findings, semantic)

(* run_semantic_assessment: what did not come back whole is a failure.     *)
Assessment(reply) ==
  CASE reply.end = "ok"   -> [state |-> "ok", risk |-> reply.risk]
    [] reply.end = "late" -> [state |-> "timeout", risk |-> 0]
    [] OTHER              -> [state |-> "failed", risk |-> 0]

(* The assessment that is asked for, or none.                              *)
Assessed(c, findings, reply) ==
  IF RequiresSemantic(c, findings) THEN Assessment(reply) ELSE NoAnswer

(* The loop of _evaluate_captured_evidence over one candidate.             *)
Decided(p, c, raws, reply) ==
  LET findings == Findings(raws)
  IN Actual(p, c, findings, Assessed(c, findings, reply))

---------------------------------------------------------------------------
(* The reference the engine is checked against, stated of what went in.    *)

(* Nothing is kept that carries a credential, a malformed structure or a   *)
(* protected name, no high-risk candidate is kept on incomplete evidence,  *)
(* and none whose first rule asks for a review, in whatever order          *)
(* detectors, assessment and rules come to their ends.                     *)
MayKeep(p, c, raws, reply) ==
  /\ ~c.secret /\ c.kind # "credential" /\ c.namespace \notin p.protected
  /\ \A d \in DOMAIN raws :
       raws[d].end = "ok" =>
         raws[d].categories \cap {"structural_invalidity", "credential_material"} = {}
  /\ HighRisk(c) =>
       /\ \A d \in DOMAIN raws : raws[d].end = "ok"
       /\ c.kind = "instruction" \/ c.source = "tool" => reply.end = "ok"
  /\ LET findings == Findings(raws)
         semantic == Assessed(c, findings, reply)
     IN ~Failed(findings, semantic) =>
          \A r \in p.rules : r.review /\ Matching(r.match, c, findings, semantic) =>
            \E q \in p.rules : Before(q, r) /\ Matching(q.match, c, findings, semantic)
=============================================================================
