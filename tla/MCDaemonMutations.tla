--------------------------- MODULE MCDaemonMutations ---------------------------
(* Values for the constants of DaemonMutations: one request of every kind, *)
(* a policy with overlapping rules and one in shadow mode, and texts of    *)
(* one or two candidates.                                                  *)
EXTENDS DaemonMutations

CONSTANTS s1, strict, shadow, begin1, chunk1, commit1, abort1, use1, use2

Request(key, op, stream, policy) ==
  [key |-> key, op |-> op, stream |-> stream, policy |-> policy]
Requested ==
  {Request(begin1, "begin", None, None), Request(chunk1, "append", s1, None),
   Request(commit1, "commit", s1, None), Request(abort1, "abort", s1, None),
   Request(use1, "activate", None, shadow), Request(use2, "activate", None, None)}

Anything == [sources |-> Sources, namespaces |-> Namespaces, kinds |-> MemoryKinds,
             categories |-> {}, severity |-> 0, risk |-> 0, lasting |-> BOOLEAN,
             semantic |-> FALSE]
Rule(priority, id, match, action, review) ==
  [priority |-> priority, id |-> id, match |-> match, action |-> action, review |-> review]

StrictRules ==
  {Rule(1, 2, [Anything EXCEPT !.semantic = TRUE, !.kinds = {"instruction"}], "allow", FALSE),
   Rule(1, 1, [Anything EXCEPT !.risk = 2], "redact", TRUE),
   Rule(2, 3, [Anything EXCEPT !.categories = {"persistence"}, !.severity = 3],
        "quarantine", FALSE),
   Rule(3, 4, [Anything EXCEPT !.kinds = {"fact"}], "allow", FALSE)}

Keep(low) == [high |-> "quarantine", low |-> low]
Strict ==
  [mode |-> "enforce", default |-> "quarantine", shadow |-> "allow", protected |-> {"policies"},
   rules |-> StrictRules, detector |-> Keep("allow"), timeout |-> Keep("allow"),
   invalid |-> Keep("quarantine")]
PolicyByName == [p \in Policies |-> IF p = shadow THEN [Strict EXCEPT !.mode = "shadow"] ELSE Strict]

Plain == [source |-> "user", kind |-> "fact", namespace |-> "project",
          secret |-> FALSE, lasting |-> FALSE]
People ==
  {Plain, [Plain EXCEPT !.secret = TRUE], [Plain EXCEPT !.kind = "instruction"],
   [Plain EXCEPT !.kind = "credential"], [Plain EXCEPT !.namespace = "policies"],
   [Plain EXCEPT !.source = "tool"], [Plain EXCEPT !.source = "tool", !.lasting = TRUE]}

Nothing == [end |-> "ok", categories |-> {}, severity |-> 0]
Seen(end) == [end |-> end, categories |-> {"persistence"}, severity |-> 4]
Verdicts ==
  {<<Nothing, Nothing>>, <<Seen("ok"), [Nothing EXCEPT !.end = "raised"]>>,
   <<Nothing, Seen("late")>>, <<Nothing, Seen("ok")>>,
   <<[Nothing EXCEPT !.categories = {"credential_material"}, !.severity = 5],
     [Nothing EXCEPT !.end = "malformed"]>>}
Calls == {[end |-> "ok", risk |-> 0], [end |-> "ok", risk |-> 2],
          [end |-> "late", risk |-> 0], [end |-> "foreign", risk |-> 0]}

AllCases == [candidate : People, raws : Verdicts, reply : Calls]
Kind == [candidate |-> Plain, raws |-> <<Nothing, Nothing>>, reply |-> [end |-> "ok", risk |-> 0]]
Texts == {{}} \cup {{Kind, c} : c \in AllCases}
================================================================================
