---------------------------- MODULE SpecStrings ----------------------------
(***************************************************************************)
(* Dependency strings and REQUIRED_USE: the parser of                      *)
(* internal/repo/ebuild_parser.go, which flattens a dependency string into *)
(* a list, and the validator of internal/pkg/required_use.go, beside the   *)
(* meaning that chapter 8 of the PMS gives an expression.                  *)
(*                                                                         *)
(* An expression is a tree of nodes [k, v, kids]; k is "leaf", "not" (a    *)
(* leaf too), "all", "any", "one" (^^), "most" (??), "if" or "unless" (use *)
(* conditionals on flag v).  A token is a record [t, v].                   *)
(***************************************************************************)
EXTENDS Integers, Sequences, FiniteSets, SequencesExt

Tok(t) == [t |-> t, v |-> ""]
Operators == {"||", "^^", "??"}
OperatorOf == [any |-> "||", one |-> "^^", most |-> "??"]

\* The tokens of an expression: what tokenizeDependencies and tokenize return
\* for the string the ebuild writes.
RECURSIVE Tokens(_)
Tokens(e) ==
    LET body == <<Tok("(")>> \o FlattenSeq([i \in DOMAIN e.kids |-> Tokens(e.kids[i])]) \o <<Tok(")")>>
    IN CASE e.k \in {"leaf", "not"} -> <<[t |-> e.k, v |-> e.v]>>
         [] e.k \in {"if", "unless"} -> <<[t |-> e.k, v |-> e.v]>> \o body
         [] e.k = "all" -> body
         [] OTHER -> <<Tok(OperatorOf[e.k])>> \o body
TokensOf(es) == FlattenSeq([i \in DOMAIN es |-> Tokens(es[i])])

-----------------------------------------------------------------------------
(* Dependency strings *)

\* Mutant: a conditional replaces those around it.
PushCondition_Flat(conds, tok) == <<tok>>

\* The condition stack of a nested group.
PushCondition(conds, tok) == Append(conds, tok)

\* parseTokens and parseGroup: the dependencies from token i up to the end of
\* its group, each with its conditions and its any-of group (0 for none).
RECURSIVE parseTokens(_, _, _, _, _)
parseTokens(ts, i, conds, or, nextOr) ==
    IF i > Len(ts) THEN [deps |-> <<>>, next |-> i, nextOr |-> nextOr]
    ELSE IF ts[i].t = ")" THEN [deps |-> <<>>, next |-> i + 1, nextOr |-> nextOr]
    ELSE IF ts[i].t = "("
         THEN LET prev  == IF i > 1 THEN ts[i - 1] ELSE Tok("")
                  group == CASE prev.t \in {"if", "unless"} ->
                                  parseTokens(ts, i + 1, PushCondition(conds, prev), or, nextOr)
                             [] prev.t = "||" -> parseTokens(ts, i + 1, conds, nextOr, nextOr + 1)
                             [] OTHER -> parseTokens(ts, i + 1, conds, or, nextOr)
                  rest  == parseTokens(ts, group.next, conds, or, group.nextOr)
              IN [rest EXCEPT !.deps = group.deps \o @]
    ELSE LET rest == parseTokens(ts, i + 1, conds, or, nextOr)
         IN IF ts[i].t = "leaf"
            THEN [rest EXCEPT !.deps = <<[atom |-> ts[i].v, conds |-> conds, or |-> or]>> \o @]
            ELSE rest

ParseDependencies(es) == parseTokens(TokensOf(es), 1, <<>>, 0, 1).deps

\* IsUSEConditionalActive, AreUSEConditionsActive
IsUSEConditionalActive(c, use) == (c.t = "if") = (c.v \in use)
Active(d, use) == \A i \in DOMAIN d.conds : IsUSEConditionalActive(d.conds[i], use)

\* What the solver makes of the list: the active dependencies outside any-of
\* groups are all required, and one of each group that has any left.
Accepts(deps, use, S) ==
    LET act == {d \in Range(deps) : Active(d, use)} IN
    /\ \A d \in act : d.or = 0 => d.atom \in S
    /\ \A g \in {d.or : d \in act} \ {0} : \E d \in act : d.or = g /\ d.atom \in S

-----------------------------------------------------------------------------
(* REQUIRED_USE *)

\* evaluateSimpleFlag: an operator is no flag that is enabled.
evaluateSimpleFlag(tok, use) ==
    IF tok.t = "not" THEN tok.v \notin use ELSE tok.t = "leaf" /\ tok.v \in use

\* strings.HasSuffix(token, "?"), which the operator ?? has as well; the flag
\* it then stands for is never enabled.
IsConditional(tok) == tok.t \in {"if", "unless", "??"}
ConditionMet(tok, use) ==
    IF tok.t = "??" THEN FALSE ELSE IsUSEConditionalActive(tok, use)

\* skipGroup
RECURSIVE skipGroup(_, _, _)
skipGroup(ts, i, depth) ==
    IF depth = 0 \/ i > Len(ts) THEN i
    ELSE skipGroup(ts, i + 1, CASE ts[i].t = "(" -> depth + 1 [] ts[i].t = ")" -> depth - 1 [] OTHER -> depth)

RECURSIVE parseAndEvaluate(_, _, _, _), countSatisfied(_, _, _, _)

\* handleConditionalInParse and evaluateConditional: a condition that is not
\* met leaves the group satisfied.
evaluateConditional(ts, i, use) ==
    IF ConditionMet(ts[i], use) THEN parseAndEvaluate(ts, i + 2, TRUE, use)
    ELSE [sat |-> TRUE, next |-> skipGroup(ts, i + 2, 1)]

\* evaluateAnyOf, evaluateExactlyOne, evaluateAtMostOne
handleOperator(ts, i, use) ==
    LET c == countSatisfied(ts, i + 2, 0, use)
    IN [sat |-> CASE ts[i].t = "||" -> c.n > 0 [] ts[i].t = "^^" -> c.n = 1 [] OTHER -> c.n <= 1,
        next |-> c.next]

evaluateToken(ts, i, use) ==
    CASE ts[i].t = "(" -> parseAndEvaluate(ts, i + 1, TRUE, use)
      [] ts[i].t \in Operators -> handleOperator(ts, i, use)
      [] IsConditional(ts[i]) /\ ts[i].t \notin Operators -> evaluateConditional(ts, i, use)
      [] OTHER -> [sat |-> evaluateSimpleFlag(ts[i], use), next |-> i + 1]

parseAndEvaluate(ts, i, acc, use) ==
    IF i > Len(ts) THEN [sat |-> acc, next |-> i]
    ELSE IF ts[i].t = ")" THEN [sat |-> acc, next |-> i + 1]
    ELSE LET e == evaluateToken(ts, i, use) IN parseAndEvaluate(ts, e.next, acc /\ e.sat, use)

\* The loop the three operators share.  It knows parentheses and conditionals
\* and takes everything else for a flag.
countSatisfied(ts, i, n, use) ==
    IF i > Len(ts) THEN [n |-> n, next |-> i]
    ELSE IF ts[i].t = ")" THEN [n |-> n, next |-> i + 1]
    ELSE LET e == CASE ts[i].t = "(" -> parseAndEvaluate(ts, i + 1, TRUE, use)
                    [] IsConditional(ts[i]) -> evaluateConditional(ts, i, use)
                    [] OTHER -> [sat |-> evaluateSimpleFlag(ts[i], use), next |-> i + 1]
         IN countSatisfied(ts, e.next, IF e.sat THEN n + 1 ELSE n, use)

ValidateRequiredUse(es, use) == parseAndEvaluate(TokensOf(es), 1, TRUE, use).sat

-----------------------------------------------------------------------------
(* The specification: PMS 8.2.  A leaf is matched when it is in S.  A group   *)
(* without members is matched in EAPI 0 to 6 and not in EAPI 7 to 9.          *)

RECURSIVE Matched(_, _, _, _)
Matched(e, use, S, eapi) ==
    LET on(c) == CASE c.k = "if" -> c.v \in use [] c.k = "unless" -> c.v \notin use [] OTHER -> TRUE
        members == {i \in DOMAIN e.kids : on(e.kids[i])}
        hits == {i \in members : Matched(e.kids[i], use, S, eapi)}
    IN CASE e.k = "leaf" -> e.v \in S
         [] e.k = "not" -> e.v \notin S
         [] e.k \in {"all", "if", "unless"} -> on(e) => hits = members
         [] e.k = "any" -> hits # {} \/ (members = {} /\ eapi < 7)
         [] e.k = "one" -> Cardinality(hits) = 1 \/ (members = {} /\ eapi < 7)
         [] OTHER -> Cardinality(hits) <= 1
AllMatched(es, use, S, eapi) == \A i \in DOMAIN es : Matched(es[i], use, S, eapi)

\* Every any-of group of the expression offers single packages, the same with
\* or without a condition.
RECURSIVE FlatAnyOf(_)
FlatAnyOf(e) ==
    /\ \A i \in DOMAIN e.kids : FlatAnyOf(e.kids[i])
    /\ e.k = "any" => \A i \in DOMAIN e.kids :
          LET c == e.kids[i]
          IN c.k = "leaf" \/ (c.k \in {"if", "unless"} /\ Len(c.kids) = 1 /\ c.kids[1].k = "leaf")

\* No operator of the expression has an operator or a conditional among its
\* immediate children.
RECURSIVE PlainOperators(_)
PlainOperators(e) ==
    /\ \A i \in DOMAIN e.kids : PlainOperators(e.kids[i])
    /\ e.k \in {"any", "one", "most"} => \A i \in DOMAIN e.kids : e.kids[i].k \in {"leaf", "not", "all"}
=============================================================================
