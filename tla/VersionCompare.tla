--------------------------- MODULE VersionCompare ---------------------------
(***************************************************************************)
(* Versions of packages and their comparison (internal/pkg/version.go,     *)
(* constraint.go), beside the algorithms of chapter 3 of the PMS           *)
(* (docs/pms/chapter3-names-versions.md).                                  *)
(*                                                                         *)
(* A version is what parseVersion makes of a well-formed string: numeric   *)
(* components as sequences of digits, a letter (0 for none), suffixes      *)
(* [type, num], whose number is 0 when it is left out, and a revision, 0   *)
(* when it is left out.                                                    *)
(***************************************************************************)
EXTENDS Integers, Sequences, SequencesExt, TLC

Sign(n) == IF n > 0 THEN 1 ELSE IF n < 0 THEN -1 ELSE 0

\* _alpha, _beta, _pre, _rc and _p as numbers; 0 stands for no suffix.
suffixPriority == "alpha" :> -4 @@ "beta" :> -3 @@ "pre" :> -2 @@ "rc" :> -1 @@ "" :> 0 @@ "p" :> 1

Value(ds) == FoldLeft(LAMBDA n, d : 10 * n + d, 0, ds)
HasLeadingZero(ds) == Len(ds) > 1 /\ ds[1] = 0
TrimRight(ds) == SubSeq(ds, 1, CHOOSE k \in 0..Len(ds) :
                                  /\ \A i \in (k + 1)..Len(ds) : ds[i] = 0
                                  /\ k > 0 => ds[k] # 0)

\* The sign of the first element of a sequence of comparisons that decides.
FirstDecision(s) ==
    LET d == SelectSeq(s, LAMBDA x : x # 0) IN IF d = <<>> THEN 0 ELSE Sign(d[1])

\* strings.Compare on strings of digits: a proper prefix is smaller.
StringCompare(s, t) ==
    FirstDecision([i \in 1..(IF Len(s) < Len(t) THEN Len(s) ELSE Len(t)) |-> s[i] - t[i]]
                    \o <<Len(s) - Len(t)>>)

-----------------------------------------------------------------------------
(* The code *)

compareWithLeadingZeros(s, t) ==
    LET trim(x) == IF TrimRight(x) = <<>> THEN <<0>> ELSE TrimRight(x)
    IN StringCompare(trim(s), trim(t))

compareComponents(c, d) ==
    IF HasLeadingZero(c) \/ HasLeadingZero(d) THEN compareWithLeadingZeros(c, d)
    ELSE Value(c) - Value(d)

\* No letter is greater than any letter.
compareLetterSuffix(l, m) ==
    IF l = 0 /\ m # 0 THEN 1 ELSE IF l # 0 /\ m = 0 THEN -1 ELSE l - m

\* Past the end of a version there is the suffix of a release.
compareSuffixes(s, t) ==
    LET at(x, i) == IF i <= Len(x) THEN x[i] ELSE [type |-> "", num |-> 0]
        n == IF Len(s) > Len(t) THEN Len(s) ELSE Len(t)
    IN FirstDecision([i \in 1..(2 * n) |->
            LET a == at(s, (i + 1) \div 2)
                b == at(t, (i + 1) \div 2)
            IN IF i % 2 = 1 THEN suffixPriority[a.type] - suffixPriority[b.type] ELSE a.num - b.num])

\* compareVersions; a missing component is 0.
CompareVersions(v, w) ==
    LET at(x, i) == IF i <= Len(x.comps) THEN x.comps[i] ELSE <<0>>
        n == IF Len(v.comps) > Len(w.comps) THEN Len(v.comps) ELSE Len(w.comps)
    IN FirstDecision([i \in 1..n |-> compareComponents(at(v, i), at(w, i))]
                       \o <<compareLetterSuffix(v.letter, w.letter),
                            compareSuffixes(v.sufs, w.sufs),
                            v.rev - w.rev>>)

-----------------------------------------------------------------------------
(* The specification: algorithms 3.1 to 3.7 *)

PMSComponent(c, d) ==
    IF c[1] = 0 \/ d[1] = 0 THEN StringCompare(TrimRight(c), TrimRight(d)) ELSE Value(c) - Value(d)

PMSSuffix(a, b) ==
    IF a.type = b.type THEN a.num - b.num ELSE suffixPriority[a.type] - suffixPriority[b.type]

PMSSuffixes(s, t) ==
    LET n == IF Len(s) < Len(t) THEN Len(s) ELSE Len(t)
        rest == IF Len(s) > Len(t) THEN IF s[n + 1].type = "p" THEN 1 ELSE -1
                ELSE IF Len(s) < Len(t) THEN IF t[n + 1].type = "p" THEN -1 ELSE 1
                ELSE 0
    IN FirstDecision([i \in 1..n |-> PMSSuffix(s[i], t[i])] \o <<rest>>)

PMSCompare(v, w) ==
    LET n == IF Len(v.comps) < Len(w.comps) THEN Len(v.comps) ELSE Len(w.comps)
    IN FirstDecision(<<Value(v.comps[1]) - Value(w.comps[1])>>
                       \o [i \in 1..(n - 1) |-> PMSComponent(v.comps[i + 1], w.comps[i + 1])]
                       \o <<Len(v.comps) - Len(w.comps),
                            v.letter - w.letter,
                            PMSSuffixes(v.sufs, w.sufs),
                            v.rev - w.rev>>)
=============================================================================
