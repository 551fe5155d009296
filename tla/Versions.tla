------------------------------ MODULE Versions ------------------------------
(***************************************************************************)
(* version/semver.go: which version texts are accepted, their order, and   *)
(* whether an installed version is inside the range of a catalog policy.   *)
(*                                                                         *)
(* A version text is modelled after it has been split at "+", "-" and ".": *)
(* core, pre and build are sequences of identifiers, an identifier is a    *)
(* sequence of character codes.  pre = <<>> says that there is no "-", and *)
(* pre = <<<<>>>> that nothing follows it.                                 *)
(***************************************************************************)
EXTENDS Integers, Sequences, FiniteSetsExt

Digit == 48 .. 57
Letter == (65 .. 90) \cup (97 .. 122)
Hyphen == 45

\* isNumeric; strings.IndexFunc finds no other character.
Numeric(id) == id # <<>> /\ \A i \in 1 .. Len(id) : id[i] \in Digit
Spelled(id) == id # <<>> /\ \A i \in 1 .. Len(id) : id[i] \in Digit \cup Letter \cup {Hyphen}

ValidIdentifiers(ids, rejectLeadingZeroes) == \A i \in 1 .. Len(ids) :
    /\ Spelled(ids[i])
    /\ ~(rejectLeadingZeroes /\ Len(ids[i]) > 1 /\ ids[i][1] = 48 /\ Numeric(ids[i]))

\* Atoi of a core number refuses what does not fit an int; no longer one is enumerated.
Number(id) ==
    LET Value[n \in 0 .. Len(id)] == IF n = 0 THEN 0 ELSE 10 * Value[n - 1] + id[n] - 48
    IN  Value[Len(id)]

Parsed(v) ==
    /\ ValidIdentifiers(v.build, FALSE)
    /\ ValidIdentifiers(v.pre, TRUE)
    /\ Len(v.core) = 3
    /\ \A i \in 1 .. 3 : Numeric(v.core[i])

Sign(n) == IF n < 0 THEN -1 ELSE IF n > 0 THEN 1 ELSE 0

\* The comparison of two sequences at the first place where Ordered is not 0.
AtFirstDifference(l, r, Ordered(_, _)) ==
    LET shared == 1 .. (IF Len(l) < Len(r) THEN Len(l) ELSE Len(r))
        differ == {i \in shared : Ordered(l[i], r[i]) # 0}
    IN  IF differ = {} THEN Sign(Len(l) - Len(r)) ELSE Ordered(l[Min(differ)], r[Min(differ)])

Subtract(a, b) == Sign(a - b)
CompareText(l, r) == AtFirstDifference(l, r, Subtract)

\* Mutant of CompareIdentifier: numeric identifiers are compared as text only.
CompareAsText(l, r) ==
    CASE Numeric(l) /\ ~Numeric(r) -> -1
      [] ~Numeric(l) /\ Numeric(r) -> 1
      [] OTHER -> CompareText(l, r)

CompareIdentifier(l, r) ==
    CASE Numeric(l) /\ ~Numeric(r) -> -1
      [] ~Numeric(l) /\ Numeric(r) -> 1
      [] Numeric(l) /\ Numeric(r) /\ Len(l) # Len(r) -> Sign(Len(l) - Len(r))
      [] OTHER -> CompareText(l, r)

ComparePrerelease(l, r) ==
    CASE l = <<>> /\ r = <<>> -> 0
      [] l = <<>> /\ r # <<>> -> 1
      [] l # <<>> /\ r = <<>> -> -1
      [] OTHER -> AtFirstDifference(l, r, CompareIdentifier)

CompareNumber(l, r) == Sign(Number(l) - Number(r))
Compare(l, r) ==
    LET core == AtFirstDifference(l.core, r.core, CompareNumber)
    IN  IF core # 0 THEN core ELSE ComparePrerelease(l.pre, r.pre)

\* A bound that is not given.
Unbounded == [core |-> <<>>, pre |-> <<>>, build |-> <<>>]

\* Compatible answers true; an error of Compare counts as incompatible (applyVersionPolicies).
Compatible(v, minimum, maximum) ==
    /\ minimum # Unbounded => Parsed(v) /\ Parsed(minimum) /\ Compare(v, minimum) >= 0
    /\ maximum # Unbounded => Parsed(v) /\ Parsed(maximum) /\ Compare(v, maximum) <= 0

-----------------------------------------------------------------------------
(* SemVer 2.0.0, clause 11: the precedence the code is to implement.       *)

\* Numeric identifiers by their value and below all others, which go by their text.
Weight(id) == IF Numeric(id) THEN <<0, Number(id)>> ELSE <<1>> \o id
Heavier(a, b) == \E i \in 1 .. Len(a) :
    /\ i > Len(b) \/ a[i] > b[i]
    /\ \A j \in 1 .. i - 1 : j <= Len(b) /\ a[j] = b[j]

\* Does r have precedence over l?
Precedes(l, r) ==
    LET Core(v) == [i \in 1 .. 3 |-> Number(v.core[i])]
        Later == \E i \in 1 .. Len(r.pre) :
                    /\ i > Len(l.pre) \/ Heavier(Weight(r.pre[i]), Weight(l.pre[i]))
                    /\ \A j \in 1 .. i - 1 : j <= Len(l.pre) /\ Weight(l.pre[j]) = Weight(r.pre[j])
    IN  \/ Heavier(Core(r), Core(l))
        \/ /\ Core(l) = Core(r)
           /\ \/ l.pre # <<>> /\ r.pre = <<>>
              \/ l.pre # <<>> /\ r.pre # <<>> /\ Later

Within(v, minimum, maximum) ==
    /\ minimum = Unbounded \/ ~Precedes(v, minimum)
    /\ maximum = Unbounded \/ ~Precedes(maximum, v)
=============================================================================
