---------------------------- MODULE SignalScoring ----------------------------
(***************************************************************************)
(* How a company is scored against the signal library: the tiers           *)
(* seed_signals gives the library, compute_scan_scoring and band_for of    *)
(* sourcing/app/services/signal_engine.py, and rescore of                  *)
(* sourcing/scripts/sourcing_run/score_math.py, which scores the companies *)
(* an import brings in.                                                    *)
(*                                                                         *)
(* Fractions are integers, in units of 1/10000: the code rounds every      *)
(* fraction it stores to four digits.                                      *)
(***************************************************************************)
EXTENDS Integers, Sequences, FiniteSets, Functions

CONSTANTS
    Library,           \* the rows of the signal library, in its order
    Category,          \* the categories that have a weight
    Weight,            \* CATEGORY_WEIGHTS, in percent
    Quota,             \* TIER1_QUOTAS
    VetoNumbers,       \* VETO_SIGNAL_NUMBERS
    BatchSize          \* signals per LLM call

ASSUME LibraryAssumption ==
    /\ Library \in Seq([num : Nat, category : STRING, strength : {"high", "medium"}])
    /\ \A i, j \in DOMAIN Library : Library[i].num = Library[j].num => i = j
    /\ IsFiniteSet(Category)
    /\ Weight \in [Category -> Nat \ {0}] /\ Quota \in [Category -> Nat]
    /\ BatchSize \in Nat \ {0}

Unit == 10000

\* round(numerator / denominator, 4), of a fraction given in units.
RoundDiv(num, den) == (2 * num + den) \div (2 * den)

Sum(f, S) == SumFunctionOnSet(f, S)

-----------------------------------------------------------------------------
(* The library after seed_signals *)

Signals == {Library[i].num : i \in DOMAIN Library}

RowOf(n) == CHOOSE i \in DOMAIN Library : Library[i].num = n

CategoryOf(n) == Library[RowOf(n)].category

Points == [n \in Signals |-> IF Library[RowOf(n)].strength = "high" THEN 2 ELSE 1]

\* The first Quota[c] high-strength signals of a category are in tier 1.
WithinQuota(n) ==
    LET rivals == {i \in 1 .. RowOf(n) - 1 : /\ Library[i].category = CategoryOf(n)
                                            /\ Library[i].strength = "high"}
    IN  /\ Library[RowOf(n)].strength = "high" /\ CategoryOf(n) \in Category
        /\ Cardinality(rivals) < Quota[CategoryOf(n)]

Tier1 == {n \in Signals : WithinQuota(n) \/ n \in VetoNumbers}

Depth == {"standard", "full"}

Scanned(depth) == IF depth = "full" THEN Signals ELSE Tier1

BatchOf(depth, n) == Cardinality({m \in Scanned(depth) : m < n}) \div BatchSize

Batches(depth) == {BatchOf(depth, n) : n \in Scanned(depth)}

-----------------------------------------------------------------------------
(* compute_scan_scoring: v is the verdict on every signal of a scan *)

Verdict == {"confirmed", "absent", "unknown", "not_applicable"}

Scores_Unknown(r) == r \in {"confirmed", "absent", "unknown"}

\* Verdicts with an entry in RESULT_CREDIT.
Scores(r) == r \in {"confirmed", "absent"}

Resolved(v, c) == {n \in DOMAIN v : CategoryOf(n) = c /\ Scores(v[n])}

Earned_Unknown(v, c) ==
    {n \in DOMAIN v : CategoryOf(n) = c /\ v[n] \in {"confirmed", "unknown"}}

Earned(v, c) == {n \in Resolved(v, c) : v[n] = "confirmed"}

\* Categories with nothing resolved drop out of the blend, and one that has no
\* weight adds nothing to it.
Blended(v) == {c \in Category : Resolved(v, c) # {}}

CategoryFit(v) ==
    [c \in Blended(v) |->
        RoundDiv(Unit * Sum(Points, Earned(v, c)), Sum(Points, Resolved(v, c)))]

Fit(v) ==
    LET weight == Sum(Weight, Blended(v))
        fit == CategoryFit(v)
    IN  IF weight = 0 THEN 0
        ELSE RoundDiv(SumFunction([c \in Blended(v) |-> Weight[c] * fit[c]]), weight)

Coverage(v) ==
    IF DOMAIN v = {} THEN 0
    ELSE RoundDiv(Unit * Cardinality({n \in DOMAIN v : Scores(v[n])}),
                  Cardinality(DOMAIN v))

Band(fit, coverage) ==
    CASE coverage < 4000 -> "insufficient-evidence"
      [] coverage >= 4000 /\ fit >= 7000 -> "strong"
      [] coverage >= 4000 /\ fit >= 5000 /\ fit < 7000 -> "moderate"
      [] coverage >= 4000 /\ fit >= 3500 /\ fit < 5000 -> "weak"
      [] OTHER -> "poor"

-----------------------------------------------------------------------------
(* rescore: the same numbers for an import, from what an agent reported.    *)
(* known holds the signals whose category canon_category recognises: the    *)
(* others count for the coverage and not for the fit.                       *)

ImportFit(v, known) ==
    LET resolved(c) == {n \in known \cap DOMAIN v :
                           CategoryOf(n) = c /\ v[n] \in {"confirmed", "absent"}}
        confirmed(c) == {n \in resolved(c) : v[n] = "confirmed"}
        blended == {c \in Category : resolved(c) # {}}
        points == [c \in blended |-> Sum(Points, resolved(c))]
        common == FoldFunctionOnSet(LAMBDA x, y : x * y, 1, points, blended)
        numerator == SumFunction([c \in blended |->
                        Weight[c] * Sum(Points, confirmed(c)) * (common \div points[c])])
    IN  IF blended = {} THEN 0
        ELSE RoundDiv(Unit * numerator, common * Sum(Weight, blended))

ImportCoverage(v) ==
    IF DOMAIN v = {} THEN 0
    ELSE RoundDiv(Unit * Cardinality({n \in DOMAIN v : v[n] \in {"confirmed", "absent"}}),
                  Cardinality(DOMAIN v))

=============================================================================
