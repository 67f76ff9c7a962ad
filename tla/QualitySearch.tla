--------------------------- MODULE QualitySearch ---------------------------
\* find_quality_for_target (worker/vmaf.py): the binary search for the largest
\* quality value, that is the smallest file, whose sample encodes still meet the
\* target. Nothing is assumed of the measurements: a probe may meet the target at
\* one quality and miss it at a better one.
EXTENDS Integers

CONSTANTS Lo, Hi  \* SEARCH_RANGE

ASSUME RangeAssumption == Lo \in Int /\ Hi \in Int /\ Lo =< Hi

VARIABLES
    lo, hi,  \* what is left of the range
    best,    \* the quality of the last QualitySearchResult, or NoQuality
    met,     \* history: the qualities whose samples met the target
    missed   \* history: those whose samples did not

searchVars == <<lo, hi, best, met, missed>>

NoQuality == Lo - 1

SearchInit == lo = Lo /\ hi = Hi /\ best = NoQuality /\ met = {} /\ missed = {}

SearchReset == lo' = Lo /\ hi' = Hi /\ best' = NoQuality /\ met' = {} /\ missed' = {}

\* The best end of the range is tried before it is halved.
First == met = {} /\ missed = {}

\* The range is used up, or even its best end misses the target.
SearchOver == (lo = hi /\ ~First) \/ lo \in missed

Midpoint == (lo + hi + 1) \div 2
Candidate == IF First THEN lo ELSE Midpoint

\* meets(q) is true: the quality is the best so far, and the search goes on above.
Meets ==
    /\ ~SearchOver
    /\ met' = met \cup {Candidate}
    /\ best' = Candidate
    /\ lo' = Candidate
    /\ UNCHANGED <<hi, missed>>

\* Mutant of Misses: the quality below the one that missed goes with it.
MissesFurther ==
    /\ ~SearchOver
    /\ missed' = missed \cup {Candidate}
    /\ hi' = IF First \/ Candidate - 1 = lo THEN lo ELSE Candidate - 2
    /\ UNCHANGED <<lo, best, met>>

\* meets(q) is false: nothing at or above it, or no result at all.
Misses ==
    /\ ~SearchOver
    /\ missed' = missed \cup {Candidate}
    /\ hi' = IF First THEN hi ELSE Candidate - 1
    /\ UNCHANGED <<lo, best, met>>

SearchNext == Meets \/ Misses

SearchSpec == SearchInit /\ [][SearchNext]_searchVars

-----------------------------------------------------------------------------
\* What the search knows half way: lo was met and everything that missed lies above hi,
\* hi being the end of the range or just below a quality that missed; or lo has not moved.
SearchInv ==
    /\ lo \in Int /\ hi \in Int /\ Lo =< lo /\ lo =< hi /\ hi =< Hi
    /\ met \subseteq Int /\ missed \subseteq Int
    /\ First => lo = Lo /\ hi = Hi
    /\ hi = Hi \/ hi + 1 \in missed
    /\ IF lo \in met
       THEN best = lo /\ \A q \in missed : hi < q
       ELSE best = NoQuality /\ lo = Lo /\ (First \/ lo \in missed)

\* find_quality_for_target returns a quality whose samples it saw meet the target,
\* and one that cannot be raised: the next one was tried and missed, or there is
\* none. It returns nothing only when the best end of the range missed.
SearchExact ==
    SearchOver =>
        \/ best = NoQuality /\ Lo \in missed
        \/ best \in met /\ (best = Hi \/ best + 1 \in missed)
=============================================================================
