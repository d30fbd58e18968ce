----------------------------- MODULE AdcSample -----------------------------
(***************************************************************************)
(* Sampling the ADC (drivers/adc.c, vendor/common/battery_check.c).  The   *)
(* ADC keeps filling a ring of eight slots by DMA.  The program sorts the  *)
(* values in as it takes them, drops the two smallest and the two largest  *)
(* and averages the rest.  It looks at a slot twice, for the sign and for  *)
(* the value, and the ADC may have overwritten the slot in between.        *)
(***************************************************************************)
EXTENDS Integers, Sequences, FiniteSetsExt

CONSTANTS
    AdcCodes,       \* the 14-bit values the ADC gives in a sampling
    TornReads       \* slots overwritten between the two looks in a sampling

ADC_SAMPLE_NUM == 8
Bit13 == 8192

ASSUME AdcAssumption == AdcCodes \subseteq 0 .. 2 * Bit13 - 1 /\ TornReads \in 0 .. 2

VARIABLES
    adc_sample,     \* the values taken, sorted
    adc_code,       \* the last result
    adc_taken,      \* observer: the values taken, each with how often it had been before
    adc_true,       \* observer: what the ADC had measured at each look
    adc_torn        \* observer: the values whose sign was lost

adcVars == <<adc_sample, adc_code, adc_taken, adc_true, adc_torn>>

\* Below zero counts as zero.
Magnitude(code) == IF code >= Bit13 THEN 0 ELSE code

\* The sign is that of the first look, the bits those of the second.
TakenFrom(first, second) == IF first >= Bit13 THEN 0 ELSE second % Bit13

\* Mutant: the value sorted in is not compared with the first.
SortInAboveFirst(sorted, v) ==
    LET n == Max({0} \cup {k \in DOMAIN sorted : k = 1 \/ sorted[k] <= v})
    IN  SubSeq(sorted, 1, n) \o <<v>> \o SubSeq(sorted, n + 1, Len(sorted))

\* The loop goes down until it meets a value that is not larger.
SortIn(sorted, v) ==
    LET n == Max({0} \cup {k \in DOMAIN sorted : sorted[k] <= v})
    IN  SubSeq(sorted, 1, n) \o <<v>> \o SubSeq(sorted, n + 1, Len(sorted))

Average(sorted) == (sorted[3] + sorted[4] + sorted[5] + sorted[6]) \div 4

OneMore(taken, v) == taken \cup {<<v, Cardinality({x \in taken : x[1] = v})>>}

AdcInit ==
    /\ adc_sample = <<>> /\ adc_code = 0
    /\ adc_taken = {} /\ adc_true = {} /\ adc_torn = 0

TakeSample ==
    /\ Len(adc_sample) < ADC_SAMPLE_NUM
    /\ \E first, second \in AdcCodes :
         LET Go(old, new) == IF adc_sample = <<>> THEN new ELSE old
         IN  /\ adc_torn' = Go(adc_torn, 0) + (IF first = second THEN 0 ELSE 1)
             /\ adc_torn' <= TornReads
             /\ adc_taken' = OneMore(Go(adc_taken, {}), TakenFrom(first, second))
             /\ adc_true' = Go(adc_true, {}) \cup {Magnitude(first), Magnitude(second)}
             /\ adc_sample' = SortIn(adc_sample, TakenFrom(first, second))
    /\ UNCHANGED adc_code

AdcResult ==
    /\ Len(adc_sample) = ADC_SAMPLE_NUM
    /\ adc_code' = Average(adc_sample)
    /\ adc_sample' = <<>>
    /\ UNCHANGED <<adc_taken, adc_true, adc_torn>>

AdcNext == TakeSample \/ AdcResult

----------------------------------------------------------------------------

\* The four values averaged are the middle ones of the eight taken, and up to
\* two slots whose sign and bits are of different measurements do not move the
\* result out of the range of what the ADC measured.
MiddleAverage ==
    adc_sample = <<>> /\ adc_taken # {} =>
      LET Nth(k) == CHOOSE v \in {x[1] : x \in adc_taken} :
                      /\ Cardinality({x \in adc_taken : x[1] < v}) < k
                      /\ Cardinality({x \in adc_taken : x[1] <= v}) >= k
      IN  /\ adc_code = (Nth(3) + Nth(4) + Nth(5) + Nth(6)) \div 4
          /\ \E lo, hi \in adc_true : lo <= adc_code /\ adc_code <= hi
=============================================================================
