----------------------------- MODULE TokenAmount -----------------------------
(***************************************************************************)
(* Amounts as they are typed and shown: decimal texts of whole tokens and  *)
(* the planck they stand for.  A text is its digits before and after the   *)
(* point; one without a point has none after it.                           *)
(***************************************************************************)
EXTENDS Integers, Sequences, SequencesExt

CONSTANTS
    Decimals,                  \* CHAIN_DECIMALS
    MaxWhole, MaxFrac, Digits  \* bounds on the texts that are typed

ASSUME TokenAmountAssumption ==
    /\ Decimals \in Nat \ {0} /\ MaxWhole \in Nat \ {0} /\ MaxFrac \in Nat
    /\ Digits \subseteq 0 .. 9

VARIABLES typed, planck, displayed

amountVars == <<typed, planck, displayed>>

\* What the pattern of parseTokenAmount accepts, within the bounds.
Text == [whole : BoundedSeq(Digits, MaxWhole) \ {<<>>}, frac : BoundedSeq(Digits, MaxFrac)]

\* The powers of ten, by their recursion.
Ten[n \in Nat] == IF n = 0 THEN 1 ELSE 10 * Ten[n - 1]

Zeros(n) == [i \in 1 .. n |-> 0]

Value(digits) == FoldLeft(LAMBDA n, d : 10 * n + d, 0, digits)

\* n in k digits, with leading zeros.
Padded(n, k) == [i \in 1 .. k |-> (n \div Ten[k - i]) % 10]

\* n without leading zeros.
Plain(n) == LET k == CHOOSE k \in 1 .. n + 1 : n < Ten[k] /\ (k = 1 \/ n >= Ten[k - 1])
            IN  Padded(n, k)

Chopped(digits) ==
    SubSeq(digits, 1, CHOOSE k \in 0 .. Len(digits) :
                          /\ k = 0 \/ digits[k] # 0
                          /\ \A i \in k + 1 .. Len(digits) : digits[i] = 0)

\* Mutant of ParseTokenAmount: the fraction is not padded before it is cut.
ParseUnpadded(text) ==
    Value(text.whole) * Ten[Decimals]
        + Value(SubSeq(text.frac, 1, IF Len(text.frac) < Decimals THEN Len(text.frac) ELSE Decimals))

ParseTokenAmount(text) ==
    Value(text.whole) * Ten[Decimals]
        + Value(SubSeq(text.frac \o Zeros(Decimals), 1, Decimals))

FormatTokenAmount(p) ==
    [whole |-> Plain(p \div Ten[Decimals]),
     frac |-> IF p % Ten[Decimals] = 0 THEN <<>>
              ELSE Chopped(Padded(p % Ten[Decimals], Decimals))]

AmountInit == typed \in Text /\ planck = -1 /\ displayed = typed

\* A form sends what was typed.
Send == /\ planck = -1
        /\ planck' = ParseTokenAmount(typed)
        /\ UNCHANGED <<typed, displayed>>

\* A page shows what the chain has.
Show == /\ planck # -1
        /\ displayed' = FormatTokenAmount(planck)
        /\ UNCHANGED <<typed, planck>>

AmountNext == Send \/ Show

AmountSpec == AmountInit /\ [][AmountNext]_amountVars
-----------------------------------------------------------------------------
\* All digits as one number, cut to the planck.
TypedPlanck == (Value(typed.whole \o typed.frac) * Ten[Decimals]) \div Ten[Len(typed.frac)]

\* No form sends more than was typed, and at most what is below one planck
\* gets lost; what a page then shows is, typed again, the same amount.
AmountsKept ==
    planck # -1 => planck = TypedPlanck /\ ParseTokenAmount(FormatTokenAmount(planck)) = planck
=============================================================================
