------------------------------ MODULE PoolMath ------------------------------
(***************************************************************************)
(* The integer arithmetic of program/src/processor.rs and of utils.rs: how *)
(* many pool tokens a deposit can buy, what it pays and what a redemption  *)
(* pays out, the entry fee and its three-way split, and the fixed-point    *)
(* power that prices the periodic fee.  Products are computed by the       *)
(* program in u128 and never wrap there; a cast back to u64 is a % U64.    *)
(***************************************************************************)
EXTENDS Integers

CONSTANTS
    Scale,  \* 2^16: a fee ratio is a 16-bit fraction of Scale
    U64     \* 2^64: one more than the largest token amount

ASSUME MathAssumption ==
    /\ Scale \in Nat /\ Scale > 1
    /\ U64 \in Nat /\ U64 > 1

-----------------------------------------------------------------------------
(* Entry and exit                                                          *)

\* A plausible slip: one added to the quotient in order to round it up.
AffordableOneTooMany(source, supply, held) ==
    IF held = 0 THEN U64 - 1 ELSE ((source * supply) \div held + 1) % U64

(* The pool tokens that a source account can pay for in one asset.  A pool *)
(* account that holds nothing does not limit the deposit (checked_div).    *)
Affordable(source, supply, held) ==
    IF held = 0 THEN U64 - 1 ELSE ((source * supply) \div held) % U64

\* A plausible slip: the part is taken of the supply after the deposit.
DepositAmountOfNewSupply(tokens, held, supply) ==
    (tokens * held) \div (supply + tokens)

(* What a deposit of that many pool tokens owes in one asset: rounded down, *)
(* and no more than the source account holds, so that its cast is exact.   *)
DepositAmount(tokens, held, supply) == (tokens * held) \div supply

\* A plausible slip: a redemption is rounded up.
RedeemAmountRoundedUp(tokens, held, supply) ==
    (tokens * held + supply - 1) \div supply

\* What one pass over an asset slot pays for that many pool tokens.
RedeemAmount(tokens, held, supply) == (tokens * held) \div supply

(* What is left of an asset after a redemption went over the slots that    *)
(* list it: each pass reads the balance its predecessor left.              *)
LeftAfter(tokens, held, supply, passes) ==
    LET left[i \in 0 .. passes] ==
          IF i = 0 THEN held
          ELSE left[i - 1] - RedeemAmount(tokens, left[i - 1], supply)
    IN  left[passes]

-----------------------------------------------------------------------------
(* Fees                                                                    *)

\* The bitwise complement of a u16.
Not16(ratio) == Scale - 1 - ratio

DepositFee(ratio, tokens) == (ratio * tokens) \div Scale

ProviderShare(fee) == fee \div 2
BonfidaShare(fee)  == fee \div 4
BuyBurnShare(fee)  == fee - BonfidaShare(fee) - ProviderShare(fee)

\* A plausible slip: the odd power forgets its last factor.
PowFixedWithoutOdd(x, n) ==
    LET p[i \in Nat] == IF i <= 1 THEN x
                        ELSE LET h == p[i \div 2] IN (h * h) \div Scale
    IN  p[n]

\* A plausible slip: the recursion bottoms out one step too late.
PowFixedFromZero(x, n) ==
    LET p[i \in Nat] ==
          IF i = 0 THEN x
          ELSE LET h  == p[i \div 2]
                   sq == (h * h) \div Scale
               IN  IF i % 2 = 1 THEN (sq * x) \div Scale ELSE sq
    IN  p[n]

(* pow_fixedpoint_u16: x^n by repeated squaring, every product truncated   *)
(* back to 16 fractional bits.                                             *)
PowFixed(x, n) ==
    LET p[i \in Nat] ==
          IF i <= 1 THEN x
          ELSE LET h  == p[i \div 2]
                   sq == (h * h) \div Scale
               IN  IF i % 2 = 1 THEN (sq * x) \div Scale ELSE sq
    IN  p[n]

FeelessRatio(ratio, cycles) == PowFixed(Not16(ratio), cycles) % Scale

\* The whole collection periods since the fees were last collected.
FeeCycles(time, last, period) == (time - last) \div period

\* A plausible slip: the quotient is rounded up.
FeeTokensRoundedUp(feeless, supply) ==
    ((Not16(feeless) * supply + feeless - 1) \div feeless) % U64

(* The pool tokens that a collection mints so that the holders of the old  *)
(* supply are left with feeless / Scale of the new one.                    *)
FeeTokens(feeless, supply) == ((Not16(feeless) * supply) \div feeless) % U64
=============================================================================
