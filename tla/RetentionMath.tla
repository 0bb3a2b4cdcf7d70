---------------------------- MODULE RetentionMath -----------------------------
(***************************************************************************)
(* The millisecond arithmetic behind retention.  Durations count in u128,  *)
(* clocks and stored times in u64; the width of the integers is a          *)
(* parameter, so that TLC meets the edges of a small one.                  *)
(***************************************************************************)
EXTENDS Integers

CONSTANTS
    U64Range   \* number of u64 values, 2^64

ASSUME U64RangeAssumption == U64Range \in Nat /\ U64Range >= 2

U64 == 0 .. U64Range - 1

\* n as u64, of a u128: the high bits go.
AsU64(n) == n % U64Range

SaturatingAdd(a, b) == IF a + b < U64Range THEN a + b ELSE U64Range - 1
SaturatingSub(a, b) == IF a > b THEN a - b ELSE 0

\* Plain u64 operators, which wrap around in a release build.
Mutant_WrappingAdd(a, b) == (a + b) % U64Range
Mutant_WrappingSub(a, b) == (a - b) % U64Range

\* The expiry wraps around.
Mutant_ExpiresAt(now, retention) == Mutant_WrappingAdd(now, AsU64(retention))

\* The duration keeps its 128 bits.
Mutant_ExpiresAtWide(now, retention) == now + retention

\* expires_at_ms, stored with a result blob.
ExpiresAt(now, retention) == SaturatingAdd(now, AsU64(retention))

\* A young clock makes every entry old.
Mutant_Cutoff(now, retention) == Mutant_WrappingSub(now, AsU64(retention))

\* The operands the other way round.
Mutant_CutoffSwapped(now, retention) == SaturatingSub(AsU64(retention), now)

\* cutoff_ms: audit entries from before it are old.
Cutoff(now, retention) == SaturatingSub(now, AsU64(retention))

\* task_ttl_ms: what clients are told, {} (None) when it does not fit in u64.
TtlMs(retention) == {ms \in {retention} : ms < U64Range}
==============================================================================
