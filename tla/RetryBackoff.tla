---------------------------- MODULE RetryBackoff ----------------------------
(***************************************************************************)
(* The delay before the next attempt, from the retry snapshot of a job.    *)
(* Math.random() is `spin` of `Spins`; delays are whole milliseconds.      *)
(***************************************************************************)
EXTENDS Integers

Strategies == {"fixed", "linear", "exponential"}
Spins      == 100   \* bound: how finely the jitter is resolved

\* What the strategy asks for, after the attempt that just failed.
Asked(snapshot, attempt) ==
    LET n == IF attempt > 1 THEN attempt ELSE 1 IN
    CASE snapshot.strategy = "fixed"       -> snapshot.base
      [] snapshot.strategy = "linear"      -> snapshot.base * n
      [] snapshot.strategy = "exponential" -> snapshot.base * 2 ^ (n - 1)

\* Faulty variant of Capped: the delay is not limited.
Uncapped(asked, max) == asked

Capped(asked, max) == IF asked > max THEN max ELSE asked

\* delay * (0.85 + rand * 0.3), rounded.
Jittered(delay, spin) == (delay * (85 * Spins + 30 * spin) + 50 * Spins) \div (100 * Spins)

\* computeBackoffMs.
Backoff(snapshot, attempt, spin) ==
    LET delay == Capped(Asked(snapshot, attempt), snapshot.max)
    IN  IF snapshot.jitter THEN Jittered(delay, spin) ELSE delay
=============================================================================
