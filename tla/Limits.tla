-------------------------------- MODULE Limits --------------------------------
(***************************************************************************)
(* The limits that CreateSandboxWithFds and RunCodeOnInput derive from the *)
(* TestOptions (execution/tester_sandboxer.cc).  Durations are counted in  *)
(* ticks, memory in units; the constants stand for the widths and sizes of *)
(* the code, whose values are too large for TLC.                           *)
(***************************************************************************)
EXTENDS Integers

CONSTANTS
  Word,          (* uint64_t is 0..Word-1, int64_t the half of it around 0 *)
  Interpreter,   (* 32ULL << 20, for the interpreter itself                *)
  Second,        (* ticks in a second                                      *)
  MaxDuration    (* bound on max_execution_duration, which has a sign       *)

ASSUME LimitsAssumption ==
  /\ Word \in Nat /\ Interpreter \in Nat /\ Second \in Nat \ {0}
  /\ 2 * Interpreter <= Word
  /\ MaxDuration \in Nat

Int64 == {m \in -Word..Word : -Word <= 2 * m /\ 2 * m < Word}

RLIM64_INFINITY == Word - 1

Durations == (-MaxDuration)..MaxDuration

\* As rlimit_as, when the sum is one of signed numbers.
rlimit_as_signed(memory_limit_bytes, sanitizers) ==
  LET sum == memory_limit_bytes + Interpreter IN
  IF sanitizers THEN RLIM64_INFINITY ELSE IF 2 * sum >= Word THEN sum - Word ELSE sum

\* The sum of int64_t and unsigned long long is one modulo Word.
rlimit_as(memory_limit_bytes, sanitizers) ==
  IF sanitizers THEN RLIM64_INFINITY ELSE (memory_limit_bytes + Interpreter) % Word

\* ToInt64Seconds rounds towards zero.
ToInt64Seconds(duration) ==
  IF duration >= 0 THEN duration \div Second ELSE -((-duration) \div Second)

\* As rlimit_cpu, without the least value.
rlimit_cpu_of_short(max_execution_duration) == ToInt64Seconds(max_execution_duration)

rlimit_cpu(max_execution_duration) ==
  LET seconds == ToInt64Seconds(max_execution_duration)
  IN IF seconds < 1 THEN 1 ELSE seconds

\* In ticks.
walltime_limit(max_execution_duration) == max_execution_duration * 30

-----------------------------------------------------------------------------
(* What the limits are to be.  Nothing is said of a memory limit below zero. *)

\* A program may use the memory of its options next to what the interpreter needs,
\* up to the largest int64_t: the sum, which a signed one would make negative, does
\* not wrap (tester_sandboxer.cc lines 290-295).
MemoryIsGranted ==
  \A m \in Int64 : \A sanitizers \in BOOLEAN :
    m >= 0 =>
      /\ rlimit_as(m, sanitizers) >= m
      /\ ~sanitizers => rlimit_as(m, sanitizers) - Interpreter >= m

\* Less than a second of processor time is lost to rounding, and no program is given
\* none, even if its options ask for nothing or less (lines 301-302).
TimeIsGranted ==
  \A d \in Durations :
    rlimit_cpu(d) >= 1 /\ rlimit_cpu(d) * Second > d - Second

\* A program that never waits meets its processor limit before the wall time limit,
\* which is there "to guard against code that sleeps forever" (lines 431-433), unless
\* its options allow less than the 30th part of a second.
WallTimeIsLater ==
  \A d \in Durations :
    30 * d >= Second => rlimit_cpu(d) * Second <= walltime_limit(d)
=============================================================================
