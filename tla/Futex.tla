------------------------------- MODULE Futex -------------------------------
(***************************************************************************)
(* FutexWord (crates/hio-concurrent/src/futex.rs) and the platform shims    *)
(* under it.  A futex is a word and a set of threads asleep on it, which    *)
(* the kernel keeps; the operators give the set that an operation leaves    *)
(* asleep.  futex.rs picks the shim when it is compiled.                    *)
(***************************************************************************)
EXTENDS Integers, FiniteSets

CONSTANTS
  NrWake,   \* what the Linux wake_all passes to the kernel, read as a signed int
  INFINITE  \* the milliseconds of a wait that never ends on Windows, u32::MAX

ASSUME FutexAssumption == NrWake \in Int /\ INFINITE \in Nat /\ INFINITE > 1

Platforms == {"linux", "windows"}

\* FUTEX_WAKE stops when it has woken nr threads, and looks at nr only after
\* waking one.
AfterFutexWake(asleep, nr) ==
  LET most == IF nr < 1 THEN 1 ELSE nr IN
  IF Cardinality(asleep) <= most THEN {{}}
  ELSE {left \in SUBSET asleep : Cardinality(asleep \ left) = most}

\* WakeByAddressSingle and WakeByAddressAll
AfterWakeSingle(asleep) == IF asleep = {} THEN {{}} ELSE {asleep \ {w} : w \in asleep}

LinuxWakeOne(asleep) == AfterFutexWake(asleep, 1)
LinuxWakeAll(asleep) == AfterFutexWake(asleep, NrWake)

WindowsWakeOne(asleep) == AfterWakeSingle(asleep)
WindowsWakeAll(asleep) == {{}}

\* FutexWord::wake_one and wake_all
WakeOneOf(platform, asleep) ==
  IF platform = "linux" THEN LinuxWakeOne(asleep) ELSE WindowsWakeOne(asleep)
WakeAllOf(platform, asleep) ==
  IF platform = "linux" THEN LinuxWakeAll(asleep) ELSE WindowsWakeAll(asleep)

\* FUTEX_WAIT and WaitOnAddress compare the word with what the caller expects
\* and put the caller to sleep in one step.
AfterCompare(word, expected, asleep, t) ==
  IF word = expected THEN asleep \cup {t} ELSE asleep

LinuxWait(word, expected, asleep, t) == AfterCompare(word, expected, asleep, t)
WindowsWait(word, expected, asleep, t) == AfterCompare(word, expected, asleep, t)

\* FutexWord::wait
WaitOf(platform, word, expected, asleep, t) ==
  IF platform = "linux" THEN LinuxWait(word, expected, asleep, t)
  ELSE WindowsWait(word, expected, asleep, t)

\* The milliseconds that the Windows wait_timeout passes for a duration in
\* nanoseconds: rounded up, at least one, and less than INFINITE.
NanosPerMilli == 1000000
DivCeil(n, d) == IF n % d = 0 THEN n \div d ELSE n \div d + 1
Clamp(n, low, high) == IF n < low THEN low ELSE IF n > high THEN high ELSE n
WindowsTimeout(ns) == Clamp(DivCeil(ns, NanosPerMilli), 1, INFINITE - 1)
=============================================================================
