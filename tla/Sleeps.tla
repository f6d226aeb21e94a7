------------------------------ MODULE Sleeps -------------------------------
(***************************************************************************)
(* How long a hooked sleep waits: the milliseconds that sleep, usleep and  *)
(* nanosleep give to addTimer, at the width of their types.                *)
(***************************************************************************)
EXTENDS Integers, Asked

CONSTANTS
  Kilo,   \* milliseconds of a second, and so on (1000)
  IntMax  \* INT_MAX (2^31 - 1)

ASSUME SleepsAssumption == Kilo \in Nat \ {0} /\ IntMax \in Nat

Width == 2 * (IntMax + 1)  \* the values of an unsigned int

(* An unsigned product of 32 bits. *)
sleep(seconds) == (seconds * Kilo) % Width
usleep(usec)   == usec \div Kilo
(* Mutant: the nanoseconds are divided once. *)
nanosleepMicro(sec, nsec) == sec * Kilo + nsec \div Kilo
(* A 64-bit sum becomes an int, and that an uint64_t again: a negative one  *)
(* is further away than any deadline.                                       *)
nanosleep(sec, nsec) ==
  LET ms == (sec * Kilo + (nsec \div Kilo) \div Kilo) % Width
  IN IF ms <= IntMax THEN ms ELSE ms + Width * Width - Width

(* A hooked sleep waits for the time it was asked for, in whole             *)
(* milliseconds, never for longer and for less than one millisecond less,   *)
(* as long as that time fits in an int.                                     *)
Exact(ms, time, unit) == ms * unit <= time /\ time < (ms + 1) * unit
SleepsAsAsked ==
  asked.op = "sleep" /\ (asked.sec + 1) * Kilo <= IntMax =>
    LET Mega == Kilo * Kilo
        us   == asked.sec * Mega + asked.frac
    IN /\ sleep(asked.sec) = asked.sec * Kilo
       /\ Exact(usleep(us), us, Kilo)
       /\ asked.frac < Mega =>
            Exact(nanosleep(asked.sec, asked.frac * Kilo), us * Kilo, Mega)

=============================================================================
