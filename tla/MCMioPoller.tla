----------------------------- MODULE MCMioPoller -----------------------------
(***************************************************************************)
(* Model-checking instance of MioPoller: one socket, one timer, a tick of *)
(* two time units, and durations below, at and above a tick multiple.      *)
(***************************************************************************)
EXTENDS MioPoller

CONSTANTS s1, t1

MCSockets == {s1}
MCTimers == {t1}

(* Durations of half a tick, one and a half ticks and two ticks.           *)
MCDurations == {1, 3, 4}

(* A stand-in for 2^32 above every tick count the runs reach, so that      *)
(* `as u32` is the identity on them, as it is for 2^32 and every duration  *)
(* below 49 days.                                                          *)
MCU32Wide == 1000

(* A two-value u32, small enough that a tick count reaches it.             *)
MCU32Narrow == 2

(* The reference for rounding a duration up to whole ticks.                *)
CeilTicks(d, td) == (d + td - 1) \div td

(***************************************************************************)
(* register and reregister file a timer its duration rounded up to whole   *)
(* ticks ahead of the wheel (spec section 4.2: duration_to_ticks "converts *)
(* the timer's target duration to a tick count (rounded up)"): whenever a  *)
(* timer is armed, its slot is the wheel's tick plus the ceiling.          *)
(***************************************************************************)
DurationToTicksRoundsUp ==
  [][\A t \in Timers :
       timeout'[t].start # timeout[t].start \/ timeout'[t].slot # timeout[t].slot =>
         timeout'[t].slot = wheelTick + CeilTicks(timeout'[t].duration, TickDuration)]_vars

=============================================================================
