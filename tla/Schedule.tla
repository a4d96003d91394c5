------------------------------- MODULE Schedule -------------------------------
(***************************************************************************)
(* Schedules as the cron library keeps them, of which New asks the first   *)
(* activation after the epoch and the runner one after the other.  Only    *)
(* the field of the seconds is modelled, the others are "*": a schedule is *)
(* the set of the seconds of a minute at which it fires.                   *)
(***************************************************************************)
EXTENDS Integers

Minute == 60
Seconds == 0 .. Minute - 1
Schedules == {marks \in SUBSET Seconds : marks # {}}

\* The seconds of "?/k" and of "s" itself.
Every(k) == {s \in Seconds : s % k = 0}
Once(s) == {s}

\* Schedule.Next: the first time after t, in seconds since the epoch, at which a
\* schedule that is not empty fires.
Activation(marks, t) ==
    CHOOSE u \in t + 1 .. t + Minute :
        u % Minute \in marks /\ \A v \in t + 1 .. u - 1 : v % Minute \notin marks

\* The times between an activation and the next.
GapsOf(marks) == {Activation(marks, s) - s : s \in marks}
=============================================================================
