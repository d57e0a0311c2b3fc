---------------------------- MODULE MCAttendance ----------------------------
(* A person on two projects of two managers, in two days of three hours.    *)
EXTENDS Attendance

CONSTANTS j1, j2, m1, m2

MCFirstManager == j1 :> m1 @@ j2 :> m2
Bound(s, o, c, a, m, x) ==
    [sessions |-> s, outs |-> o, corrections |-> c, added |-> a, managers |-> m, crashes |-> x]
(* Two clock-ins, a clock-out and a correction; a day added beside a        *)
(* clock-in, with a failure; a project that changes hands, with a failure;  *)
(* a day added and then corrected.                                          *)
MCBounds == {Bound(2, 1, 1, 0, 0, 0), Bound(1, 1, 0, 1, 0, 1),
             Bound(1, 1, 0, 0, 1, 1), Bound(0, 0, 1, 1, 0, 0)}
=============================================================================
