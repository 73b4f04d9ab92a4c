----------------------------- MODULE MCUartTester -----------------------------
(* Instances of UartTester for TLC.                                        *)
EXTENDS UartTester

(* As with "uname -a", "cat /proc/version" and "date": the answers of the  *)
(* first two name a year and with it match the pattern of the last, that   *)
(* of the second matches the first's as well, and the time stamp of a      *)
(* message of the kernel is four digits too.                               *)
SomeCommands == <<{1, 3}, {1, 2, 3}, {3}>>
FourDigits == {3}
=============================================================================
