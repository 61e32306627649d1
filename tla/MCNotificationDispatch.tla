----------------------- MODULE MCNotificationDispatch -----------------------
(* Small instances of NotificationDispatch for TLC. *)
EXTENDS NotificationDispatch, TLC

CONSTANTS d1, d2

OneReport   == {1}
TwoReports  == 1..2
SixReports  == 1..6

TwoDispatchers == {d1, d2}

DispatcherSymmetry == Permutations(Dispatchers)
=============================================================================
