------------------------------- MODULE Exchange -------------------------------
(***************************************************************************)
(* What the exchanges with the fingerprint sensor promise their callers:   *)
(* one at a time, each of them ends with the answer to its own command     *)
(* unless an answer was damaged or late.  A damaged answer spoils one      *)
(* exchange, its own or the one after; it is paid for then.  A late one    *)
(* may be taken for the answer to a later command, and from then on every  *)
(* exchange may end with the answer to one before it.                      *)
(***************************************************************************)
EXTENDS Integers

VARIABLES
  busy,     \* a command was sent and its exchange has not ended
  sent,     \* commands so far
  answer,   \* the command whose answer ended the exchange, 0 for none
  late, broken, failed   \* late answers, damaged answers, exchanges gone wrong

vars == <<busy, sent, answer, late, broken, failed>>

Init == busy = FALSE /\ sent = 0 /\ answer = 0 /\ late = 0 /\ broken = 0 /\ failed = 0

Ask ==
  /\ ~busy /\ busy' = TRUE
  /\ sent' = sent + 1 /\ answer' = 0
  /\ UNCHANGED <<late, broken, failed>>

Damage == broken' = broken + 1 /\ UNCHANGED <<busy, sent, answer, late, failed>>

End(a) == busy /\ busy' = FALSE /\ answer' = a /\ UNCHANGED <<sent, broken>>

Right == End(sent) /\ UNCHANGED <<late, failed>>

Wrong ==
  /\ late > 0 \/ failed < broken
  /\ \E a \in 0 .. sent - 1 : (a = 0 \/ sent - a <= late) /\ End(a)
  /\ failed' = failed + 1 /\ late' = late

TooLate == End(0) /\ late' = late + 1 /\ failed' = failed + 1

Next == Ask \/ Damage \/ Right \/ Wrong \/ TooLate

Spec == Init /\ [][Next]_vars
=============================================================================
