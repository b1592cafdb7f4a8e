---------------------------- MODULE MCBleCommand ----------------------------
(* BleCommand with a history variable: whether the client has been patient.  *)
EXTENDS BleCommand

VARIABLE patient  \* before each write it waited for the notification of the one
                  \* before, which was no listing (those notify more than once)

MCInit == Init /\ patient = TRUE

MCNext ==
  /\ Next
  /\ patient' = (patient /\ (\/ written' = written
                             \/ (heard /\ (written = 0 \/ code[written] \notin Listings))))

MCSpec == MCInit /\ [][MCNext]_<<vars, patient>> /\ Fairness

(***************************************************************************)
(* For a patient client a task that executes a command executes the frame   *)
(* of its own write: none is executed twice, overtaken or torn (app_ble.cpp *)
(* onWrite, task_cmd, cmd_reply).  A command may still be dropped: one that *)
(* is written after the notification and before xSemaphoreGive.             *)
(***************************************************************************)
PatientExact ==
  patient => \A n \in Writes : pc[n] \in Holding \ {"copy"} => src[n] = n
=============================================================================
