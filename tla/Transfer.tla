------------------------------- MODULE Transfer -------------------------------
(***************************************************************************)
(* What a copy or move job promises about a set of files, whatever threads *)
(* carry it out: every file gets at most one verdict while the job runs,   *)
(* originals change place one source at a time or are discarded after the  *)
(* last verdict and only if there was no bad one, and the verdict on the   *)
(* whole job agrees with those on its files.                               *)
(***************************************************************************)
CONSTANT Files

VARIABLES
  status,   \* [Files -> "none" (not in the job), "waiting" or a verdict]
  present,  \* [Files -> the original is still in its place]
  result    \* "running", "Finished", "Cancelled" or "silent"

vars == <<status, present, result>>

Verdicts == {"copied", "skipped", "failed", "abandoned"}

\* Some file of the job has a verdict of V.
Has(V) == \E f \in Files : status[f] \in V

Init ==
  /\ status = [f \in Files |-> "none"]
  /\ present = [f \in Files |-> TRUE]
  /\ result = "silent"

\* A job starts on some files; its predecessor is forgotten.
Begin ==
  /\ result # "running"
  /\ status' \in [Files -> {"none", "waiting"}]
  /\ result' = "running"
  /\ UNCHANGED present

\* A job that cannot even be planned says nothing.
Refuse ==
  /\ result # "running"
  /\ status' = [f \in Files |-> "none"]
  /\ result' = "silent"
  /\ UNCHANGED present

\* Waiting files get their verdict.
Settle(F, v) ==
  /\ result = "running"
  /\ \A f \in F : status[f] = "waiting"
  /\ status' = [f \in Files |-> IF f \in F THEN v ELSE status[f]]
  /\ UNCHANGED <<present, result>>

\* A source, with the files F of the job in it, is renamed; what the job does not
\* list (status "none") may go with it.
Rename(F) ==
  /\ result = "running"
  /\ \A f \in F : status[f] = "waiting"
  /\ status' = [f \in Files |-> IF f \in F THEN "moved" ELSE status[f]]
  /\ present' \in [Files -> BOOLEAN]
  /\ \A f \in F : ~present'[f]
  /\ \A f \in Files : present'[f] => present[f]
  /\ \A f \in Files \ F : status[f] # "none" => present'[f] = present[f]
  /\ UNCHANGED result

\* Originals go once nothing is open and nothing went wrong.
Discard ==
  /\ result = "running"
  /\ ~Has({"waiting", "failed", "abandoned"})
  /\ present' \in [Files -> BOOLEAN]
  /\ \A f \in Files : present'[f] => present[f]
  /\ UNCHANGED <<status, result>>

\* Finished: all files have a verdict and none was abandoned.
Finish ==
  /\ result = "running"
  /\ ~Has({"waiting", "abandoned"})
  /\ result' = "Finished"
  /\ UNCHANGED <<status, present>>

\* Cancelled, or killed: some file may be left without a verdict.
Stop ==
  /\ result = "running"
  /\ result' \in {"Cancelled", "silent"}
  /\ UNCHANGED <<status, present>>

Next ==
  \/ Begin \/ Refuse \/ Discard \/ Finish \/ Stop
  \/ \E F \in SUBSET Files : Rename(F) \/ \E v \in Verdicts : Settle(F, v)

Spec == Init /\ [][Next]_vars
===============================================================================
