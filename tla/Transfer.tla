------------------------------ MODULE Transfer ------------------------------
(***************************************************************************)
(* What a transfer (a download or an upload) promises the application,     *)
(* whatever work it is made of.  A transfer hands jobs to a pool; each job *)
(* that ends may lead to more jobs; when the last one has ended the        *)
(* application's callback is called, once, and nothing of the transfer     *)
(* runs after that, so its state can be freed.  The application may cancel *)
(* before then: no job starts after a cancel, and a canceled transfer does *)
(* not report success.                                                     *)
(***************************************************************************)
EXTENDS Sequences

CONSTANTS
  Jobs,      \* the jobs a transfer may hand to the pool
  Results,   \* what the callback may be told
  Success    \* the result that says all is well

VARIABLES
  running,    \* jobs whose end the transfer has not handled yet
  canceled,   \* the application canceled
  callbacks   \* results the callback was called with

transferVars == <<running, canceled, callbacks>>

TransferInit ==
  /\ running \in SUBSET Jobs
  /\ canceled = FALSE
  /\ callbacks = << >>

(* A job ends and others may be queued, unless the transfer is canceled. *)
HandleJob ==
  \E job \in running :
    /\ callbacks = << >>
    /\ running' \in SUBSET Jobs
    /\ running \ {job} \subseteq running'
    /\ canceled => running' = running \ {job}
    /\ UNCHANGED <<canceled, callbacks>>

(* The last job ends and the result is delivered. *)
Deliver ==
  \E job \in running, result \in Results :
    /\ running = {job}
    /\ callbacks = << >>
    /\ canceled => result # Success
    /\ running' = {}
    /\ callbacks' = <<result>>
    /\ UNCHANGED canceled

Cancel ==
  /\ callbacks = << >>
  /\ canceled' = TRUE
  /\ UNCHANGED <<running, callbacks>>

TransferNext == HandleJob \/ Deliver \/ Cancel

TransferSpec == TransferInit /\ [][TransferNext]_transferVars

=============================================================================
