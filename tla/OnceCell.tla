------------------------------ MODULE OnceCell ------------------------------
(***************************************************************************)
(* What pthread_once promises the guest: one initialiser at a time per     *)
(* control, at most one that completes, a retry after one that did not,    *)
(* and a successful return only once one has completed.                    *)
(***************************************************************************)
CONSTANTS Threads, Controls

VARIABLES
  phase,    (* phase[c]: "initial", "running" or "done"                    *)
  runners,  (* runners[c]: the threads inside the initialiser of c         *)
  got       (* pairs <<t, c>>: a call of t on c returned success           *)

cell == <<phase, runners, got>>

CellInit ==
  /\ phase = [c \in Controls |-> "initial"]
  /\ runners = [c \in Controls |-> {}]
  /\ got = {}

Begin(t, c) ==
  /\ phase[c] = "initial"
  /\ runners[c] = {}
  /\ phase' = [phase EXCEPT ![c] = "running"]
  /\ runners' = [runners EXCEPT ![c] = {t}]
  /\ UNCHANGED got

Complete(t, c) ==
  /\ runners[c] = {t}
  /\ phase' = [phase EXCEPT ![c] = "done"]
  /\ runners' = [runners EXCEPT ![c] = {}]
  /\ got' = got \cup {<<t, c>>}

Abandon(t, c) ==
  /\ runners[c] = {t}
  /\ phase' = [phase EXCEPT ![c] = "initial"]
  /\ runners' = [runners EXCEPT ![c] = {}]
  /\ UNCHANGED got

Succeed(t, c) ==
  /\ phase[c] = "done"
  /\ got' = got \cup {<<t, c>>}
  /\ UNCHANGED <<phase, runners>>

CellNext ==
  \E t \in Threads, c \in Controls :
    Begin(t, c) \/ Complete(t, c) \/ Abandon(t, c) \/ Succeed(t, c)

CellSpec == CellInit /\ [][CellNext]_cell
=============================================================================
