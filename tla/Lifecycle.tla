----------------------------- MODULE Lifecycle -----------------------------
(***************************************************************************)
(* What a material request promises whoever watches it: it waits in the    *)
(* queue, one worker at a time holds it, it comes back to the queue only   *)
(* from that worker's hand-off, and once closed it stays closed.           *)
(***************************************************************************)
CONSTANTS RequestIds, Workers, NoWorker

VARIABLES phase, holder

lifecycleVars == <<phase, holder>>

Phases == {"unsent", "waiting", "held", "closed"}

LifecycleInit ==
  /\ phase = [r \in RequestIds |-> "unsent"]
  /\ holder = [r \in RequestIds |-> NoWorker]

Goes(r, from, to) ==
  /\ phase[r] = from
  /\ phase' = [phase EXCEPT ![r] = to]

Send(r) == Goes(r, "unsent", "waiting") /\ UNCHANGED holder

Take(u, r) == Goes(r, "waiting", "held") /\ holder' = [holder EXCEPT ![r] = u]

\* The hand-off ends the holder's work, with or without something left to do.
HandBack(r) ==
  /\ Goes(r, "held", "waiting") \/ Goes(r, "held", "closed")
  /\ holder' = [holder EXCEPT ![r] = NoWorker]

Withdraw(r) ==
  /\ phase[r] # "closed"
  /\ phase' = [phase EXCEPT ![r] = "closed"]
  /\ holder' = [holder EXCEPT ![r] = NoWorker]

LifecycleNext ==
  \E r \in RequestIds :
    Send(r) \/ HandBack(r) \/ Withdraw(r) \/ \E u \in Workers : Take(u, r)

LifecycleSpec == LifecycleInit /\ [][LifecycleNext]_lifecycleVars
=============================================================================
