------------------------------ MODULE Scripts ------------------------------
(***************************************************************************)
(* How an acceptance script of web/uat is written down: what the system    *)
(* it drives is set up with, and a sequence of steps.  A step does         *)
(* something, awaits an observation (waitFor), checks one (check), or      *)
(* holds one through a quiet window (sleep, then check).  An observation   *)
(* is a record that gives some of the fields a script can see their value. *)
(*                                                                         *)
(* The modules that extend this one say what is seen, how a step acts and  *)
(* what the system does meanwhile; a script that ends has passed.          *)
(***************************************************************************)
EXTENDS Sequences, Naturals

Do(event, arg) == [kind |-> "do", event |-> event, arg |-> arg]
Await(obs) == [kind |-> "await", obs |-> obs]
Check(obs) == [kind |-> "check", obs |-> obs]
Hold(obs)  == [kind |-> "hold", obs |-> obs]

Script(setup, steps) == [setup |-> setup, steps |-> steps]

VARIABLES
  script,         \* the script played
  pos             \* its next step

Playing == pos \leq Len(script.steps)
step == script.steps[pos]
Is(kinds) == Playing /\ step.kind \in kinds
Matches(seen, obs) == \A f \in DOMAIN obs : seen[f] = obs[f]
=============================================================================
