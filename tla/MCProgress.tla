----------------------------- MODULE MCProgress -----------------------------
(***************************************************************************)
(* One instance for what must eventually happen: the offers of an order,   *)
(* the pushes of an event and the connection of the bus.  A behaviour is   *)
(* one of them and the others stay where they start, where no step that    *)
(* fairness is about is enabled.                                           *)
(***************************************************************************)
EXTENDS MCOrderDispatch, Push, Realtime

VARIABLE part

ProgressInit ==
  /\ part \in {"dispatch", "push", "bus"}
  /\ Init /\ PushInit
  /\ BusInit /\ (part # "bus" => redis)

ProgressNext ==
  /\ UNCHANGED part
  /\ \/ part = "dispatch" /\ Next /\ UNCHANGED <<pushVars, busVars>>
     \/ part = "push" /\ PushNext /\ UNCHANGED <<vars, busVars>>
     \/ part = "bus" /\ BusNext /\ UNCHANGED <<vars, pushVars>>

ProgressSpec ==
  /\ ProgressInit /\ [][ProgressNext]_<<part, vars, pushVars, busVars>>
  /\ Fairness /\ PushFairness /\ BusFairness
=============================================================================
