-------------------------- MODULE CommandContract --------------------------
(***************************************************************************)
(* What the Gateway promises about each command it is asked to deliver to  *)
(* a device.  A command is refused at once or accepted; an accepted one is *)
(* in flight until it is acknowledged, answered, superseded by a command   *)
(* of the same name, or given up; every command given up is reported to    *)
(* the backend, once, and an acknowledged one never is.                    *)
(*                                                                         *)
(* CommandDispatch implements this specification (see Contract there).     *)
(***************************************************************************)
EXTENDS Naturals

CONSTANT Commands

VARIABLE status

Statuses == {"unsent", "refused", "in_flight", "acked", "answered",
             "superseded", "dropped", "failing", "failed"}

Having(s) == {c \in Commands : status[c] = s}

Live == Having("in_flight") \cup Having("acked")

Become(C, s) == [c \in Commands |-> IF c \in C THEN s ELSE status[c]]

Init == status = [c \in Commands |-> "unsent"]

Refuse(c) ==
  /\ status[c] = "unsent"
  /\ status' = Become({c}, "refused")

\* Accepting a command may put an older one of the same name out of service.
Accept(c) ==
  /\ status[c] = "unsent"
  /\ \E old \in SUBSET Live :
        status' = [Become(old, "superseded") EXCEPT ![c] = "in_flight"]

Acknowledge(c) ==
  /\ status[c] = "in_flight"
  /\ status' = Become({c}, "acked")

Answer(c) ==
  /\ c \in Live
  /\ status' = Become({c}, "answered")

\* One pass of the delivery service: only commands never acknowledged are
\* given up, only acknowledged ones are let go without a report.
Sweep ==
  \E lost \in SUBSET Having("in_flight"), done \in SUBSET Having("acked") :
    status' = [c \in Commands |-> IF c \in lost THEN "failing"
                                  ELSE IF c \in done THEN "dropped"
                                  ELSE status[c]]

Report(c) ==
  /\ status[c] = "failing"
  /\ status' = Become({c}, "failed")

Next ==
  \/ \E c \in Commands :
        \/ Refuse(c)
        \/ Accept(c)
        \/ Acknowledge(c)
        \/ Answer(c)
        \/ Report(c)
  \/ Sweep

Spec == Init /\ [][Next]_status
=============================================================================
