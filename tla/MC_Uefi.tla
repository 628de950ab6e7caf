------------------------------ MODULE MC_Uefi -------------------------------
(* Two parts of package uefi, checked side by side: a behaviour is one of the *)
(* enumerations or one of the serial port, while the other part is at rest.   *)
EXTENDS Devices, SerialPort

VARIABLE part

MC_Init ==
  \/ part = "devices" /\ DevicesInit
     /\ PortInit /\ running = "reader" /\ control = {} /\ ~cts
  \/ part = "port" /\ PortInit
     /\ DevicesInit /\ kind = "disks" /\ db = [h \in Handles |-> {}]

EnumerationStep == part = "devices" /\ DevicesNext /\ UNCHANGED <<part, portVars>>
InPort(A) == part = "port" /\ A /\ UNCHANGED <<part, devicesVars>>

\* The fairness is that of PortFairSpec.
MC_Spec ==
  /\ MC_Init /\ [][EnumerationStep \/ InPort(PortNext)]_<<part, devicesVars, portVars>>
  /\ WF_portVars(InPort(rpc # "idle" /\ Read)) /\ WF_portVars(InPort(wpc # "idle" /\ Write))
  /\ SF_portVars(InPort(Switch)) /\ SF_portVars(InPort(FirmwareRead /\ status' = "success"))
=============================================================================
