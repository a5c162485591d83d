------------------------------- MODULE UsbPipe -------------------------------
(***************************************************************************)
(* What usb_send_packet promises to its callers: the packet goes to the    *)
(* endpoint asked for, whole and once, behind those sent there before, and *)
(* the call says so; or it goes nowhere, and the call says that.  What the *)
(* host has not collected is lost when it resets the bus or an endpoint.   *)
(* UsbSend implements this.                                                *)
(***************************************************************************)
EXTENDS Naturals, Sequences

CONSTANTS Endpoint,
          Data,      \* the packets
          Banks      \* how many packets an endpoint holds

VARIABLES call,      \* <<>>, or <<endpoint, packet>> of the call in progress
          result,    \* what the last call returned
          banks      \* of each endpoint, the packets not yet collected

pvars == <<call, result, banks>>

PInit == call = <<>> /\ result = "none" /\ banks = [e \in Endpoint |-> <<>>]

Ask(e, d) == /\ call = <<>>
             /\ call' = <<e, d>>
             /\ result' = "none"
             /\ UNCHANGED banks

Put == /\ call # <<>>
       /\ Len(banks[call[1]]) < Banks
       /\ banks' = [banks EXCEPT ![call[1]] = Append(@, call[2])]
       /\ call' = <<>>
       /\ result' = "sent"

Refuse == /\ call # <<>>
          /\ call' = <<>>
          /\ result' \in {"timeout", "offline"}
          /\ UNCHANGED banks

Take(e) == /\ banks[e] # <<>>
           /\ banks' = [banks EXCEPT ![e] = Tail(@)]
           /\ UNCHANGED <<call, result>>

Drop(E) == /\ banks' = [e \in Endpoint |-> IF e \in E THEN <<>> ELSE banks[e]]
           /\ UNCHANGED <<call, result>>

PNext == \/ \E e \in Endpoint, d \in Data : Ask(e, d)
         \/ Put \/ Refuse
         \/ \E e \in Endpoint : Take(e)
         \/ \E E \in SUBSET Endpoint : Drop(E)

PSpec == PInit /\ [][PNext]_pvars
=============================================================================
