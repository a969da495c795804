----------------------------- MODULE MCPeerTables -----------------------------
(***************************************************************************)
(* The tables that nodes keep by the address of a peer, side by side: the  *)
(* pseudo-TCP connections, the gateway's clients and the forward's         *)
(* gateways.  They share no state, and a behaviour is about one of them.   *)
(***************************************************************************)
EXTENDS PseudoTCP

CONSTANTS w1, w2,             \* one writer at each end
          up, down1, down2,   \* the loops of a node
          Numbers,            \* size and bound of the registries
          Records

\* A number is a byte in the code; how many records a node makes has no bound there.
ASSUME TablesAssumption == Numbers \in Nat \ {0} /\ Records \in Nat

MCClientWriter == {w1}
MCGatewayWriter == {w2}

VARIABLES table, entry, records, alive, number, pc, hold, drawn, since, began, served

registryVars == <<entry, records, alive, number, pc, hold, drawn, since, began, served>>

Clients == INSTANCE Registry
    WITH Uplink <- {up}, Downlink <- {down1}, Forgets <- TRUE,
         Modulus <- Numbers, MaxRecord <- Records
Gateways == INSTANCE Registry
    WITH Uplink <- {up}, Downlink <- {down1, down2}, Forgets <- FALSE,
         Modulus <- Numbers, MaxRecord <- Records

MCInit ==
    /\ table \in {"eps", "clients", "gateways"}
    /\ Init
    /\ IF table = "gateways" THEN Gateways!Init ELSE Clients!Init

StepEps == table = "eps" /\ Next /\ UNCHANGED <<table, registryVars>>
StepClients == table = "clients" /\ Clients!Next /\ UNCHANGED <<table, vars>>
StepGateways == table = "gateways" /\ Gateways!Next /\ UNCHANGED <<table, vars>>
MCNext == StepEps \/ StepClients \/ StepGateways

MCSpec == MCInit /\ [][MCNext]_<<table, vars, registryVars>>

-----------------------------------------------------------------------------
\* The type invariants of PseudoTCP and Registry.
TablesTypeOK ==
    TypeOK /\ IF table = "gateways" THEN Gateways!TypeOK ELSE Clients!TypeOK

\* Registry!OneRecordPerLoop of either registry (cs.go:26, gs.go:25).
OneRecordPerLoop ==
    IF table = "gateways" THEN Gateways!OneRecordPerLoop ELSE Clients!OneRecordPerLoop

\* Registry!KeptWhileUsed of the gateway's clients (cs.go:42).
KeptWhileUsed == Clients!KeptWhileUsed

\* Registry!NumbersRunOn of the gateway's clients (cs.go:70).
NumbersRunOn == [][table = "clients" => Clients!RunsOn]_registryVars
===============================================================================
