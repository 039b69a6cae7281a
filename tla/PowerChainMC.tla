---------------------------- MODULE PowerChainMC ----------------------------
(***************************************************************************)
(* Small instances of PowerChain: chains of two or three interfaces.       *)
(***************************************************************************)
EXTENDS PowerChain, TLC

All == {"Status", "PowerOn", "PowerOff"}
Interface(label, driver, actions) == [label |-> label, driver |-> driver, actions |-> actions]

\* The host's network for its state, a BMC to stop it, a KVM to start it, then
\* Wake-on-LAN for all of them.
Direct == <<Interface("net", "ping", All), Interface("bmc", "ipmi", {"PowerOff"}),
            Interface("kvm", "pikvm", {"PowerOn"}), Interface("wol", "wakeOnLan", All)>>

\* A BMC, then two KVMs that press the button.
BmcThenButton == <<Interface("bmc", "ipmi", All), Interface("nano", "nanokvm", All),
                   Interface("jet", "jetkvm_atx", All)>>

\* A BMC with a UUID, then a DC switch, which cannot shut down gracefully.
BmcThenDc == <<Interface("bmc", "redfish", All), Interface("dc", "jetkvm_dc", All)>>
=============================================================================
