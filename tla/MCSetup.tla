------------------------------ MODULE MCSetup ------------------------------
(* Upstream as expected, or moved on in one or two places; a good machine and *)
(* one that lacks the headers.                                                *)
EXTENDS Setup

MCDrifts == {{}, {"imports"}, {"headsConvert"}, {"field", "sizing"}, {"cache"}, {"peft"}}
MCMachines == {[windows |-> FALSE, oldPython |-> FALSE, gpu |-> TRUE, headers |-> h,
                compiler |-> TRUE] : h \in BOOLEAN}
=============================================================================
