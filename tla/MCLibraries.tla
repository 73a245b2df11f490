----------------------------- MODULE MCLibraries -----------------------------
(* One run for three parts under the service that compute and keep no state:  *)
(* the bytes of messages (Wire), the serialisation compiler (Compiler) and    *)
(* the verifiable random function (Vrf).  They do not interact; an initial    *)
(* state is one of one part, and the others do nothing.                       *)
EXTENDS MCWire, MCCompiler, Vrf

NoWire == msg = [type |-> "Node", val |-> [tag |-> "empty"]] /\ bytes = <<>> /\ change = "off"
NoCompiler == file = <<>> /\ obj = <<>> /\ stage = "off" /\ b = <<>> /\ bs = <<>> /\ as = <<>>
NoVrf == y = Identity /\ h = NotAPoint /\ proof = <<>> /\ phase = "off"

LibInit ==
    \/ WireInit /\ NoCompiler /\ NoVrf
    \/ CompilerInit /\ NoWire /\ NoVrf
    \/ Init /\ NoWire /\ NoCompiler

LibNext ==
    \/ WireNext /\ UNCHANGED <<compilerVars, vars>>
    \/ CompilerNext /\ UNCHANGED <<wireVars, vars>>
    \/ Next /\ UNCHANGED <<wireVars, compilerVars>>

LibSpec == LibInit /\ [][LibNext]_<<wireVars, compilerVars, vars>>
=============================================================================
