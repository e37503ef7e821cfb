------------------------- MODULE MCInstrumentation -------------------------
(* Plugins and OutboundHttp share nothing but the spans they emit: each is        *)
(* explored while the other is at rest.                                           *)
EXTENDS Plugins, OutboundHttp, TLC

Init == PluginsInit /\ OutboundInit
Next == \/ OutboundInit /\ PluginsNext /\ UNCHANGED outboundVars
        \/ PluginsInit /\ OutboundNext /\ UNCHANGED pluginVars
Spec == Init /\ [][Next]_<<pluginVars, outboundVars>>
Symmetry == Permutations(Loops)
=============================================================================
