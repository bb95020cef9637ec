------------------------------ MODULE MC_Runtime -----------------------------
(* Three modules: b may require what a provides, c requires what both do;   *)
(* a may require c's capability, which makes a cycle with c enabled and      *)
(* fails validation with c disabled; c may provide what b provides too.      *)
EXTENDS Runtime

MCNames == <<"a", "b", "c">>

Manifest(provides, requires, default) ==
  [provides |-> provides, requires |-> requires, enabledByDefault |-> default]

MCManifests ==
  {[a |-> Manifest({"x"}, ra, TRUE), b |-> Manifest({"y"}, rb, TRUE), c |-> Manifest(cs, {"x", "y"}, FALSE)] :
     ra \in {{}, {"z"}}, rb \in {{}, {"x"}}, cs \in {{"z"}, {"y"}}}

\* c is enabled by configuration or not at all, a and b may be disabled by it.
MCConfigs ==
  {[a |-> ea, b |-> eb, c |-> ec] :
     ea \in {"absent", "off"}, eb \in {"absent", "off"}, ec \in {"absent", "on"}}

=============================================================================
