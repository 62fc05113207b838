--------------------------- MODULE MC_AssetLoader ---------------------------
(* Model-checking instance of AssetLoader.                                 *)
EXTENDS AssetLoader, TLC

\* Two assets (so that reply order is observable), one failure code.
MCAssets == {"a1", "a2"}
MCErrs == {"e1"}

\* Replies hold up to two items; counts range over -1 .. 2.
MCMaxItems == 2

=============================================================================
