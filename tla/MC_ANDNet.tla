----------------------------- MODULE MC_ANDNet ------------------------------
(* Instances of ANDNet for TLC. *)
EXTENDS ANDNet

CONSTANTS ha, hb, hc, wa, wb, wc, wx

\* Three hosts: ha opens a world, hb and hc join it.
Host3 == (wa :> ha) @@ (wb :> hb) @@ (wc :> hc)
Join3 == (wa :> Nil) @@ (wb :> wa) @@ (wc :> wa)
Time3 == (wa :> 1) @@ (wb :> 2) @@ (wc :> 2)

\* Three hosts: hb joins the world of ha twice, with an older and a newer world,
\* and hc joins it too.
Host4 == (wa :> ha) @@ (wb :> hb) @@ (wx :> hb) @@ (wc :> hc)
Join4 == (wa :> Nil) @@ (wb :> wa) @@ (wx :> wa) @@ (wc :> wa)
Time4 == (wa :> 1) @@ (wb :> 2) @@ (wx :> 3) @@ (wc :> 2)
=============================================================================
