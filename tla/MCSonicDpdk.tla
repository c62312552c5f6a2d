----------------------------- MODULE MCSonicDpdk -----------------------------
(* Small instances of SonicDpdk.                                            *)
EXTENDS SonicDpdk

\* Memory across the overflow of size_accum under the identifier that makes
\* init wait, and a page under one that does not.
Registered == {<<3, 0>>, <<1, 1>>}
=============================================================================
