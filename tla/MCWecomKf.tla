----------------------------- MODULE MCWecomKf -----------------------------
(***************************************************************************)
(* The customer service alone: one image on the page, which two callbacks  *)
(* may both pull.                                                          *)
(***************************************************************************)
EXTENDS WecomKf

OneImage == <<"image">>
=============================================================================
