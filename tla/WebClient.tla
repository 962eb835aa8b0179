------------------------------ MODULE WebClient ------------------------------
(***************************************************************************)
(* What the models of the web client have in common, so that one module can  *)
(* speak of all of them.                                                    *)
(***************************************************************************)
CONSTANT None   \* model value: null, nothing stored or under way
=============================================================================
