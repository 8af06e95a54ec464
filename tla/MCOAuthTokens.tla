--------------------------- MODULE MCOAuthTokens ---------------------------
(***************************************************************************)
(* The instance of OAuthTokens for TLC: interchangeable calls.             *)
(***************************************************************************)
EXTENDS OAuthTokens, TLC

Permutable == Permutations(Call)
=============================================================================
