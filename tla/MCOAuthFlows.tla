---------------------------- MODULE MCOAuthFlows ----------------------------
(* A small instance of OAuthFlows for TLC. *)
EXTENDS OAuthFlows

CONSTANTS w1, w2, f1, f2, openai, xai, anthropic, kiro, minimax, here, there

MCWorkers     == {w1, w2}
MCFlows       == {f1, f2}
MCPopup       == {openai, xai}
MCPaste       == {anthropic}
MCDevice      == {kiro, minimax}
MCFixed       == {xai}
MCRegistering == {kiro}
MCProving     == {minimax}
MCRedirects   == {here, there}
=============================================================================
