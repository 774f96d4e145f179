-------------------------- MODULE MCGeminiService --------------------------
(* Two calls compete for one permit; of the four texts one is blank, and the *)
(* cache has no room for the other three.                                    *)
EXTENDS GeminiService
=============================================================================
