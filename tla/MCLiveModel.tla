------------------------------ MODULE MCLiveModel ------------------------------
(* Small instances of LiveModel for TLC. *)
EXTENDS LiveModel, TLC

CONSTANTS r1, r2, r3, anthropic, openai, k1, k2

MCProvider == {anthropic, openai, Bedrock}
MCKey == {k1, k2}

\* An update of the settings beside two calls.
MCRequest == {r1, r2, r3}
UpdateAndCalls == (r1 :> {"update"}) @@ (r2 :> {"live"}) @@ (r3 :> {"tutor"})

\* In the environment Anthropic has a key, OpenAI an empty one and Bedrock none.
MixedEnv == (anthropic :> k2) @@ (openai :> Empty) @@ (Bedrock :> Unset)
===============================================================================
