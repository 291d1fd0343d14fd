---------------------------- MODULE MCAgentLoop ----------------------------
(* Instances of AgentLoop for TLC: a terminal and a non-terminal tool, and  *)
(* answers that call them, together and in both orders, or a tool nobody    *)
(* registered.                                                              *)
EXTENDS AgentLoop

Tools == {"remember", "search"}
TerminalTools == {"remember"}

Batches == { <<"remember">>, <<"search">>, <<"unknown">>,
             <<"remember", "search">>, <<"search", "remember">>,
             <<"remember", "remember">> }

\* Silent and spoken tool calls; replies, empty ones and refusals.
Answers ==
  [text : {"None", "words"}, stop : {"tool_use"}, calls : Batches]
    \cup [text : Text, stop : {"end_turn", "max_tokens", "refusal"},
          calls : {<<>>}]
    \cup [text : {"blank"}, stop : {"tool_use"}, calls : {<<"remember">>}]
=============================================================================
