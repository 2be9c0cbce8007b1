----------------------------- MODULE MCAgentRun -----------------------------
EXTENDS AgentRun

\* A model may say something, call tools (one of them twice), or do both; a
\* callback may answer with a file and data, or with a call.
MCReplies ==
  {<<>>, <<"text">>, <<"search", "text">>, <<"text", "search", "pay">>, <<"pay", "pay">>}

MCInterceptions ==
  {Response(<<"text", "file", "data">>, <<>>),
   Response(<<"file">>, <<[id |-> 100, tool |-> "pay"]>>)}
=============================================================================
