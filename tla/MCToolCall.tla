----------------------------- MODULE MCToolCall -----------------------------
EXTENDS ToolCall
Streams == {"sse"}
Databases == {"sql"}
\* What an administrator tags with an upstreamOAuthProvider.
PerUser == AllKinds \ Databases
=============================================================================
