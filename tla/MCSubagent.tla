----------------------------- MODULE MCSubagent -----------------------------
EXTENDS Subagent

\* Bound: where anybody asks for permission, a child has no follow-up and a
\* short stream.
AsksOrPosts ==
  (\E r \in Req : outcome[r] # "unasked") =>
    \A c \in Child : posts[c] = 0 /\ Len(log[c]) <= 2
=============================================================================
