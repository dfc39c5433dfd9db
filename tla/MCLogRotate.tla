----------------------------- MODULE MCLogRotate -----------------------------
\* Two processes, one of them with two threads.
EXTENDS LogRotate

TwoProcs == <<1, 1, 2>>

\* No archive, one missing below others, and two.
SomeOlds == {{}, {0, 2, 3}, {2, 3}}
=============================================================================
