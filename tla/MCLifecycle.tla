----------------------------- MODULE MCLifecycle -----------------------------
EXTENDS TaskLifecycle, TLC

CONSTANTS h1, h2

\* Requests are interchangeable (sound for the safety runs only).
HandlerSymmetry == Permutations(Handlers)
=============================================================================
