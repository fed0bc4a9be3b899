----------------------------- MODULE MCRelations -----------------------------
EXTENDS Relations, TLC

\* Handlers are interchangeable.
HandlerSymmetry == Permutations(Handlers)
=============================================================================
