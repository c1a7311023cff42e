-------------------------- MODULE MCCredentialSync --------------------------
\* CredentialSync for TLC: the sets of operations of the runs.
EXTENDS CredentialSync, TLC

Requests == {"issue", "revoke", "reschedule", "changeScope", "reactivate", "regenerate"}
CrashingAll == Requests \cup {"crash"}
Tampering == (CrashingAll \ {"regenerate"}) \cup {"tamper"}

\* For safety runs only.
Symmetry == UNION {Permutations(Doors), Permutations(Credentials), Permutations(Workers)}

=============================================================================
