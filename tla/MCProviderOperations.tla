------------------------ MODULE MCProviderOperations ------------------------
(***************************************************************************)
(* Instances of ProviderOperations for TLC.                                *)
(***************************************************************************)
EXTENDS ProviderInvariant, TLC

CONSTANTS a1, a2

Save(a, credential, default, keyless) ==
  [alias |-> a, credential |-> credential, default |-> default,
   keyless |-> keyless]

CredentialSave == {Save(a1, TRUE, FALSE, FALSE)}
AnySave == {Save(a1, TRUE, TRUE, TRUE), Save(a2, FALSE, TRUE, FALSE)}

Symmetry == Permutations(Operations) \cup Permutations(Versions)
              \cup Permutations(Callers)

=============================================================================
