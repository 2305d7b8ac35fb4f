--------------------------- MODULE MCRegistrarPages ---------------------------
(* A small instance of RegistrarPages for TLC. *)
EXTENDS RegistrarPages, TLC

CONSTANTS r1, r2, g1, f1, f2

VisitsOnly == Permutations(Visits)

\* Two registrars, one of them certified and in the group.
Start ==
    [registrars     |-> {r1, r2},
     groups         |-> [g \in Groups |-> {r1}],
     certifications |-> [r \in Registrars |->
                            IF r = r1 THEN [score |-> 1, file |-> f1] ELSE NULL]]

\* The certified registrar leaves the group, and the registry.
Left == [Start EXCEPT !.groups[g1] = {r2}, !.registrars = {r2},
                      !.certifications[r1] = NULL]

\* There is no group any more; both certificates are new, one without a file.
Renewed == [Start EXCEPT !.groups[g1] = NULL,
                         !.certifications[r1] = [score |-> 1, file |-> f2],
                         !.certifications[r2] = [score |-> 1, file |-> NULL]]

FewMoments == {Start, Left, Renewed}

=============================================================================
