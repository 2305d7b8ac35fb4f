---------------------------- MODULE DomainHandles ----------------------------
(***************************************************************************)
(* The example domain of a handle with too many labels.  The detail page   *)
(* of a domain converts the handle with idna.encode, which takes several   *)
(* characters for a dot, and asks the registry; when the answer is         *)
(* TOO_MANY_LABELS it cuts the example out of the handle as it was typed,  *)
(* with the regular expression ([^.]+\.\w+)\.?$.                           *)
(***************************************************************************)
EXTENDS Naturals, Sequences, FiniteSets

CONSTANTS
    MaxLength,   \* bound on the length of a handle
    ZoneLabels,  \* how many labels the registry's zones have: one in 'cz', five in
                 \* '0.2.4.e164.arpa'
    NULL         \* no match

\* Characters by what the regular expression and idna make of them: letters
\* and digits, the hyphen, the full stop, and the other dots of IDNA.
Chars == {"w", "-", ".", "o"}

ASSUME LengthAssumption == MaxLength \in Nat

ASSUME ZonesAssumption == ZoneLabels \subseteq Nat \ {0}

\* Python's None is no text.
ASSUME NullIsNoExample == NULL \notin Seq(Chars)

IsDot(c) == c \in {".", "o"}

VARIABLE handle   \* what a user types

Init == handle = <<>>

\* One more character.
Type(c) ==
    /\ Len(handle) < MaxLength
    /\ handle' = Append(handle, c)

Next == \E c \in Chars : Type(c)

Spec == Init /\ [][Next]_handle

-----------------------------------------------------------------------------
(* idna.encode. *)

Starts(h) == {i \in DOMAIN h : ~IsDot(h[i]) /\ (i > 1 => IsDot(h[i - 1]))}
Ends(h) == {i \in DOMAIN h : ~IsDot(h[i]) /\ (i < Len(h) => IsDot(h[i + 1]))}

LabelCount(h) == Cardinality(Starts(h))

\* No label is empty, none begins or ends with a hyphen; a dot may come last.
Encodes(h) ==
    /\ h # <<>>
    /\ ~IsDot(h[1])
    /\ \A i \in 1..(Len(h) - 1) : ~(IsDot(h[i]) /\ IsDot(h[i + 1]))
    /\ \A i \in Starts(h) \cup Ends(h) : h[i] # "-"

\* The registry may raise TOO_MANY_LABELS: in every zone a name can have one
\* label more than the zone, in some (ENUM) also further ones.
TooManyLabels(h) == Encodes(h) /\ \E zone \in ZoneLabels : LabelCount(h) > zone + 1

-----------------------------------------------------------------------------
(* The regular expression. *)

\* The group can end here: at the end, or before a last full stop.
GroupEnds(h) == {Len(h)} \cup {j \in {Len(h) - 1} : h[Len(h)] = "."}

\* Mutant: the label before the full stop may hold full stops.
MatchesAny(h, i, j) ==
    \E m \in (i + 1)..(j - 1) :
        /\ h[m] = "."
        /\ \A k \in (m + 1)..j : h[k] = "w"

\* The group can be h[i..j]: [^.]+ before the full stop at m, \w+ after it.
Matches(h, i, j) ==
    \E m \in (i + 1)..(j - 1) :
        /\ \A k \in i..(m - 1) : h[k] # "."
        /\ h[m] = "."
        /\ \A k \in (m + 1)..j : h[k] = "w"

\* re.search finds the leftmost match; the full stop in it decides its end.
ExampleDomain(h) ==
    LET groups == {g \in (1..Len(h)) \X GroupEnds(h) : Matches(h, g[1], g[2])}
    IN  IF groups = {} THEN NULL
        ELSE LET first == CHOOSE g \in groups : \A other \in groups : g[1] <= other[1]
             IN  SubSeq(h, first[1], first[2])

-----------------------------------------------------------------------------

\* The handle typed with full stops only, and with a last label of letters and
\* digits, as the names of all zones of the registry end.
Plain(h) ==
    /\ \A i \in DOMAIN h : h[i] # "o"
    /\ \E j \in GroupEnds(h) : \E i \in 1..j :
          h[i] # "." /\ (i > 1 => h[i - 1] = ".") /\ \A k \in i..j : h[k] = "w"

\* There is an example of a plain handle, and it is the handle's last two
\* labels, no more and no less (the comment "remove subdomain names" of
\* load_registry_object, and its assertion).  Whether the registry knows a zone
\* with such names is another matter: in one of more labels it has none.
ExampleIsLastLabels ==
    TooManyLabels(handle) /\ Plain(handle) =>
        LET example == ExampleDomain(handle)
        IN  /\ example # NULL
            /\ Encodes(example) /\ LabelCount(example) = 2
            /\ \E j \in GroupEnds(handle) :
                  /\ example = SubSeq(handle, j - Len(example) + 1, j)
                  /\ handle[j - Len(example)] = "."

\* views/detail_domain.py:91: "assert domain_match is not None"
MatchIsFound == TooManyLabels(handle) => ExampleDomain(handle) # NULL

=============================================================================
