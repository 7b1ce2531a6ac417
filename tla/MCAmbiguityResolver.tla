------------------------ MODULE MCAmbiguityResolver ------------------------
(* Small instances of AmbiguityResolver: frames every five bits from one of *)
(* three positions on, of which any may be missing, and at most one match   *)
(* anywhere else, in another stream.                                       *)
EXTENDS AmbiguityResolver

Regular(start) == {<<start + 5 * k, 0>> : k \in 0 .. 3}
Strays == {{}} \cup {{<<p, 1>>} : p \in {4, 7}}

PeriodicMatches ==
  {S \cup stray : S \in UNION {SUBSET Regular(start) : start \in 0 .. 2}, stray \in Strays}

\* Two tags, both of them times or the second none
SomeTags == {[rx_time |-> {3, 6}, malformed |-> bad] : bad \in {{}, {6}}}

TwoTags == {[rx_time |-> {3, 6}, malformed |-> {}]}
=============================================================================
