---------------------------- MODULE MCFormatProbe ----------------------------
\* Model checking instances of FormatProbe.
EXTENDS FormatProbe, TLC

CONSTANTS p, q, r, s, tmp1, tmp2

Names == [f \in Formats |-> CASE f = p -> 1 [] f = q -> 2 [] f = r -> 3 [] f = s -> 4]

Raw(exact, sized, geom, mounts, n) ==
  [exact |-> exact, sized |-> sized, track |-> FALSE, sec |-> "none", spt |-> "none",
   geom |-> geom, mounts |-> mounts, files |-> n]
Imd(exact, track, sec, spt, mounts, n) ==
  [exact |-> exact, sized |-> TRUE, track |-> track, sec |-> sec, spt |-> spt, geom |-> 0,
   mounts |-> mounts, files |-> n]

RawFacts ==
  {Raw(TRUE, TRUE, g, m, 12) : g \in {1, 3}, m \in BOOLEAN} \cup
  {Raw(FALSE, TRUE, g, TRUE, 12) : g \in 1..3} \cup {Raw(FALSE, TRUE, 0, TRUE, 0)}
\* Definitions without a size of their own beside some that have one.
PartlySizedFacts ==
  {Raw(FALSE, FALSE, g, TRUE, 12) : g \in 1..3} \cup
  {Raw(FALSE, FALSE, 0, TRUE, 0), Raw(TRUE, TRUE, 1, TRUE, 12), Raw(FALSE, TRUE, 2, TRUE, 12)}
ImdFacts ==
  {Imd(e, t, "main", sp, TRUE, 3) : e, t \in BOOLEAN, sp \in {"main", "none"}} \cup
  {Imd(e, TRUE, "main", "main", FALSE, 0) : e \in BOOLEAN} \cup
  {Imd(FALSE, FALSE, "some", "none", TRUE, 12), Imd(FALSE, FALSE, "none", "none", TRUE, 12)}

Hopeless == Raw(FALSE, TRUE, 0, FALSE, 0)
With(x, S) == {(s :> x) @@ fact : fact \in [{p, q, r} -> S]}

\* Every raw and IMD image of three definitions and a hopeless fourth.
WideImages ==
  [imd: {FALSE}, fact: With(Hopeless, RawFacts)] \cup
  [imd: {FALSE}, fact: With(Hopeless, PartlySizedFacts)] \cup
  [imd: {TRUE}, fact: With(Hopeless, ImdFacts)]

\* A few raw images of four definitions: one or two tiers, one mount or two.
FewImages ==
  {[imd |-> FALSE,
    fact |-> [f \in Formats |-> CASE f = p -> Raw(TRUE, TRUE, 3, a, 2)
                                  [] f = q -> Raw(TRUE, TRUE, 3, b, 2)
                                  [] f = r -> Raw(TRUE, TRUE, 3, c, 1)
                                  [] f = s -> Raw(FALSE, TRUE, 3, TRUE, 12)]] :
     a, b, c \in BOOLEAN}

AllImages == WideImages \cup FewImages
==============================================================================
