--------------------------- MODULE MCFormatSession ---------------------------
\* Model checking instances of FormatSession.
EXTENDS FormatSession, TLC

CONSTANTS f1, f2, a1, a2

\* A complete file with format f, and the same without enable_format_probing.
Complete(f) ==
  File(<<Line("enable_format_probing", FALSE), Line("debug_level", 0),
         Line("image_format", f)>>)
OlderFile(f) == File(<<Line("debug_level", 0), Line("image_format", f)>>)

\* A line without a value behind good ones, a file from before image_format,
\* and one with a debug_level out of range.
Broken     == File(<<Line("debug_level", 0), Malformed>>)
NoFormatIn == File(<<Line("debug_level", 0)>>)
BadLevel   == File(<<Line("debug_level", 7), Line("image_format", f1)>>)

GoodFiles == {NoFile, Complete(f1)}
FaultyFiles == {Complete(f1), NoFormatIn, BadLevel}
FaultyEdits == {Broken, Complete(f2)}
AllFiles == {NoFile, Complete(f1), NoFormatIn, BadLevel}
AllEdits == {Broken, BadLevel, Complete(f1), OlderFile(f2)}
NoEdits == {}

AllChoices == SUBSET {f1, f2}
Ambiguous  == {{f1}, {f1, f2}, {f2}}

Symmetry == Permutations({a1, a2})
==============================================================================
