---------------------------- MODULE PluginConfig ----------------------------
(***************************************************************************)
(* The plugin's settings (plugin_config.cpp): the file cpmdiskimg.ini, the *)
(* copy of it in memory, and the map of options read_conf collects the     *)
(* lines in.  The map is a member of the configuration object and is only  *)
(* emptied by a successful read.                                           *)
(*                                                                         *)
(* Three options stand for all: debug_level and image_format, which must   *)
(* be present, and enable_format_probing, which need not be.  Logging and  *)
(* the paths are left out, and so is what the assert in write_conf does in *)
(* a debug build.                                                          *)
(***************************************************************************)
EXTENDS Integers, Sequences

CONSTANTS
  Formats,        \* the disk definitions
  DefaultFormat,  \* osbexec1
  NoFormat,       \* the empty string
  InitialFiles,   \* the files the plugin may find
  Edits           \* what the user or another instance may write

VARIABLES
  ini,   \* the file: whether it exists, and its lines
  conf,  \* plugin_config: image_format, enable_format_probing, debug_level
  omap   \* options_map

Line(k, v) == [key |-> k, value |-> v]
Malformed  == Line("malformed", 0)  \* no '=', no name or no value
NoFile     == [exists |-> FALSE, lines |-> << >>]
File(s)    == [exists |-> TRUE, lines |-> s]

\* What a line can say: one of the options, or nothing the parser understands.
Lines == [key: {"debug_level"}, value: 0..9]
           \cup [key: {"image_format"}, value: Formats]
           \cup [key: {"enable_format_probing"}, value: BOOLEAN]
           \cup {Malformed}

ASSUME ConfigAssumption ==
  /\ DefaultFormat \in Formats
  /\ NoFormat \notin Formats
  /\ InitialFiles \cup Edits \subseteq [exists: BOOLEAN, lines: Seq(Lines)]

Confs ==
  [image_format: Formats \cup {NoFormat}, probing: BOOLEAN, debug_level: 0..9]

\* The in-class initialisers.
DefaultConf == [image_format |-> DefaultFormat, probing |-> TRUE, debug_level |-> 0]

EmptyMap == [k \in {} |-> 0]

------------------------------------------------------------------------------
\* Line i makes file_to_options_map give up: malformed, or a second value for
\* an option the map already has.
LineRefused(s, m, i) ==
  \/ s[i].key = Malformed.key
  \/ s[i].key \in DOMAIN m
  \/ \E j \in 1..(i - 1) : s[j].key = s[i].key

AllLinesTaken(s, m) == \A i \in 1..Len(s) : ~LineRefused(s, m, i)

\* The lines before the first refused one, in any case added to the map.
TakenLines(s, m) == {i \in 1..Len(s) : \A j \in 1..i : ~LineRefused(s, m, j)}

Collected(s, m) ==
  [k \in DOMAIN m \cup {s[i].key : i \in TakenLines(s, m)} |->
     IF k \in DOMAIN m THEN m[k]
     ELSE s[CHOOSE i \in TakenLines(s, m) : s[i].key = k].value]

\* What the settings old become from complete options o; a missing
\* enable_format_probing keeps its value.
Settings(o, old) ==
  [image_format |-> o["image_format"],
   debug_level  |-> o["debug_level"],
   probing      |-> IF "enable_format_probing" \in DOMAIN o
                    THEN o["enable_format_probing"] ELSE old.probing]

validate_conf(c) == c.debug_level <= 2

\* read_conf: c and m are the settings and the map afterwards.  The options are
\* stored one by one, so a missing image_format leaves the new debug_level and
\* no format.
ReadConf(ok, c, m) ==
  LET o == Collected(ini.lines, omap)
      all == ini.exists /\ AllLinesTaken(ini.lines, omap)
  IN  \/ ~ini.exists /\ ~ok /\ c = conf /\ m = omap
      \/ ini.exists /\ ~all /\ ~ok /\ c = conf /\ m = o
      \/ all /\ "debug_level" \notin DOMAIN o /\ ~ok /\ c = conf /\ m = o
      \/ /\ all /\ "debug_level" \in DOMAIN o /\ "image_format" \notin DOMAIN o
         /\ ~ok
         /\ c = [conf EXCEPT !.debug_level = o["debug_level"],
                             !.image_format = NoFormat]
         /\ m = o
      \/ /\ all /\ {"debug_level", "image_format"} \subseteq DOMAIN o
         /\ c = Settings(o, conf)
         /\ ok = validate_conf(c)
         /\ m = EmptyMap

Written_MUT_NoProbing(c) ==
  File(<<Line("debug_level", c.debug_level),
         Line("image_format", IF c.image_format = NoFormat
                              THEN DefaultFormat ELSE c.image_format)>>)

\* The file write_conf makes of the settings c.
Written(c) ==
  File(<<Line("enable_format_probing", c.probing),
         Line("debug_level", c.debug_level),
         Line("image_format", IF c.image_format = NoFormat
                              THEN DefaultFormat ELSE c.image_format)>>)

\* write_conf of the settings c: the file may fail to open, which no caller asks.
write_conf(c) == ini' \in {Written(c), ini}

\* A file read_conf accepts in a plugin that was just loaded.
Accepts(f) ==
  LET o == Collected(f.lines, EmptyMap)
  IN  /\ f.exists
      /\ AllLinesTaken(f.lines, EmptyMap)
      /\ {"debug_level", "image_format"} \subseteq DOMAIN o
      /\ validate_conf(Settings(o, DefaultConf))

==============================================================================
