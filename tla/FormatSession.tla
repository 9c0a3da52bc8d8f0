---------------------------- MODULE FormatSession ----------------------------
(***************************************************************************)
(* How the plugin decides with which disk definition it mounts an image    *)
(* (cpmimg_wcx.cpp): the settings, the session's default and per-archive   *)
(* formats, and whole_disk_t::process_image, which tries the effective     *)
(* format, then a format found by isolated probing, then asks the user     *)
(* until a format mounts or the dialog is cancelled.                       *)
(*                                                                         *)
(* Total Commander calls the plugin from one thread, so at most one image  *)
(* is being opened; cpmdiskimg.ini may be edited at any moment, also while *)
(* the dialog is open.  Images do not change here (PackTransaction models  *)
(* replacing one).  What a probe reports is left open: FormatProbe models  *)
(* it.                                                                     *)
(***************************************************************************)
EXTENDS PluginConfig

CONSTANTS
  Archives,    \* the image files of the session
  MountChoices \* which formats an image may validate with: sets of formats

ASSUME SessionAssumption == MountChoices \subseteq SUBSET Formats

VARIABLES
  mounts,    \* the formats each image mounts with
  loaded,    \* whether the plugin is loaded
  cache,     \* session_image_formats_by_archive
  default,   \* session_default_image_format
  override,  \* session_format_probing_override
  call       \* process_image at work

vars == <<ini, conf, omap, mounts, loaded, cache, default, override, call>>

session == <<loaded, cache, default, override, call>>

Names  == Formats \cup {NoFormat}
Idle   == [phase |-> "idle"]
\* An optional Boolean: nothing, or the one value.
Optional == {{}, {TRUE}, {FALSE}}

Calls == [phase: {"first", "probe", "dialog"}, arc: Archives, format: Names,
          before: [Archives -> Names]]

TypeOK ==
  /\ ini.exists \in BOOLEAN
  /\ conf \in Confs
  /\ DOMAIN omap \subseteq {"debug_level", "image_format", "enable_format_probing"}
  /\ mounts \in [Archives -> SUBSET Formats]
  /\ loaded \in BOOLEAN
  /\ cache \in [Archives -> Names]
  /\ default \in Names
  /\ override \in Optional
  /\ call \in Calls \cup {Idle}

------------------------------------------------------------------------------
Effective_MUT_ConfigFirst(a, c) ==
  IF c.image_format # NoFormat THEN c.image_format
  ELSE IF cache[a] # NoFormat THEN cache[a] ELSE default

\* effective_image_format_for_archive under the settings c.
Effective(a, c) ==
  IF cache[a] # NoFormat THEN cache[a]
  ELSE IF default # NoFormat THEN default
  ELSE c.image_format

\* effective_format_probing_enabled
ProbingEnabled == IF override = {} THEN conf.probing ELSE TRUE \in override

Nothing == [a \in Archives |-> NoFormat]

\* The plugin's memory when it is loaded.
Fresh(c, m, ca, d, o, k) ==
  /\ c = DefaultConf /\ m = EmptyMap
  /\ ca = Nothing /\ d = NoFormat /\ o = {} /\ k = Idle

Init ==
  /\ ini \in InitialFiles
  /\ mounts \in [Archives -> MountChoices]
  /\ loaded = FALSE
  /\ Fresh(conf, omap, cache, default, override, call)

\* PackSetDefaultParams: settings that cannot be read are written.
Load ==
  /\ ~loaded
  /\ loaded' = TRUE
  /\ \E ok \in BOOLEAN :
       /\ ReadConf(ok, conf', omap')
       /\ IF ok THEN UNCHANGED ini ELSE write_conf(conf')
  /\ UNCHANGED <<mounts, cache, default, override, call>>

\* Total Commander ends, or dies at any point of a call.
Unload ==
  /\ loaded
  /\ loaded' = FALSE
  /\ Fresh(conf', omap', cache', default', override', call')
  /\ UNCHANGED <<ini, mounts>>

\* The user or another instance writes cpmdiskimg.ini.
Edit == ini' \in Edits /\ UNCHANGED <<conf, omap, mounts, session>>

------------------------------------------------------------------------------
Ready == loaded /\ call = Idle

\* whole_disk_t's constructor up to the first mount, under the settings c.
Start(a, c) ==
  /\ call' = [phase |-> "first", arc |-> a, format |-> Effective(a, c),
              before |-> [b \in Archives |-> Effective(b, c)]]
  /\ UNCHANGED <<ini, mounts, loaded, cache, default, override>>

\* OpenArchive rereads the settings and goes on whatever that gave.
OpenArchive(a) ==
  /\ Ready
  /\ \E ok \in BOOLEAN : ReadConf(ok, conf', omap')
  /\ Start(a, conf')

\* CanYouHandleThisFile, DeleteFiles and PackFiles do not reread them.
OpenForUpdate(a) == Ready /\ Start(a, conf) /\ UNCHANGED <<conf, omap>>

\* The image is mounted.
Opened == call' = Idle

\* The mount with the effective format, and what follows when it fails.
TryFirst ==
  /\ call.phase = "first"
  /\ call.format # NoFormat
  /\ \/ call.format \in mounts[call.arc] /\ Opened
     \/ /\ call.format \notin mounts[call.arc]
        /\ call' = [call EXCEPT !.phase =
                      IF ProbingEnabled THEN "probe" ELSE "dialog"]
  /\ UNCHANGED <<ini, conf, omap, mounts, loaded, cache, default, override>>

\* mount_with_format(nullptr): strcmp of a null pointer ends the process.
TryNothing ==
  /\ call.phase = "first"
  /\ call.format = NoFormat
  /\ Unload

Remember(f) == cache' = [cache EXCEPT ![call.arc] = f]

\* run_probe: a unique match that also mounts here is taken.
Probe ==
  /\ call.phase = "probe"
  /\ \/ \E f \in mounts[call.arc] : Opened /\ Remember(f)
     \/ call' = [call EXCEPT !.phase = "dialog"] /\ UNCHANGED cache
  /\ UNCHANGED <<ini, conf, omap, mounts, loaded, default, override>>

------------------------------------------------------------------------------
\* The dialog is cancelled, or Device_open fails in a mount.
GiveUp ==
  /\ call # Idle
  /\ call' = Idle
  /\ UNCHANGED <<ini, conf, omap, mounts, loaded, cache, default, override>>

\* The settings after the dialog's probing preference p, to be kept or not.
Preferred(p, keep) == IF keep THEN [conf EXCEPT !.probing = p] ELSE conf

\* Probe now.
ProbeNow(p, keep) ==
  /\ call.phase = "dialog"
  /\ override' = {p}
  /\ conf' = Preferred(p, keep)
  /\ IF keep THEN write_conf(conf') ELSE UNCHANGED ini
  /\ call' = [call EXCEPT !.phase = "probe"]
  /\ UNCHANGED <<omap, mounts, loaded, cache, default>>

\* Format f chosen; others and save are the two checkboxes about it.  A format
\* that does not mount brings the dialog back.
SelectRejected_MUT_Remembered(f, p, keep) ==
  /\ f \notin mounts[call.arc]
  /\ conf' = Preferred(p, keep)
  /\ IF keep THEN write_conf(conf') ELSE UNCHANGED ini
  /\ Remember(f)
  /\ UNCHANGED <<call, default>>

SelectRejected(f, p, keep) ==
  /\ f \notin mounts[call.arc]
  /\ conf' = Preferred(p, keep)
  /\ IF keep THEN write_conf(conf') ELSE UNCHANGED ini
  /\ UNCHANGED <<call, cache, default>>

SelectMounted_MUT_AlwaysOthers(f, p, keep, others, save) ==
  /\ f \in mounts[call.arc]
  /\ Opened
  /\ Remember(f)
  /\ default' = f
  /\ conf' = IF save THEN [Preferred(p, keep) EXCEPT !.image_format = f]
             ELSE Preferred(p, keep)
  /\ IF keep \/ save THEN write_conf(conf') ELSE UNCHANGED ini

SelectMounted(f, p, keep, others, save) ==
  /\ f \in mounts[call.arc]
  /\ Opened
  /\ Remember(f)
  /\ default' = IF others \/ save THEN f ELSE default
  /\ conf' = IF save THEN [Preferred(p, keep) EXCEPT !.image_format = f]
             ELSE Preferred(p, keep)
  /\ IF keep \/ save THEN write_conf(conf') ELSE UNCHANGED ini

Select(f, p, keep, others, save) ==
  /\ call.phase = "dialog"
  /\ override' = {p}
  /\ SelectRejected(f, p, keep) \/ SelectMounted(f, p, keep, others, save)
  /\ UNCHANGED <<omap, mounts, loaded>>

\* ConfigurePacker: the options dialog closed with OK.  It shows "use for other
\* images in this session" ticked and does not read it.
ConfigurePacker(f, p, keep) ==
  /\ Ready
  /\ override' = {p}
  /\ conf' = [Preferred(p, keep) EXCEPT !.image_format = f]
  /\ write_conf(conf')
  /\ UNCHANGED <<omap, mounts, loaded, cache, default, call>>

Next ==
  \/ Load
  \/ Unload
  \/ Edit
  \/ \E a \in Archives : OpenArchive(a) \/ OpenForUpdate(a)
  \/ TryFirst
  \/ TryNothing
  \/ Probe
  \/ GiveUp
  \/ \E p, keep \in BOOLEAN : ProbeNow(p, keep)
  \/ \E f \in Formats, p, keep, others, save \in BOOLEAN :
       Select(f, p, keep, others, save)
  \/ \E f \in Formats, p, keep \in BOOLEAN : ConfigurePacker(f, p, keep)

Spec == Init /\ [][Next]_vars

------------------------------------------------------------------------------
\* SAFETY

\* Once a probe or the user found a format for an image, opening it again in
\* the session neither probes nor asks: the listing, F3 and F5 each open it
\* anew, whatever happened to the defaults in between.
NeverAskedTwice ==
  call.phase \in {"probe", "dialog"} => cache[call.arc] = NoFormat

\* As long as process_image has not mounted the image, nothing it did (failed
\* selections, probes, preferences saved) changed the format any image would be
\* opened with, so a cancelled dialog leaves no trace.
OnlySuccessChangesFormats ==
  call # Idle => \A b \in Archives : Effective(b, conf) = call.before[b]

\* A format selected with both checkboxes cleared is for that image alone
\* (src/ReadMe.md: "used only to retry the current image").
SelectionScope ==
  [][\A f \in Formats, p, keep \in BOOLEAN :
       Select(f, p, keep, FALSE, FALSE) =>
         \A b \in Archives \ {call.arc} : Effective(b, conf)' = Effective(b, conf)]_vars

\* What the plugin saved it accepts when it is loaded again: the next session
\* starts with the settings of this one.
SavedSettingsReload ==
  loaded /\ validate_conf(conf) /\ conf.image_format # NoFormat
         /\ ini = Written(conf) =>
    Accepts(ini) /\ Settings(Collected(ini.lines, EmptyMap), DefaultConf) = conf

\* CLAIMS of the documentation the code does not meet

\* "the plugin rereads the configuration before opening each image"
RereadTakesEffect ==
  [][\A a \in Archives :
       OpenArchive(a) /\ Accepts(ini) =>
         conf' = Settings(Collected(ini.lines, EmptyMap), conf)]_vars

\* "If the file is absent or invalid, the plugin recreates it using default
\* values": an image is never opened without a format.
FormatNamed == call.phase = "first" => call.format # NoFormat

==============================================================================
