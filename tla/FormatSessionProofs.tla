------------------------- MODULE FormatSessionProofs -------------------------
(***************************************************************************)
(* Proofs about FormatSession: its type invariant, that a format found for *)
(* an image is not looked for again, that an attempt to open an image has  *)
(* no effect on formats unless it succeeds, and how far a selection goes.  *)
(***************************************************************************)
EXTENDS FormatSession, TLAPS

\* Option names with values of their types, the map of options and the file.
OptionNames == {"debug_level", "image_format", "enable_format_probing"}

ValueTyped(k, v) ==
  /\ k = "debug_level" => v \in 0..9
  /\ k = "image_format" => v \in Formats
  /\ k = "enable_format_probing" => v \in BOOLEAN

MapTyped(m) ==
  DOMAIN m \subseteq OptionNames /\ \A k \in DOMAIN m : ValueTyped(k, m[k])

FileTyped(f) ==
  /\ f.exists \in BOOLEAN
  /\ Len(f.lines) \in Nat
  /\ \A i \in 1..Len(f.lines) :
       \/ f.lines[i].key = Malformed.key
       \/ /\ f.lines[i].key \in OptionNames
          /\ ValueTyped(f.lines[i].key, f.lines[i].value)

\* The format of the first mount is the one in effect, and what is cached for
\* an image mounts it.
FirstInv == call.phase = "first" => call.format = Effective(call.arc, conf)
CacheInv == \A a \in Archives : cache[a] # NoFormat => cache[a] \in mounts[a]

\* No image is opened while the plugin is not loaded.
LoadedInv == ~loaded => call = Idle

IInv ==
  /\ TypeOK /\ FileTyped(ini) /\ MapTyped(omap)
  /\ FirstInv /\ CacheInv /\ LoadedInv
  /\ NeverAskedTwice /\ OnlySuccessChangesFormats

USE ConfigAssumption, SessionAssumption

------------------------------------------------------------------------------
LEMMA KnownFilesTyped ==
  ASSUME NEW f \in InitialFiles \cup Edits
  PROVE  FileTyped(f)
<1>1. f.exists \in BOOLEAN /\ f.lines \in Seq(Lines)
  OBVIOUS
<1>2. Len(f.lines) \in Nat /\ \A i \in 1..Len(f.lines) : f.lines[i] \in Lines
  BY <1>1
<1>3. \A l \in Lines : \/ l.key = Malformed.key
                       \/ l.key \in OptionNames /\ ValueTyped(l.key, l.value)
  BY DEF Lines, OptionNames, ValueTyped
<1> QED
  BY <1>1, <1>2, <1>3 DEF FileTyped

\* What write_conf writes of settings that have their types.
LEMMA WrittenTyped ==
  ASSUME NEW c \in Confs
  PROVE  FileTyped(Written(c))
<1> DEFINE i == IF c.image_format = NoFormat THEN DefaultFormat ELSE c.image_format
           s == <<Line("enable_format_probing", c.probing),
                  Line("debug_level", c.debug_level), Line("image_format", i)>>
<1>1. c.probing \in BOOLEAN /\ c.debug_level \in 0..9 /\ i \in Formats
  BY DEF Confs
<1>2. Written(c).exists = TRUE /\ Written(c).lines = s
  BY DEF Written, File
<1>3. Len(s) = 3 /\ \A j \in 1..3 : j = 1 \/ j = 2 \/ j = 3
  OBVIOUS
<1>4. /\ s[1].key = "enable_format_probing" /\ s[1].value = c.probing
      /\ s[2].key = "debug_level" /\ s[2].value = c.debug_level
      /\ s[3].key = "image_format" /\ s[3].value = i
  BY DEF Line
<1> HIDE DEF i, s
<1>5. \A j \in 1..3 : s[j].key \in OptionNames /\ ValueTyped(s[j].key, s[j].value)
  BY <1>1, <1>3, <1>4 DEF OptionNames, ValueTyped
<1>6. \A j \in 1..Len(Written(c).lines) :
        /\ Written(c).lines[j].key \in OptionNames
        /\ ValueTyped(Written(c).lines[j].key, Written(c).lines[j].value)
  BY <1>2, <1>3, <1>5
<1>7. Len(Written(c).lines) \in Nat
  BY <1>2, <1>3
<1>8. Written(c).exists \in BOOLEAN
  BY <1>2, Zenon
<1> QED
  BY <1>6, <1>7, <1>8 DEF FileTyped

\* The lines of a typed file make a typed map.
LEMMA CollectedTyped ==
  ASSUME NEW m, MapTyped(m), FileTyped(ini)
  PROVE  MapTyped(Collected(ini.lines, m))
<1> DEFINE s == ini.lines
           o == Collected(s, m)
<1>1. \A j \in TakenLines(s, m) : /\ s[j].key \in OptionNames
                                  /\ ValueTyped(s[j].key, s[j].value)
  BY DEF TakenLines, LineRefused, FileTyped
<1>2. DOMAIN o = DOMAIN m \cup {s[i].key : i \in TakenLines(s, m)}
  BY DEF Collected
<1>3. ASSUME NEW k \in DOMAIN o
      PROVE  k \in OptionNames /\ ValueTyped(k, o[k])
  <2>1. CASE k \in DOMAIN m
    <3>1. o[k] = m[k]
      BY <2>1, <1>2 DEF Collected
    <3> QED
      BY <2>1, <3>1 DEF MapTyped
  <2>2. CASE k \notin DOMAIN m
    <3> DEFINE j == CHOOSE i \in TakenLines(s, m) : s[i].key = k
    <3>1. j \in TakenLines(s, m) /\ s[j].key = k
      BY <2>2, <1>2
    <3>2. o[k] = s[j].value
      <4>1. k \in DOMAIN m \cup {s[i].key : i \in TakenLines(s, m)}
        BY <1>2, <1>3
      <4> QED
        BY <2>2, <4>1 DEF Collected
    <3> HIDE DEF j, o
    <3>3. k \in OptionNames /\ ValueTyped(k, s[j].value)
      BY <1>1, <3>1
    <3> QED
      BY <3>2, <3>3
  <2> QED
    BY <2>1, <2>2
<1> QED
  BY <1>3 DEF MapTyped

LEMMA ReadConfTyped ==
  ASSUME TypeOK, FileTyped(ini), MapTyped(omap),
         NEW ok, NEW c, NEW m, ReadConf(ok, c, m)
  PROVE  c \in Confs /\ MapTyped(m)
<1> DEFINE o == Collected(ini.lines, omap)
<1>1. MapTyped(o)
  BY CollectedTyped
<1>2. conf \in Confs
  BY DEF TypeOK
<1> HIDE DEF o
<1>3. "debug_level" \in DOMAIN o => o["debug_level"] \in 0..9
  BY <1>1 DEF MapTyped, ValueTyped
<1>4. "image_format" \in DOMAIN o => o["image_format"] \in Formats
  BY <1>1 DEF MapTyped, ValueTyped
<1>5. "enable_format_probing" \in DOMAIN o => o["enable_format_probing"] \in BOOLEAN
  BY <1>1 DEF MapTyped, ValueTyped
<1>6. {"debug_level", "image_format"} \subseteq DOMAIN o => Settings(o, conf) \in Confs
  BY <1>2, <1>3, <1>4, <1>5 DEF Settings, Confs
<1>7. "debug_level" \in DOMAIN o =>
        [conf EXCEPT !.debug_level = o["debug_level"], !.image_format = NoFormat] \in Confs
  BY <1>2, <1>3 DEF Confs
<1>8. MapTyped(EmptyMap)
  BY DEF MapTyped, EmptyMap
<1> QED
  BY <1>1, <1>2, <1>6, <1>7, <1>8 DEF ReadConf, o

LEMMA EffectiveTyped ==
  ASSUME TypeOK, NEW a \in Archives, NEW c \in Confs
  PROVE  Effective(a, c) \in Names
  BY DEF TypeOK, Effective, Names, Confs

------------------------------------------------------------------------------
LEMMA FreshTyped ==
  ASSUME Fresh(conf, omap, cache, default, override, call)
  PROVE  /\ conf \in Confs /\ MapTyped(omap)
         /\ cache = Nothing /\ default \in Names /\ override \in Optional
         /\ call = Idle
<1>1. DefaultConf \in Confs
  BY DEF DefaultConf, Confs
<1>2. MapTyped(EmptyMap)
  BY DEF MapTyped, EmptyMap
<1> QED
  BY <1>1, <1>2 DEF Fresh, Names, Optional

LEMMA InitInv == Init => IInv
<1> SUFFICES ASSUME Init PROVE IInv
  OBVIOUS
<1>1. FileTyped(ini)
  BY KnownFilesTyped DEF Init
<1>2. ini.exists \in BOOLEAN
  BY <1>1 DEF FileTyped
<1>3. /\ conf \in Confs /\ MapTyped(omap)
      /\ cache = Nothing /\ default \in Names /\ override \in Optional
      /\ call = Idle
  BY FreshTyped DEF Init
<1> QED
  BY <1>1, <1>2, <1>3
     DEF Init, IInv, TypeOK, MapTyped, OptionNames, FirstInv, CacheInv, LoadedInv,
         Nothing,
         NeverAskedTwice, OnlySuccessChangesFormats, Names, Idle

------------------------------------------------------------------------------
\* An idle plugin satisfies everything said about calls.
LEMMA IdleInv ==
  ASSUME TypeOK, FileTyped(ini), MapTyped(omap), CacheInv, call = Idle
  PROVE  IInv
  BY DEF IInv, FirstInv, LoadedInv, NeverAskedTwice, OnlySuccessChangesFormats, Idle

LEMMA LoadInv ==
  ASSUME IInv, Load
  PROVE  IInv'
<1> USE DEF Load, IInv
<1>1. PICK ok \in BOOLEAN : /\ ReadConf(ok, conf', omap')
                           /\ IF ok THEN UNCHANGED ini ELSE write_conf(conf')
  OBVIOUS
<1>2. conf' \in Confs /\ MapTyped(omap')
  BY <1>1, ReadConfTyped
<1>3. FileTyped(ini')
  BY <1>1, <1>2, WrittenTyped DEF write_conf
<1>4. TypeOK'
  BY <1>2, <1>3 DEF TypeOK, FileTyped, MapTyped, OptionNames
<1>5. call' = Idle /\ cache' = cache /\ mounts' = mounts
  BY DEF LoadedInv
<1>6. CacheInv'
  BY <1>5 DEF CacheInv
<1>7. QED
  BY <1>2, <1>3, <1>4, <1>5, <1>6
     DEF FirstInv, LoadedInv, NeverAskedTwice, OnlySuccessChangesFormats, Idle

LEMMA UnloadInv ==
  ASSUME IInv, Unload
  PROVE  IInv'
<1> USE DEF Unload, IInv
<1>1. /\ conf' \in Confs /\ MapTyped(omap')
      /\ cache' = Nothing /\ default' \in Names /\ override' \in Optional
      /\ call' = Idle
  <2>1. DefaultConf \in Confs
    BY DEF DefaultConf, Confs
  <2>2. MapTyped(EmptyMap)
    BY DEF MapTyped, EmptyMap
  <2> QED
    BY <2>1, <2>2 DEF Fresh, Names, Optional
<1>2. FileTyped(ini') /\ mounts' = mounts
  BY DEF FileTyped
<1>3. TypeOK'
  BY <1>1, <1>2 DEF TypeOK, FileTyped, MapTyped, OptionNames, Nothing, Names
<1> QED
  BY <1>1, <1>2, <1>3
     DEF FirstInv, CacheInv, LoadedInv, NeverAskedTwice,
         OnlySuccessChangesFormats, Idle, Nothing

LEMMA EditInv ==
  ASSUME IInv, Edit
  PROVE  IInv'
<1> USE DEF Edit, IInv, session
<1>1. FileTyped(ini')
  BY KnownFilesTyped
<1>2. TypeOK'
  BY <1>1 DEF TypeOK, FileTyped
<1> QED
  BY <1>1, <1>2
     DEF FirstInv, CacheInv, LoadedInv, NeverAskedTwice,
         OnlySuccessChangesFormats, Effective, MapTyped

LEMMA StartInv ==
  ASSUME IInv, NEW a \in Archives, Ready,
         conf' \in Confs, MapTyped(omap'), Start(a, conf')
  PROVE  IInv'
<1> USE DEF Start, IInv, Ready
<1>1. \A b \in Archives : Effective(b, conf') \in Names
  BY EffectiveTyped
<1>2. call' \in Calls
  BY <1>1 DEF Calls
<1>3. TypeOK'
  BY <1>2 DEF TypeOK, MapTyped, OptionNames
<1>4. FirstInv' /\ OnlySuccessChangesFormats'
  BY <1>2 DEF FirstInv, OnlySuccessChangesFormats, Effective
<1>5. NeverAskedTwice' /\ CacheInv' /\ LoadedInv' /\ FileTyped(ini')
  BY <1>2 DEF NeverAskedTwice, CacheInv, LoadedInv, FileTyped
<1> QED
  BY <1>3, <1>4, <1>5

LEMMA OpenInv ==
  ASSUME IInv, NEW a \in Archives, OpenArchive(a) \/ OpenForUpdate(a)
  PROVE  IInv'
<1>1. TypeOK /\ FileTyped(ini) /\ MapTyped(omap)
  BY DEF IInv
<1>2. CASE OpenArchive(a)
  <2>1. conf' \in Confs /\ MapTyped(omap')
    BY <1>1, <1>2, ReadConfTyped DEF OpenArchive
  <2> QED
    BY <1>2, <2>1, StartInv DEF OpenArchive
<1>3. CASE OpenForUpdate(a)
  <2>1. conf' \in Confs /\ MapTyped(omap') /\ conf' = conf
    BY <1>1, <1>3 DEF OpenForUpdate, TypeOK, MapTyped
  <2> QED
    BY <1>3, <2>1, StartInv DEF OpenForUpdate
<1> QED
  BY <1>2, <1>3

------------------------------------------------------------------------------
\* A running call is one of Calls.
LEMMA RunningCall ==
  ASSUME TypeOK, call # Idle
  PROVE  call \in Calls
  BY DEF TypeOK

\* The effective format does not mount, so nothing is cached for the image.
LEMMA TryFirstInv ==
  ASSUME IInv, TryFirst
  PROVE  IInv'
<1> USE DEF TryFirst, IInv
<1>1. call \in Calls
  BY RunningCall DEF Idle
<1>2. call' = Idle \/ (/\ call.format \notin mounts[call.arc]
                     /\ call' \in Calls
                     /\ call'.phase \in {"probe", "dialog"}
                     /\ call'.arc = call.arc /\ call'.before = call.before)
  BY <1>1 DEF Opened, Calls
<1>3. call.format \notin mounts[call.arc] => cache[call.arc] = NoFormat
  BY <1>1 DEF FirstInv, CacheInv, Effective, Calls
<1>4. TypeOK'
  BY <1>2 DEF TypeOK
<1>5. CacheInv' /\ FileTyped(ini') /\ MapTyped(omap')
  BY DEF CacheInv, FileTyped, MapTyped
<1>6. CASE call' = Idle
  BY <1>4, <1>5, <1>6
     DEF FirstInv, LoadedInv, NeverAskedTwice, OnlySuccessChangesFormats, Idle
<1>7. CASE call' # Idle
  <2>1. LoadedInv'
    BY DEF LoadedInv, Idle
  <2> QED
    BY <1>1, <1>2, <1>3, <1>4, <1>5, <1>7, <2>1
       DEF FirstInv, NeverAskedTwice, OnlySuccessChangesFormats, Effective, Idle
<1> QED
  BY <1>6, <1>7

LEMMA ProbeInv ==
  ASSUME IInv, Probe
  PROVE  IInv'
<1> USE DEF Probe, IInv
<1>1. call \in Calls /\ call.arc \in Archives
  BY RunningCall DEF Idle, Calls
<1>2. loaded
  BY DEF LoadedInv, Idle
<1>3. FileTyped(ini') /\ MapTyped(omap') /\ LoadedInv'
  BY <1>2 DEF FileTyped, MapTyped, LoadedInv
<1>4. CASE \E f \in mounts[call.arc] : Opened /\ Remember(f)
  <2>1. PICK f \in mounts[call.arc] : call' = Idle /\ cache' = [cache EXCEPT ![call.arc] = f]
    BY <1>4 DEF Opened, Remember
  <2>2. f \in Formats
    BY <1>1, <2>1 DEF TypeOK
  <2>3. TypeOK' /\ CacheInv'
    BY <1>1, <2>1, <2>2 DEF TypeOK, CacheInv, Names
  <2> QED
    BY <1>3, <2>1, <2>3
       DEF FirstInv, NeverAskedTwice, OnlySuccessChangesFormats, Idle
<1>5. CASE call' = [call EXCEPT !.phase = "dialog"] /\ cache' = cache
  <2>1. /\ call' \in Calls /\ call'.phase = "dialog"
        /\ call'.arc = call.arc /\ call'.before = call.before
    BY <1>1, <1>5 DEF Calls
  <2>2. TypeOK' /\ CacheInv'
    BY <1>5, <2>1 DEF TypeOK, CacheInv
  <2> QED
    BY <1>1, <1>3, <1>5, <2>1, <2>2
       DEF FirstInv, NeverAskedTwice, OnlySuccessChangesFormats, Effective, Idle
<1> QED
  BY <1>4, <1>5

LEMMA GiveUpInv ==
  ASSUME IInv, GiveUp
  PROVE  IInv'
  BY DEF GiveUp, IInv, TypeOK, FileTyped, MapTyped, CacheInv, FirstInv, LoadedInv,
         NeverAskedTwice, OnlySuccessChangesFormats, Idle

------------------------------------------------------------------------------
\* Saving the dialog's probing preference decides no format.
LEMMA PreferredTyped ==
  ASSUME TypeOK, NEW p \in BOOLEAN, NEW keep \in BOOLEAN
  PROVE  /\ Preferred(p, keep) \in Confs
         /\ Preferred(p, keep).image_format = conf.image_format
<1>1. conf \in Confs
  BY DEF TypeOK
<1>2. CASE keep
  BY <1>1, <1>2 DEF Preferred, Confs
<1>3. CASE ~keep
  BY <1>1, <1>3 DEF Preferred
<1> QED
  BY <1>2, <1>3

LEMMA ProbeNowInv ==
  ASSUME IInv, NEW p \in BOOLEAN, NEW keep \in BOOLEAN, ProbeNow(p, keep)
  PROVE  IInv'
<1> USE DEF ProbeNow, IInv
<1>1. call \in Calls /\ call.arc \in Archives /\ loaded
  BY RunningCall DEF Idle, Calls, LoadedInv
<1>2. conf' \in Confs /\ conf'.image_format = conf.image_format
  BY PreferredTyped
<1>3. FileTyped(ini') /\ MapTyped(omap')
  BY <1>2, WrittenTyped DEF write_conf, FileTyped, MapTyped
<1>4. /\ call' \in Calls /\ call'.phase = "probe"
      /\ call'.arc = call.arc /\ call'.before = call.before
  BY <1>1 DEF Calls
<1>5. override' \in Optional
  BY DEF Optional
<1>6. TypeOK' /\ CacheInv' /\ LoadedInv'
  BY <1>1, <1>2, <1>3, <1>4, <1>5 DEF TypeOK, CacheInv, LoadedInv, FileTyped
<1> QED
  BY <1>1, <1>2, <1>3, <1>4, <1>6
     DEF FirstInv, NeverAskedTwice, OnlySuccessChangesFormats, Effective, Idle

LEMMA SelectRejectedInv ==
  ASSUME IInv, NEW f \in Formats, NEW p \in BOOLEAN, NEW keep \in BOOLEAN,
         call.phase = "dialog", override' = {p},
         SelectRejected(f, p, keep), UNCHANGED <<omap, mounts, loaded>>
  PROVE  IInv'
<1> USE DEF SelectRejected, IInv
<1>1. conf' \in Confs /\ conf'.image_format = conf.image_format
  BY PreferredTyped
<1>2. FileTyped(ini') /\ MapTyped(omap')
  BY <1>1, WrittenTyped DEF write_conf, FileTyped, MapTyped
<1>3. override' \in Optional
  BY DEF Optional
<1>4. TypeOK' /\ CacheInv' /\ LoadedInv'
  BY <1>1, <1>2, <1>3 DEF TypeOK, CacheInv, LoadedInv, FileTyped
<1> QED
  BY <1>1, <1>2, <1>4
     DEF FirstInv, NeverAskedTwice, OnlySuccessChangesFormats, Effective

LEMMA SelectMountedInv ==
  ASSUME IInv, NEW f \in Formats, NEW p \in BOOLEAN, NEW keep \in BOOLEAN,
         NEW others \in BOOLEAN, NEW save \in BOOLEAN,
         call.phase = "dialog", override' = {p},
         SelectMounted(f, p, keep, others, save), UNCHANGED <<omap, mounts, loaded>>
  PROVE  IInv'
<1> USE DEF SelectMounted, IInv
<1>1. call.arc \in Archives /\ loaded
  BY RunningCall DEF Idle, Calls, LoadedInv
<1>2. conf' \in Confs
  BY PreferredTyped DEF Confs
<1>3. FileTyped(ini') /\ MapTyped(omap')
  BY <1>2, WrittenTyped DEF write_conf, FileTyped, MapTyped
<1>4. cache' = [cache EXCEPT ![call.arc] = f] /\ call' = Idle
  BY DEF Remember, Opened
<1>5. override' \in Optional /\ default' \in Names
  BY DEF Optional, Names, TypeOK
<1>6. TypeOK' /\ CacheInv' /\ LoadedInv'
  BY <1>1, <1>2, <1>3, <1>4, <1>5 DEF TypeOK, CacheInv, LoadedInv, FileTyped, Names
<1> QED
  BY <1>3, <1>4, <1>6
     DEF FirstInv, NeverAskedTwice, OnlySuccessChangesFormats, Idle

LEMMA ConfigurePackerInv ==
  ASSUME IInv, NEW f \in Formats, NEW p \in BOOLEAN, NEW keep \in BOOLEAN,
         ConfigurePacker(f, p, keep)
  PROVE  IInv'
<1> USE DEF ConfigurePacker, Ready, IInv
<1>1. conf' \in Confs
  BY PreferredTyped DEF Confs
<1>2. FileTyped(ini') /\ MapTyped(omap')
  BY <1>1, WrittenTyped DEF write_conf, FileTyped, MapTyped
<1>3. override' \in Optional
  BY DEF Optional
<1>4. TypeOK' /\ CacheInv'
  BY <1>1, <1>2, <1>3 DEF TypeOK, CacheInv, FileTyped
<1> QED
  BY <1>2, <1>4
     DEF FirstInv, LoadedInv, NeverAskedTwice, OnlySuccessChangesFormats, Idle

LEMMA StutterInv ==
  ASSUME IInv, UNCHANGED vars
  PROVE  IInv'
  BY DEF IInv, vars, TypeOK, FileTyped, MapTyped, CacheInv, FirstInv, LoadedInv,
         NeverAskedTwice, OnlySuccessChangesFormats, Effective

LEMMA NextInv ==
  ASSUME IInv, [Next]_vars
  PROVE  IInv'
<1>1. CASE Load
  BY <1>1, LoadInv
<1>2. CASE Unload
  BY <1>2, UnloadInv
<1>3. CASE Edit
  BY <1>3, EditInv
<1>4. ASSUME NEW a \in Archives, OpenArchive(a) \/ OpenForUpdate(a)
      PROVE  IInv'
  BY <1>4, OpenInv
<1>5. CASE TryFirst
  BY <1>5, TryFirstInv
<1>6. CASE TryNothing
  BY <1>6, UnloadInv DEF TryNothing
<1>7. CASE Probe
  BY <1>7, ProbeInv
<1>8. CASE GiveUp
  BY <1>8, GiveUpInv
<1>9. ASSUME NEW p \in BOOLEAN, NEW keep \in BOOLEAN, ProbeNow(p, keep)
      PROVE  IInv'
  BY <1>9, ProbeNowInv
<1>10. ASSUME NEW f \in Formats, NEW p \in BOOLEAN, NEW keep \in BOOLEAN,
              NEW others \in BOOLEAN, NEW save \in BOOLEAN,
              Select(f, p, keep, others, save)
       PROVE  IInv'
  BY <1>10, SelectRejectedInv, SelectMountedInv DEF Select
<1>11. ASSUME NEW f \in Formats, NEW p \in BOOLEAN, NEW keep \in BOOLEAN,
              ConfigurePacker(f, p, keep)
       PROVE  IInv'
  BY <1>11, ConfigurePackerInv
<1>12. CASE UNCHANGED vars
  BY <1>12, StutterInv
<1> QED
  BY <1>1, <1>2, <1>3, <1>4, <1>5, <1>6, <1>7, <1>8, <1>9, <1>10, <1>11, <1>12
     DEF Next

LEMMA Inductive == Spec => []IInv
<1>1. IInv /\ [Next]_vars => IInv'
  BY NextInv
<1> QED
  BY <1>1, InitInv, PTL DEF Spec

------------------------------------------------------------------------------
\* The settings, the cache and the running call keep their types, whatever
\* files are found and whenever they are edited.
THEOREM TypeCorrect == Spec => []TypeOK
<1>1. IInv => TypeOK
  BY DEF IInv
<1> QED
  BY <1>1, Inductive, PTL

\* No image whose format was found once in the session is probed or asked about
\* again, for any number of images and formats.
THEOREM FoundOnce == Spec => []NeverAskedTwice
<1>1. IInv => NeverAskedTwice
  BY DEF IInv
<1> QED
  BY <1>1, Inductive, PTL

\* While process_image is at work no image's format has changed, through any
\* number of probes, rejected selections and saved preferences.
THEOREM CancelLeavesNoTrace == Spec => []OnlySuccessChangesFormats
<1>1. IInv => OnlySuccessChangesFormats
  BY DEF IInv
<1> QED
  BY <1>1, Inductive, PTL

\* A format selected for the current image only is not used for any other.
THEOREM SelectionIsLocal == Spec => SelectionScope
<1>1. ASSUME TypeOK, NEW f \in Formats, NEW p \in BOOLEAN, NEW keep \in BOOLEAN,
             Select(f, p, keep, FALSE, FALSE), NEW b \in Archives \ {call.arc}
      PROVE  Effective(b, conf)' = Effective(b, conf)
  <2>1. Preferred(p, keep).image_format = conf.image_format
    BY <1>1, PreferredTyped
  <2>2. conf'.image_format = conf.image_format
    BY <1>1, <2>1 DEF Select, SelectRejected, SelectMounted
  <2>3. cache'[b] = cache[b] /\ default' = default
    BY <1>1 DEF Select, SelectRejected, SelectMounted, Remember, TypeOK
  <2> QED
    BY <2>2, <2>3 DEF Effective
<1>2. ASSUME IInv, [Next]_vars
      PROVE  [\A f \in Formats, p, keep \in BOOLEAN :
                Select(f, p, keep, FALSE, FALSE) =>
                  \A b \in Archives \ {call.arc} :
                    Effective(b, conf)' = Effective(b, conf)]_vars
  BY <1>1, <1>2 DEF IInv
<1> QED
  BY <1>2, Inductive, PTL DEF Spec, SelectionScope

------------------------------------------------------------------------------
\* The lines write_conf writes of settings with a format are all taken and say
\* what the settings are.
LEMMA WrittenIsCollected ==
  ASSUME NEW c \in Confs, c.image_format # NoFormat, validate_conf(c)
  PROVE  /\ Accepts(Written(c))
         /\ Settings(Collected(Written(c).lines, EmptyMap), DefaultConf) = c
<1> DEFINE s == <<Line("enable_format_probing", c.probing),
                  Line("debug_level", c.debug_level), Line("image_format", c.image_format)>>
           o == Collected(s, EmptyMap)
<1>1. Written(c).exists = TRUE /\ Written(c).lines = s
  BY DEF Written, File
<1>2. Len(s) = 3 /\ \A j \in 1..3 : j = 1 \/ j = 2 \/ j = 3
  OBVIOUS
<1>3. /\ s[1].key = "enable_format_probing" /\ s[1].value = c.probing
      /\ s[2].key = "debug_level" /\ s[2].value = c.debug_level
      /\ s[3].key = "image_format" /\ s[3].value = c.image_format
  BY DEF Line
<1> HIDE DEF s
<1>4. DOMAIN EmptyMap = {}
  BY DEF EmptyMap
<1>5. \A i, j \in 1..3 : s[i].key = s[j].key => i = j
  BY <1>2, <1>3
<1>6. \A i \in 1..3 : s[i].key # Malformed.key
  BY <1>2, <1>3 DEF Malformed, Line
<1>7. \A i \in 1..3 : ~LineRefused(s, EmptyMap, i)
  BY <1>4, <1>5, <1>6 DEF LineRefused
<1>8. AllLinesTaken(s, EmptyMap) /\ TakenLines(s, EmptyMap) = 1..3
  BY <1>2, <1>7 DEF AllLinesTaken, TakenLines
<1>9. ASSUME NEW i \in 1..3
       PROVE  s[i].key \in DOMAIN o /\ o[s[i].key] = s[i].value
  <2>1. s[i].key \in {s[j].key : j \in 1..3}
    OBVIOUS
  <2>2. (CHOOSE j \in 1..3 : s[j].key = s[i].key) = i
    BY <1>5
  <2> QED
    BY <1>4, <1>8, <2>1, <2>2 DEF Collected
<1> HIDE DEF o
<1>10. /\ {"debug_level", "image_format", "enable_format_probing"} \subseteq DOMAIN o
       /\ o["enable_format_probing"] = c.probing
       /\ o["debug_level"] = c.debug_level
       /\ o["image_format"] = c.image_format
  BY <1>2, <1>3, <1>9
<1>11. Settings(o, DefaultConf) = c
  BY <1>10 DEF Settings, Confs
<1>12. Written(c).exists
  BY <1>1, Zenon
<1> QED
  BY <1>1, <1>8, <1>10, <1>11, <1>12 DEF Accepts, o

\* Settings the plugin saved are the settings it starts with the next time.
THEOREM SavedSettingsComeBack == Spec => []SavedSettingsReload
<1>1. TypeOK => SavedSettingsReload
  BY WrittenIsCollected DEF TypeOK, SavedSettingsReload
<1> QED
  BY <1>1, TypeCorrect, PTL

==============================================================================
