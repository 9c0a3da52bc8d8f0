------------------------ MODULE PackTransactionProofs ------------------------
(***************************************************************************)
(* Proofs about PackTransaction: its type invariant, that no damaged file  *)
(* reaches the image, that every transaction image is accounted for, and   *)
(* that PackFiles implements the atomic update of AtomicPack.              *)
(***************************************************************************)
EXTENDS PackTransaction, TLAPS

\* The steps at which a transaction image exists, and those at which it has
\* been formatted.
HasTemp   == {"create", "mount", "write", "verify", "commit"}
Formatted == {"mount", "write", "verify", "commit"}

\* The transaction image of the running call.
Current == IF pc \in HasTemp THEN {call.temp} ELSE {}

Sound(m) == \A n \in Names : m.files[n] # Damaged

\* A running call has its parameters, and a name for its image once it has one.
CallInv ==
  /\ pc # "idle" => call \in Call /\ call.todo \subseteq Listed(call.pend)
  /\ pc = "prepare" => call.temp = Missing
  /\ pc \in HasTemp => call.temp \in Temps /\ temps[call.temp] \in Image

\* Which files are transaction images, and whose they are.
TempInv ==
  /\ {t \in Temps : temps[t] # Missing} = orphans \cup preserved \cup Current
  /\ Current \cap (orphans \cup preserved) = {}

\* Only the files being packed can be damaged, and none once they are verified.
DamageInv ==
  /\ target # Missing => Sound(target)
  /\ pc \in HasTemp =>
       \A n \in Names \ Listed(call.pend) : temps[call.temp].files[n] # Damaged
  /\ pc = "commit" => Verified

\* What was preserved was verified.
PreservedInv == \A t \in preserved : temps[t].fmt \in Formats /\ Sound(temps[t])

\* A format is cached for the transaction image of the running call at most.
CacheInv == \A t \in Temps : formats[t] # NoFormat => t \in Current

IInv == TypeOK /\ CallInv /\ TempInv /\ DamageInv /\ PreservedInv /\ CacheInv

USE PackAssumption

------------------------------------------------------------------------------
LEMMA EffectiveFormat ==
  ASSUME TypeOK, NEW k \in Keys
  PROVE  Effective(k) \in Formats
  BY DEF TypeOK, Effective

\* A verified image with the other files sound is sound.
LEMMA VerifiedIsSound ==
  ASSUME IInv, pc = "commit"
  PROVE  /\ temps[call.temp] \in Image
         /\ Sound(temps[call.temp])
         /\ temps[call.temp].fmt \in Formats
         /\ temps[call.temp].fmt = call.fmt
<1>1. call \in Call /\ temps[call.temp] \in Image
  BY DEF IInv, CallInv, HasTemp
<1>2. \A n \in Listed(call.pend) : call.pend[n] \in Values
  BY <1>1 DEF Listed, Call, Pending
<1> QED
  BY <1>1, <1>2 DEF IInv, DamageInv, Verified, Sound, Listed, Call, HasTemp

LEMMA InitInv == Init => IInv
<1> SUFFICES ASSUME Init PROVE IInv
  OBVIOUS
<1>1. TypeOK
  BY DEF Init, TypeOK, Found, NoFormats, Keys, Steps
<1>2. CallInv /\ TempInv /\ PreservedInv /\ CacheInv
  BY DEF Init, CallInv, TempInv, PreservedInv, CacheInv, Current, HasTemp,
         NoFormats, Keys
<1>3. DamageInv
  BY DEF Init, DamageInv, Found, Sound, HasTemp
<1> QED
  BY <1>1, <1>2, <1>3 DEF IInv

LEMMA ReturnInv ==
  ASSUME IInv, Return, pc # "idle"
  PROVE  IInv'
<1> USE DEF Return, IInv
<1>1. TypeOK'
  BY DEF TypeOK, Forget, Steps, Keys
<1>2. CallInv'
  BY DEF CallInv, HasTemp
<1>3. TempInv'
  BY DEF TempInv, CallInv, Current, HasTemp, TypeOK, Steps
<1>4. DamageInv' /\ PreservedInv'
  BY DEF DamageInv, PreservedInv, TempInv, Current, HasTemp, Sound, CallInv, TypeOK, Steps
<1>5. CacheInv'
  BY DEF CacheInv, CallInv, TypeOK, Current, HasTemp, Forget, Keys, Steps
<1> QED
  BY <1>1, <1>2, <1>3, <1>4, <1>5

LEMMA PackFilesInv ==
  ASSUME IInv, NEW p \in Pending, PackFiles(p)
  PROVE  IInv'
<1> USE DEF PackFiles, IInv
<1>1. Effective(TargetKey) \in Formats
  BY EffectiveFormat DEF Keys, TargetKey
<1>2. call' \in Call
  BY <1>1 DEF Call, Listed
<1>3. TypeOK'
  BY <1>2 DEF TypeOK, Steps
<1>4. CallInv' /\ TempInv' /\ CacheInv'
  BY <1>2 DEF CallInv, TempInv, CacheInv, Current, HasTemp, TypeOK
<1>5. DamageInv' /\ PreservedInv'
  BY DEF DamageInv, PreservedInv, HasTemp, Sound
<1> QED
  BY <1>3, <1>4, <1>5

LEMMA PrepareInv ==
  ASSUME IInv, NEW t \in Temps, Prepare(t)
  PROVE  IInv'
<1> USE DEF Prepare, IInv
<1> DEFINE new == IF call.existed THEN target ELSE EmptyImage(NoFormat)
<1>1. call \in Call /\ pc # "idle" /\ t \notin orphans \cup preserved
  BY DEF CallInv, TempInv
<1>2. new \in Image /\ Sound(new)
  BY <1>1 DEF TypeOK, EmptyImage, Image, Contents, DamageInv, Sound,
             Absent, Damaged
<1>3. /\ temps' = [temps EXCEPT ![t] = new]
      /\ call' \in Call /\ call'.temp = t /\ call'.pend = call.pend
      /\ pc' \in {"create", "mount"}
  BY <1>1 DEF Call
<1>4. TypeOK'
  BY <1>1, <1>2, <1>3 DEF TypeOK, Steps, Keys, Call
<1>5. CallInv' /\ TempInv'
  BY <1>1, <1>2, <1>3 DEF CallInv, TempInv, Current, HasTemp, TypeOK
<1>6. DamageInv' /\ PreservedInv' /\ CacheInv'
  BY <1>1, <1>2, <1>3
     DEF DamageInv, PreservedInv, CacheInv, Current, HasTemp, TypeOK, Sound
<1> QED
  BY <1>4, <1>5, <1>6

LEMMA CreateEmptyInv ==
  ASSUME IInv, CreateEmpty
  PROVE  IInv'
<1>1. CASE Return
  BY <1>1, ReturnInv DEF CreateEmpty
<1>2. CASE /\ pc = "create"
           /\ temps' = [temps EXCEPT ![call.temp] = EmptyImage(call.fmt)]
           /\ pc' = "mount"
           /\ UNCHANGED <<target, formats, default, call, orphans, preserved, others>>
  <2> USE <1>2 DEF IInv
  <2>1. /\ call \in Call /\ call.temp \in Temps /\ temps[call.temp] # Missing
        /\ call.temp \notin preserved /\ call.temp \notin orphans
    BY DEF CallInv, HasTemp, TempInv, Current
  <2>2. EmptyImage(call.fmt) \in Image /\ Sound(EmptyImage(call.fmt))
    BY <2>1 DEF EmptyImage, Image, Contents, Call, Sound, Absent, Damaged
  <2>3. TypeOK'
    BY <2>1, <2>2 DEF TypeOK, Steps
  <2>4. CallInv' /\ TempInv' /\ CacheInv'
    BY <2>1, <2>2 DEF CallInv, TempInv, CacheInv, Current, HasTemp, TypeOK
  <2>5. DamageInv' /\ PreservedInv'
    BY <2>1, <2>2 DEF DamageInv, PreservedInv, HasTemp, TypeOK, Sound
  <2> QED
    BY <2>3, <2>4, <2>5
<1> QED
  BY <1>1, <1>2 DEF CreateEmpty

LEMMA MountInv ==
  ASSUME IInv, Mount
  PROVE  IInv'
<1>1. CASE Return
  BY <1>1, ReturnInv DEF Mount
<1>2. CASE ~Return
  <2> USE <1>2 DEF Mount, IInv
  <2>1. call.temp \in Temps /\ temps[call.temp] \in Image
    BY DEF CallInv, HasTemp
  <2>2. TypeOK'
    BY <2>1 DEF TypeOK, Steps, Keys, Image
  <2>3. CallInv' /\ TempInv' /\ CacheInv'
    BY <2>1 DEF CallInv, TempInv, CacheInv, Current, HasTemp, TypeOK, Keys
  <2>4. DamageInv' /\ PreservedInv'
    BY DEF DamageInv, PreservedInv, HasTemp, Sound
  <2> QED
    BY <2>2, <2>3, <2>4
<1> QED
  BY <1>1, <1>2

LEMMA WriteInv ==
  ASSUME IInv, NEW n \in Names, Write(n)
  PROVE  IInv'
<1> USE DEF IInv
<1>1. /\ call \in Call /\ call.temp \in Temps /\ temps[call.temp] \in Image
      /\ call.temp \notin preserved /\ call.temp \notin orphans /\ pc = "write"
  BY DEF Write, CallInv, HasTemp, TempInv, Current
<1>2. PICK v \in {call.pend[n], Damaged} :
        temps' = [temps EXCEPT ![call.temp].files[n] = v]
  BY DEF Write
<1>3. v \in Contents
  BY <1>1 DEF Call, Pending, Contents
<1>4. /\ call' \in Call /\ call'.temp = call.temp /\ call'.pend = call.pend
      /\ pc' = pc
  BY <1>1 DEF Write, Call
<1>5. /\ temps'[call.temp] \in Image
      /\ \A x \in Names \ {n} :
           temps'[call.temp].files[x] = temps[call.temp].files[x]
      /\ \A t \in Temps \ {call.temp} : temps'[t] = temps[t]
      /\ temps' \in [Temps -> Image \cup {Missing}]
  BY <1>1, <1>2, <1>3 DEF TypeOK, Image
<1>6. TypeOK'
  BY <1>4, <1>5 DEF TypeOK, Write
<1>7. CallInv' /\ TempInv' /\ CacheInv'
  BY <1>1, <1>4, <1>5 DEF CallInv, TempInv, CacheInv, Current, HasTemp, Write, TypeOK
<1>8. PreservedInv'
  BY <1>1, <1>5 DEF PreservedInv, Sound, Write, TypeOK
<1>9. DamageInv'
  <2>1. ASSUME NEW x \in Names \ Listed(call.pend)
        PROVE  temps'[call.temp].files[x] # Damaged
    <3>1. CASE x = n
      BY <1>1, <2>1, <3>1 DEF CallInv, Write
    <3>2. CASE x # n
      BY <1>1, <1>5, <2>1, <3>2 DEF DamageInv, HasTemp
    <3> QED
      BY <3>1, <3>2
  <2> QED
    BY <1>1, <1>4, <2>1 DEF DamageInv, HasTemp, Write, Sound
<1> QED
  BY <1>6, <1>7, <1>8, <1>9

\* The steps that only move the call on.
LEMMA AdvanceInv ==
  ASSUME IInv, NEW next \in {"verify", "commit"},
         pc \in {"write", "verify"}, pc' = next, next = "commit" => Verified,
         UNCHANGED <<target, temps, formats, default, call, orphans, preserved, others>>
  PROVE  IInv'
<1> USE DEF IInv
<1>1. TypeOK'
  BY DEF TypeOK, Steps
<1>2. CallInv' /\ TempInv' /\ CacheInv'
  BY DEF CallInv, TempInv, CacheInv, Current, HasTemp
<1>3. PreservedInv'
  BY DEF PreservedInv, Sound
<1>4. DamageInv'
  BY DEF DamageInv, HasTemp, Sound, Verified, Listed
<1> QED
  BY <1>1, <1>2, <1>3, <1>4

LEMMA CommitInv ==
  ASSUME IInv, Commit
  PROVE  IInv'
<1> USE DEF IInv
<1>1. /\ call \in Call /\ call.temp \in Temps /\ temps[call.temp] \in Image
      /\ Sound(temps[call.temp])
      /\ call.temp \notin preserved /\ call.temp \notin orphans
  BY VerifiedIsSound DEF Commit, CallInv, HasTemp, TempInv, Current
<1>2. TypeOK'
  BY <1>1 DEF Commit, TypeOK, Steps, Keys, TargetKey, Forget, Call
<1>3. CallInv' /\ DamageInv'
  BY <1>1 DEF Commit, CallInv, DamageInv, HasTemp, Sound
<1>4. TempInv'
  BY <1>1 DEF Commit, TempInv, Current, HasTemp, TypeOK
<1>5. PreservedInv'
  BY <1>1 DEF Commit, PreservedInv, Sound, TypeOK
<1>6. CacheInv'
  BY <1>1 DEF Commit, CacheInv, Current, HasTemp, TypeOK, Forget, Keys, TargetKey
<1> QED
  BY <1>2, <1>3, <1>4, <1>5, <1>6

LEMMA CommitFailsInv ==
  ASSUME IInv, CommitFails
  PROVE  IInv'
<1> USE DEF IInv
<1>1. /\ call.temp \in Temps /\ Sound(temps[call.temp])
      /\ temps[call.temp].fmt \in Formats
  BY VerifiedIsSound DEF CommitFails, CallInv, HasTemp
<1>2. TypeOK' /\ target' \in {target, Missing}
  BY <1>1 DEF CommitFails, TypeOK, Steps, Keys, Forget
<1>3. CallInv' /\ TempInv' /\ DamageInv'
  BY <1>1, <1>2 DEF CommitFails, CallInv, TempInv, DamageInv, Current, HasTemp, Sound
<1>4. PreservedInv'
  BY <1>1 DEF CommitFails, PreservedInv, Sound
<1>5. CacheInv'
  BY <1>1 DEF CommitFails, CacheInv, Current, HasTemp, TypeOK, Forget, Keys
<1> QED
  BY <1>2, <1>3, <1>4, <1>5

LEMMA CrashInv ==
  ASSUME IInv, Crash
  PROVE  IInv'
<1> USE DEF IInv, Crash
<1>1. {call.temp} \cap Temps = Current
  BY DEF TypeOK, Steps, CallInv, Current, HasTemp
<1>2. TypeOK'
  BY DEF TypeOK, Steps, NoFormats, Keys
<1>3. CallInv' /\ CacheInv'
  BY DEF CallInv, CacheInv, HasTemp, NoFormats, Keys
<1>4. TempInv'
  BY <1>1 DEF TempInv, Current, HasTemp
<1>5. DamageInv' /\ PreservedInv'
  BY DEF DamageInv, PreservedInv, Sound, HasTemp
<1> QED
  BY <1>2, <1>3, <1>4, <1>5

\* Steps that change the image's path or the formats kept for it alone.
LEMMA ArchiveInv ==
  ASSUME IInv, OpenArchive \/ Intrude
  PROVE  IInv'
<1> USE DEF IInv
<1>1. \/ target' = target
      \/ target' \in Image /\ Sound(target')
      \/ target' = Missing
  BY DEF OpenArchive, Intrude, Found, Sound
<1>2. /\ formats' \in [Keys -> Formats \cup {NoFormat}]
      /\ \A t \in Temps : formats'[t] = formats[t]
      /\ default' \in Formats \cup {NoFormat}
  <2>1. CASE OpenArchive
    <3>1. target.fmt \in Formats \cup {NoFormat}
      BY <2>1 DEF OpenArchive, TypeOK, Image
    <3> QED
      BY <2>1, <3>1 DEF OpenArchive, TypeOK, Keys, TargetKey
  <2>2. CASE Intrude
    BY <2>2 DEF Intrude, TypeOK
  <2> QED
    BY <2>1, <2>2
<1>3. UNCHANGED <<temps, pc, call, orphans, preserved>> /\ others' \in {others, "now"}
  BY DEF OpenArchive, Intrude
<1>4. TypeOK'
  BY <1>1, <1>2, <1>3 DEF TypeOK
<1>5. CallInv' /\ TempInv' /\ PreservedInv' /\ CacheInv'
  BY <1>2, <1>3 DEF CallInv, TempInv, PreservedInv, CacheInv, Current, HasTemp, Sound
<1>6. DamageInv'
  BY <1>1, <1>3 DEF DamageInv, HasTemp, Sound, Verified, Listed
<1> QED
  BY <1>4, <1>5, <1>6

LEMMA CleanUpInv ==
  ASSUME IInv, NEW t \in Temps, CleanUp(t)
  PROVE  IInv'
<1> USE DEF IInv, CleanUp
<1>1. pc \in HasTemp => call.temp # t
  BY DEF TempInv, Current
<1>2. TypeOK'
  BY DEF TypeOK
<1>3. CallInv' /\ TempInv' /\ PreservedInv' /\ CacheInv'
  BY <1>1 DEF CallInv, TempInv, PreservedInv, CacheInv, Current, Sound, TypeOK, HasTemp
<1>4. DamageInv'
  BY <1>1 DEF DamageInv, HasTemp, Sound, Verified, Listed, TypeOK
<1> QED
  BY <1>2, <1>3, <1>4

LEMMA NextInv ==
  ASSUME IInv, [Next]_vars
  PROVE  IInv'
<1>1. CASE OpenArchive
  BY <1>1, ArchiveInv
<1>2. CASE \E p \in Pending : PackFiles(p)
  BY <1>2, PackFilesInv
<1>3. CASE \E t \in Temps : Prepare(t)
  BY <1>3, PrepareInv
<1>4. CASE PrepareFails
  BY <1>4, ReturnInv DEF PrepareFails
<1>5. CASE CreateEmpty
  BY <1>5, CreateEmptyInv
<1>6. CASE Mount
  BY <1>6, MountInv
<1>7. CASE \E n \in Names : Write(n)
  BY <1>7, WriteInv
<1>8. CASE WriteFails
  BY <1>8, ReturnInv DEF WriteFails
<1>9. CASE Close
  BY <1>9, ReturnInv, AdvanceInv DEF Close
<1>10. CASE Verify
  BY <1>10, ReturnInv, AdvanceInv DEF Verify
<1>11. CASE Commit
  BY <1>11, CommitInv
<1>12. CASE CommitFails
  BY <1>12, CommitFailsInv
<1>13. CASE Crash
  BY <1>13, CrashInv
<1>14. CASE Intrude
  BY <1>14, ArchiveInv
<1>15. CASE \E t \in Temps : CleanUp(t)
  BY <1>15, CleanUpInv
<1>16. CASE UNCHANGED vars
  BY <1>16 DEF vars, IInv, TypeOK, CallInv, TempInv, DamageInv, PreservedInv,
               CacheInv, Current, Sound, Verified, Listed
<1> QED
  BY <1>1, <1>2, <1>3, <1>4, <1>5, <1>6, <1>7, <1>8, <1>9, <1>10, <1>11, <1>12,
     <1>13, <1>14, <1>15, <1>16 DEF Next, Work

\* The strengthened invariant holds in every reachable state.
THEOREM InductiveInvariant == Spec => []IInv
<1>1. Init => IInv
  BY InitInv
<1>2. IInv /\ [Next]_vars => IInv'
  BY NextInv
<1> QED
  BY <1>1, <1>2, PTL DEF Spec

\* PackFiles keeps its state well formed: a call has its parameters, every file
\* beside the image is an image, every cached format is one.
THEOREM TypeCorrect == Spec => []TypeOK
<1>1. IInv => TypeOK
  BY DEF IInv
<1> QED
  BY <1>1, InductiveInvariant, PTL

\* Whatever the device damages, whatever fails, crashes or interferes, the image
\* at the target path never holds a damaged file.
THEOREM NeverDamaged == Spec => []TargetNeverDamaged
<1>1. IInv => TargetNeverDamaged
  BY DEF IInv, DamageInv, Sound, TargetNeverDamaged
<1> QED
  BY <1>1, InductiveInvariant, PTL

\* When no call runs, every transaction image on disk is one a crash or a held
\* file left, or one a failed commit preserved.
THEOREM EveryTempAccounted == Spec => []NothingLeftBehind
<1>1. IInv => NothingLeftBehind
  BY DEF IInv, TempInv, Current, HasTemp, NothingLeftBehind
<1> QED
  BY <1>1, InductiveInvariant, PTL

\* A transaction image that is preserved after a failed commit is usable.
THEOREM PreservedAreUsable == Spec => []PreservedUsable
<1>1. IInv => PreservedUsable
  BY DEF IInv, PreservedInv, Sound, PreservedUsable
<1> QED
  BY <1>1, InductiveInvariant, PTL

\* No call leaves a format cached under the name of its transaction image.
THEOREM TempFormatsForgotten == Spec => []NoStaleTempFormat
<1>1. IInv => NoStaleTempFormat
  BY DEF IInv, CacheInv, Current, HasTemp, NoStaleTempFormat
<1> QED
  BY <1>1, InductiveInvariant, PTL

------------------------------------------------------------------------------
\* What holds besides while no other program has changed the image: it is a good
\* image and the cached format is its format; and, when none did since the call
\* began, the call knows whether the image exists and the transaction image
\* agrees with it about every file that is not packed.
Basis == IF call.existed THEN target.files ELSE [n \in Names |-> Absent]

CallRInv ==
  /\ pc # "idle" => call.existed = (target # Missing)
  /\ pc = "create" => ~call.existed
  /\ pc \in Formatted =>
       /\ call.existed => temps[call.temp].fmt = target.fmt
       /\ \A n \in Names \ Listed(call.pend) :
            temps[call.temp].files[n] = Basis[n]

RInv ==
  /\ target \in Found \cup {Missing}
  /\ CachedFormatFits
  /\ others # "now" => CallRInv

LEMMA RInvStep ==
  ASSUME IInv, IInv', RInv, [Next]_vars
  PROVE  RInv'
<1> USE DEF IInv
<1>1. ASSUME Return, pc # "idle" PROVE RInv'
  BY <1>1 DEF Return, RInv, CallRInv, Formatted, CachedFormatFits, TypeOK, CallInv, HasTemp,
              Steps, Forget, Keys, TargetKey
<1>2. CASE OpenArchive
  BY <1>2 DEF OpenArchive, RInv, CallRInv, Formatted, CachedFormatFits, TypeOK, Keys, TargetKey
<1>3. CASE \E p \in Pending : PackFiles(p)
  BY <1>3 DEF PackFiles, RInv, CallRInv, Formatted, CachedFormatFits
<1>4. ASSUME NEW t \in Temps, Prepare(t) PROVE RInv'
  BY <1>4 DEF Prepare, RInv, CallRInv, Formatted, CachedFormatFits, TypeOK, CallInv, Call,
              Basis, Keys, TargetKey
<1>5. CASE CreateEmpty
  <2>1. CASE Return
    BY <1>1, <1>5, <2>1 DEF CreateEmpty
  <2>2. CASE ~Return
    BY <1>5, <2>2 DEF CreateEmpty, RInv, CallRInv, Formatted, CachedFormatFits, TypeOK,
                      CallInv, HasTemp, EmptyImage, Basis
  <2> QED
    BY <2>1, <2>2
<1>6. CASE Mount
  <2>1. CASE Return
    BY <1>1, <1>6, <2>1 DEF Mount
  <2>2. CASE ~Return
    BY <1>6, <2>2 DEF Mount, RInv, CallRInv, Formatted, CachedFormatFits, TypeOK, CallInv,
                      HasTemp, Basis, Keys, TargetKey
  <2> QED
    BY <2>1, <2>2
<1>7. ASSUME NEW n \in Names, Write(n) PROVE RInv'
  <2>1. /\ call.temp \in Temps /\ temps[call.temp] \in Image /\ call \in Call
        /\ n \in Listed(call.pend)
    BY <1>7 DEF Write, CallInv, HasTemp
  <2>2. PICK v : temps' = [temps EXCEPT ![call.temp].files[n] = v]
    BY <1>7 DEF Write
  <2>3. /\ call'.temp = call.temp /\ call'.pend = call.pend
        /\ call'.existed = call.existed
    BY <1>7, <2>1 DEF Write, Call
  <2>4. /\ temps'[call.temp].fmt = temps[call.temp].fmt
        /\ \A x \in Names \ Listed(call.pend) :
             temps'[call.temp].files[x] = temps[call.temp].files[x]
    BY <2>1, <2>2 DEF TypeOK, Image
  <2> QED
    BY <1>7, <2>3, <2>4 DEF Write, RInv, CallRInv, Formatted, CachedFormatFits, Basis
<1>8. CASE Close \/ Verify
  <2>1. CASE Return
    BY <1>1, <1>8, <2>1 DEF Close, Verify
  <2>2. CASE ~Return
    BY <1>8, <2>2 DEF Close, Verify, RInv, CallRInv, Formatted, CachedFormatFits, Basis
  <2> QED
    BY <2>1, <2>2
<1>9. CASE Commit
  <2>1. /\ temps[call.temp] \in Image /\ temps[call.temp].fmt \in Formats
        /\ temps[call.temp].fmt = call.fmt /\ Sound(temps[call.temp])
    BY <1>9, VerifiedIsSound DEF Commit
  <2>2. target' \in Found
    BY <1>9, <2>1 DEF Commit, Found, Sound
  <2>3. formats'[TargetKey] = target'.fmt /\ target' # Missing
    BY <1>9, <2>1 DEF Commit, TypeOK, Forget, Keys, TargetKey
  <2> QED
    BY <1>9, <2>2, <2>3 DEF Commit, RInv, CallRInv, Formatted, CachedFormatFits
<1>10. CASE CommitFails
  <2>1. call.temp \in Temps /\ target' \in {target, Missing}
    BY <1>10 DEF CommitFails, CallInv, HasTemp
  <2> QED
    BY <1>10, <2>1 DEF CommitFails, RInv, CallRInv, Formatted, CachedFormatFits, Forget,
                       TypeOK, Keys, TargetKey
<1>11. CASE Crash
  BY <1>11 DEF Crash, RInv, CallRInv, Formatted, CachedFormatFits, NoFormats, Keys, TargetKey
<1>12. ASSUME NEW t \in Temps, CleanUp(t) PROVE RInv'
  BY <1>12 DEF CleanUp, RInv, CallRInv, Formatted, CachedFormatFits, TempInv, Current, HasTemp,
               TypeOK, Basis
<1>14. CASE Intrude
  BY <1>14 DEF Intrude, RInv, CachedFormatFits
<1>13. CASE UNCHANGED vars
  BY <1>13 DEF vars, RInv, CallRInv, Formatted, CachedFormatFits, Basis
<1> QED
  BY <1>1, <1>2, <1>3, <1>4, <1>5, <1>6, <1>7, <1>8, <1>9, <1>10, <1>11, <1>12,
     <1>13, <1>14 DEF Next, Work, PrepareFails, WriteFails

\* The image a call commits is what the promise allows: the old one (or an empty
\* one) with the packed files over it, or, when another program changed the image
\* during the call, a good one with every packed file.
LEMMA CommitsAResult ==
  ASSUME IInv, RInv, pc = "commit"
  PROVE  /\ call.pend \in Promise!Pending
         /\ temps[call.temp] \in Promise!Results(call.pend)
<1> USE DEF IInv
<1> DEFINE p   == call.pend
           new == temps[call.temp]
<1>1. call \in Call /\ p \in Pending
  BY DEF CallInv, Call
<1>2. /\ new \in Image /\ new.fmt \in Formats
      /\ new.fmt = call.fmt /\ Sound(new)
  BY VerifiedIsSound
<1>3. p \in Promise!Pending
  BY <1>1 DEF Pending, Promise!Pending, Absent, Promise!Absent
<1>4. CASE others = "now"
  <2>1. new \in Promise!Images
    BY <1>2 DEF Image, Contents, Sound, Promise!Images, Absent, Promise!Absent
  <2>2. \A n \in Names : p[n] # Absent => new.files[n] = p[n]
    BY DEF DamageInv, Verified, Listed
  <2>3. Promise!Overlay(new.files, p) = new.files
    BY <1>2, <2>2 DEF Promise!Overlay, Image, Absent, Promise!Absent
  <2> HIDE DEF p, new
  <2>4. new \in Promise!Results(p)
    BY <1>4, <2>1, <2>3 DEF Promise!Results
  <2> QED
    BY <1>3, <2>4 DEF p, new
<1>5. CASE others # "now"
  <2>1. \A n \in Names : new.files[n] = IF p[n] = Absent THEN Basis[n] ELSE p[n]
    BY <1>1, <1>5 DEF DamageInv, Verified, RInv, CallRInv, Formatted, Listed
  <2>2. call.existed = (target # Missing)
    BY <1>5 DEF RInv, CallRInv
  <2>3. CASE target # Missing
    <3>1. target \in Image /\ new.fmt = target.fmt
      BY <1>5, <2>2, <2>3 DEF RInv, CallRInv, Formatted, TypeOK
    <3>2. new.files = Promise!Overlay(target.files, p)
      BY <1>1, <1>2, <2>1, <2>2, <2>3, <3>1
         DEF Basis, Promise!Overlay, Image, Absent, Promise!Absent
    <3>3. new = [target EXCEPT !.files = Promise!Overlay(@, p)]
      BY <1>2, <3>1, <3>2 DEF Image
    <3> HIDE DEF p, new
    <3>4. new \in Promise!Results(p)
      BY <1>5, <2>3, <3>3 DEF Promise!Results
    <3> QED
      BY <1>3, <3>4 DEF p, new
  <2>4. CASE target = Missing
    <3>1. new.files = p
      <4>1. \A n \in Names : new.files[n] = p[n]
        BY <1>1, <2>1, <2>2, <2>4 DEF Basis
      <4>2. new.files \in [Names -> Contents] /\ p \in [Names -> Values \cup {Absent}]
        BY <1>1, <1>2 DEF Image, Pending
      <4> HIDE DEF p, new
      <4> QED
        BY <4>1, <4>2
    <3>2. new \in [fmt: Formats, files: {p}]
      BY <1>2, <3>1 DEF Image
    <3> HIDE DEF p, new
    <3>3. new \in Promise!Results(p)
      BY <1>5, <2>4, <3>2 DEF Promise!Results
    <3> QED
      BY <1>3, <3>3 DEF p, new
  <2> QED
    BY <2>3, <2>4
<1> QED
  BY <1>4, <1>5

\* No step but a failed commit and the user's own cleaning up changes what is
\* preserved.
LEMMA RescuedKept ==
  ASSUME IInv, preserved' = preserved, \A t \in preserved : temps'[t] = temps[t]
  PROVE  Rescued' = Rescued
  BY DEF Rescued

\* As long as no other program has changed the image since the last commit, the
\* format cached for it is its own.
THEOREM CachedFormatIsRight == Spec => []CachedFormatFits
<1>1. Init => RInv
  BY DEF Init, RInv, CallRInv, CachedFormatFits, Formatted, NoFormats, Keys, TargetKey
<1>2. IInv /\ IInv' /\ RInv /\ [Next]_vars => RInv'
  BY RInvStep
<1>3. RInv => CachedFormatFits
  BY DEF RInv
<1> QED
  BY <1>1, <1>2, <1>3, InductiveInvariant, PTL DEF Spec

\* PackFiles is an atomic update of the image: in one step every listed file is
\* replaced and every other kept, or nothing changes, through all failures and
\* crashes; when another program changed the image during the call, a good image
\* with every packed file takes its place or nothing changes; and when a failing
\* replacement loses the image, the one that was to replace it is preserved.
THEOREM PackFilesIsAtomic == Spec => Atomic
<1>1. Init => RInv /\ Promise!Init
  <2>1. Found \subseteq Promise!Images
    BY DEF Found, Promise!Images, Image, Contents, Absent, Promise!Absent
  <2> QED
    BY <2>1 DEF Init, RInv, CallRInv, CachedFormatFits, Formatted, NoFormats, Keys,
                TargetKey, Promise!Init, Rescued
<1>2. IInv /\ IInv' /\ RInv /\ [Next]_vars => RInv'
  BY RInvStep
<1>3. ASSUME IInv, RInv, [Next]_vars
      PROVE  [Promise!Next]_<<target, others = "now", Rescued>>
  <2>1. CASE Commit
    <3>1. /\ pc = "commit" /\ call.temp \in Temps /\ call.temp \notin preserved
          /\ target' = temps[call.temp] /\ others' = "none"
      BY <1>3, <2>1 DEF Commit, IInv, CallInv, TempInv, Current, HasTemp
    <3>2. Rescued' = Rescued
      BY <1>3, <2>1, <3>1, RescuedKept DEF Commit, IInv, TypeOK
    <3>3. /\ call.pend \in Promise!Pending
          /\ temps[call.temp] \in Promise!Results(call.pend)
      BY <1>3, <3>1, CommitsAResult
    <3>4. Promise!Update(call.pend)
      BY <3>1, <3>2, <3>3 DEF Promise!Update
    <3> QED
      BY <3>3, <3>4 DEF Promise!Next
  <2>2. CASE CommitFails
    <3>1. /\ pc = "commit" /\ target' \in {target, Missing}
          /\ Rescued' = Rescued \cup {temps[call.temp]} /\ others' = others
      BY <2>2 DEF CommitFails, Rescued
    <3>2. /\ call.pend \in Promise!Pending
          /\ temps[call.temp] \in Promise!Results(call.pend)
      BY <1>3, <3>1, CommitsAResult
    <3>3. Promise!KeptAside(call.pend)
      BY <3>1, <3>2 DEF Promise!KeptAside
    <3> QED
      BY <3>2, <3>3 DEF Promise!Next
  <2>3. CASE Intrude
    <3>1. Found \subseteq Promise!Images
      BY DEF Found, Promise!Images, Image, Contents, Absent, Promise!Absent
    <3> QED
      BY <2>3, <3>1 DEF Intrude, Promise!Next, Promise!Outside, Rescued
  <2>4. CASE \E p \in Pending : PackFiles(p)
    <3>1. target' = target /\ others' # "now" /\ UNCHANGED <<temps, preserved>>
      BY <2>4 DEF PackFiles
    <3> QED
      BY <3>1 DEF Promise!Next, Promise!Begin, Rescued
  <2>5. ASSUME NEW t \in Temps, CleanUp(t)
        PROVE  Promise!Discard
    <3>1. preserved' \subseteq preserved /\ \A x \in preserved' : temps'[x] = temps[x]
      BY <1>3, <2>5 DEF CleanUp, IInv, TypeOK
    <3>2. Rescued' \subseteq Rescued
      BY <3>1 DEF Rescued
    <3> QED
      BY <2>5, <3>2 DEF CleanUp, Promise!Discard
  <2>6. CASE Work /\ ~Commit /\ ~CommitFails
    <3>1. target' = target /\ others' = others /\ preserved' = preserved
      BY <2>6 DEF Work, Prepare, PrepareFails, CreateEmpty, Mount, Write, WriteFails,
         Close, Verify, Return
    <3>2. ASSUME NEW t \in preserved PROVE temps'[t] = temps[t]
      <4>1. t \in Temps /\ temps[t] # Missing /\ (pc \in HasTemp => t # call.temp)
        BY <1>3 DEF IInv, TypeOK, TempInv, Current
      <4>2. CASE pc = "prepare"
        <5>1. call.temp = Missing /\ temps \in [Temps -> Image \cup {Missing}]
          BY <1>3, <4>2 DEF IInv, CallInv, TypeOK
        <5> QED
          BY <2>6, <4>1, <4>2, <5>1 DEF Work, Prepare, PrepareFails, CreateEmpty, Mount,
             Write, WriteFails, Close, Verify, Return
      <4>3. CASE pc \in HasTemp
        <5>1. t # call.temp /\ temps \in [Temps -> Image \cup {Missing}]
          BY <1>3, <4>1, <4>3 DEF IInv, TypeOK
        <5> QED
          BY <2>6, <4>1, <4>3, <5>1 DEF Work, Prepare, PrepareFails, CreateEmpty, Mount,
             Write, WriteFails, Close, Verify, Return, HasTemp
      <4> QED
        BY <2>6, <4>2, <4>3 DEF Work, Prepare, PrepareFails, CreateEmpty, Mount, Write,
           WriteFails, Close, Verify, HasTemp
    <3> QED
      BY <1>3, <3>1, <3>2, RescuedKept
  <2>7. CASE OpenArchive \/ Crash \/ UNCHANGED vars
    BY <2>7 DEF OpenArchive, Crash, vars, Rescued
  <2> QED
    BY <1>3, <2>1, <2>2, <2>3, <2>4, <2>5, <2>6, <2>7 DEF Next, Promise!Next
<1> QED
  BY <1>1, <1>2, <1>3, InductiveInvariant, PTL DEF Spec, Atomic, Promise!Spec, Rescued

\* What another program put at the path of a new image while it was being made
\* stays, however the call ends.
THEOREM ForeignImageKept == Spec => NoForeignOverwrite
<1>1. ASSUME [Next]_vars, pc = "commit", target # Missing, ~call.existed, pc' = "idle"
      PROVE  target' = target
  <2>1. ~Commit
    BY <1>1 DEF Commit, CanReplace
  <2>2. ~Intrude
    BY <1>1 DEF Intrude
  <2>3. CASE ~Commit /\ ~Intrude
    BY <1>1, <2>3 DEF Next, Work, OpenArchive, PackFiles, Prepare, PrepareFails,
       CreateEmpty, Mount, Write, WriteFails, Close, Verify, CommitFails, Crash,
       CleanUp, Return, vars
  <2> QED
    BY <2>1, <2>2, <2>3
<1> QED
  BY <1>1, PTL DEF Spec, NoForeignOverwrite

==============================================================================
