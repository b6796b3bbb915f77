---------------------------- MODULE PluginProofs ----------------------------
(***************************************************************************)
(* Proofs about the plugin, for any directories, any settings file that a  *)
(* run may find and any lengths of the rests.                              *)
(***************************************************************************)
EXTENDS PluginProperties, TLAPS

\* The thread's objects, with the database of a connected plugin.
ObjectsInv == ThreadHasItsObjects /\ (phase = "connected" => db_)

PluginInv == PluginTypeOK /\ SettingsAgree /\ ObjectsInv /\ DelayIsOneSlice

-----------------------------------------------------------------------------
(* Settings and files. *)

LEMMA NoDirsAreSettings == NoDirs \in Settings
<1>1. {} \in SUBSET Dirs /\ NoDirs \in [{} -> BOOLEAN]
  BY DEF NoDirs
<1> QED
  BY <1>1 DEF Settings

LEMMA SettingsAreFunctions ==
    ASSUME NEW S \in SUBSET Dirs, NEW f \in [S -> BOOLEAN]
    PROVE  f \in Settings
  BY DEF Settings

\* The dialog makes settings of settings.
LEMMA EditsAreSettings ==
    ASSUME draft \in Settings, NEW d \in Dirs
    PROVE  /\ [e \in DOMAIN draft \cup {d} |-> e \in DOMAIN draft => draft[e]] \in Settings
           /\ [e \in DOMAIN draft \ {d} |-> draft[e]] \in Settings
<1>1. PICK S \in SUBSET Dirs : draft \in [S -> BOOLEAN]
  BY DEF Settings
<1>2. [e \in S \cup {d} |-> e \in S => draft[e]] \in [S \cup {d} -> BOOLEAN]
  OBVIOUS
<1>3. [e \in S \ {d} |-> draft[e]] \in [S \ {d} -> BOOLEAN]
  BY <1>1
<1>4. DOMAIN draft = S /\ S \cup {d} \in SUBSET Dirs /\ S \ {d} \in SUBSET Dirs
  BY <1>1
<1> QED
  BY <1>2, <1>3, <1>4, SettingsAreFunctions

\* The state of a file tells what it is.
LEMMA FileStates ==
    ASSUME NEW f \in {Absent, Torn} \cup {Whole(s) : s \in Settings}
    PROVE  /\ f.state \in {"absent", "torn", "whole"} /\ f.dirs \in Settings
           /\ f.state = "whole" => f = Whole(f.dirs)
           /\ f.state = "torn" => f = Torn
           /\ f.state = "absent" => f = Absent
<1>1. CASE f \in {Absent, Torn}
  BY <1>1, NoDirsAreSettings DEF Absent, Torn
<1>2. CASE f \in {Whole(s) : s \in Settings}
  BY <1>2 DEF Whole
<1> QED
  BY <1>1, <1>2

-----------------------------------------------------------------------------
(* Types. *)

Files == {Absent, Torn} \cup {Whole(s) : s \in Settings}

\* The types of the settings, and those of the rest.
SettingsTypes ==
    file \in Files /\ settings_ \in Settings /\ draft \in Settings /\ wanted \subseteq Settings

StateTypes ==
    /\ phase \in {"off", "starting", "started", "failed", "connected", "disconnected"}
    /\ gui \in {"idle", "dialog", "saving", "stored"}
    /\ db_ \in BOOLEAN /\ widget \in BOOLEAN
    /\ call \in {"none", "destroy", "disconnect"}
    /\ tpc \in {"none", "loop", "roots", "initial", "scan", "test", "slice", "woken", "tail",
                "ended"}
    /\ stop_ \in BOOLEAN /\ restart_ \in BOOLEAN /\ continue_ \in BOOLEAN /\ bound \in BOOLEAN

RestTypes == sleepTimeMs \in sleepMs .. maxSleepMs /\ slept \in Nat /\ delay \in Nat

LEMMA TypesInParts == PluginTypeOK <=> SettingsTypes /\ StateTypes /\ RestTypes
  BY DEF PluginTypeOK, SettingsTypes, StateTypes, RestTypes, Files

LEMMA RestConstants == sleepMs \in Nat \ {0} /\ maxSleepMs \in Nat /\ sleepMs <= maxSleepMs
  BY PluginAssumption

LEMMA FilesOfSettings ==
    Absent \in Files /\ Torn \in Files /\ \A s \in Settings : Whole(s) \in Files
  BY DEF Files

LEMMA FilesHoldSettings == \A f \in Files : f.dirs \in Settings
  BY FileStates DEF Files

LEMMA InitTypes == Init => PluginTypeOK
<1> SUFFICES ASSUME Init PROVE SettingsTypes /\ StateTypes /\ RestTypes
  BY TypesInParts
<1>1. SettingsTypes
  <2>1. file \in Files
    BY PluginAssumption DEF Init, Files
  <2> QED
    BY <2>1, FilesHoldSettings, NoDirsAreSettings DEF Init, SettingsTypes
<1>2. StateTypes
  BY DEF Init, StateTypes
<1>3. RestTypes
  BY RestConstants DEF Init, RestTypes
<1> QED
  BY <1>1, <1>2, <1>3

LEMMA SettingsTypesStep ==
    ASSUME SettingsTypes, [Next]_vars
    PROVE  SettingsTypes'
<1> USE NoDirsAreSettings, FilesOfSettings, FilesHoldSettings DEF SettingsTypes
<1>1. CASE Start
  BY <1>1 DEF Start
<1>2. CASE SaveDefaults \/ Exit
  BY <1>2 DEF SaveDefaults, Exit
<1>3. CASE Connect \/ CreateWidget \/ DestroyWidget \/ Disconnect \/ Joined \/ UNCHANGED vars
  BY <1>3 DEF Connect, CreateWidget, DestroyWidget, Disconnect, Joined, vars, settingsVars
<1>4. CASE (\E rest \in BOOLEAN : Ask(rest)) \/ OpenDialog \/ Cancel \/ Restart
  BY <1>4 DEF Ask, OpenDialog, Cancel, Restart, settingsVars
<1>5. CASE EditDraft
  <2>1. draft' \in Settings
    BY <1>5, EditsAreSettings DEF EditDraft
  <2> QED
    BY <1>5, <2>1 DEF EditDraft
<1>6. CASE Save
  BY <1>6 DEF Save
<1>7. CASE Store
  BY <1>7 DEF Store
<1>8. CASE ThreadStep
  BY <1>8 DEF ThreadStep, LoopHead, BeginInitialScan, EndInitialScan, Scan, ScanThrows, Test,
              Slice, Woken, Tail, settingsVars
<1> QED
  BY <1>1, <1>2, <1>3, <1>4, <1>5, <1>6, <1>7, <1>8 DEF Next, PlayerStep, UserStep

LEMMA StateTypesStep ==
    ASSUME StateTypes, [Next]_vars
    PROVE  StateTypes'
<1> USE DEF StateTypes, objectVars, flagVars, NotifyAll, StopThread
<1>1. CASE Start \/ SaveDefaults \/ Connect
  BY <1>1 DEF Start, SaveDefaults, Connect, settingsVars
<1>2. CASE Exit
  BY <1>2 DEF Exit
<1>3. CASE CreateWidget \/ DestroyWidget \/ Disconnect
  BY <1>3 DEF CreateWidget, DestroyWidget, Disconnect, settingsVars
<1>4. CASE Joined
  BY <1>4 DEF Joined, settingsVars
<1>5. CASE (\E rest \in BOOLEAN : Ask(rest)) \/ Restart
  BY <1>5 DEF Ask, Restart, settingsVars
<1>6. CASE OpenDialog \/ EditDraft \/ Cancel \/ Save \/ Store
  BY <1>6 DEF OpenDialog, EditDraft, Cancel, Save, Store
<1>7. CASE LoopHead \/ BeginInitialScan \/ EndInitialScan \/ Scan \/ ScanThrows \/ Tail
  BY <1>7 DEF LoopHead, BeginInitialScan, EndInitialScan, Scan, ScanThrows, Tail, settingsVars
<1>8. CASE Test \/ Slice \/ Woken
  <2>1. tpc' \in {"slice", "tail", "test", "woken"}
    BY <1>8 DEF Test, Slice, Woken, Rested
  <2>2. UNCHANGED <<settingsVars, objectVars, flagVars>>
    BY <1>8 DEF Test, Slice, Woken
  <2> QED
    BY <2>1, <2>2 DEF settingsVars
<1>9. CASE UNCHANGED vars
  BY <1>9 DEF vars, settingsVars
<1> QED
  BY <1>1, <1>2, <1>3, <1>4, <1>5, <1>6, <1>7, <1>8, <1>9
     DEF Next, ThreadStep, PlayerStep, UserStep

LEMMA RestTypesStep ==
    ASSUME RestTypes, [Next]_vars
    PROVE  RestTypes'
<1> USE RestConstants DEF RestTypes, restVars
<1>1. CASE Start \/ SaveDefaults \/ Connect \/ Exit
  BY <1>1 DEF Start, SaveDefaults, Connect, Exit
<1>2. CASE CreateWidget \/ DestroyWidget \/ Disconnect \/ Joined
  BY <1>2 DEF CreateWidget, DestroyWidget, Disconnect, Joined
<1>3. CASE UserStep
  BY <1>3 DEF UserStep, Ask, OpenDialog, EditDraft, Cancel, Save, Store, Restart
<1>4. CASE LoopHead \/ BeginInitialScan \/ EndInitialScan \/ Scan \/ ScanThrows \/ Tail
  BY <1>4 DEF LoopHead, BeginInitialScan, EndInitialScan, Scan, ScanThrows, Tail
<1>5. CASE Test
  BY <1>5 DEF Test, Rested
<1>6. CASE Slice
  BY <1>6 DEF Slice
<1>7. CASE Woken
  BY <1>7 DEF Woken, Rested
<1>8. CASE UNCHANGED vars
  BY <1>8 DEF vars
<1> QED
  BY <1>1, <1>2, <1>3, <1>4, <1>5, <1>6, <1>7, <1>8 DEF Next, ThreadStep, PlayerStep

LEMMA TypesStep ==
    ASSUME PluginTypeOK, [Next]_vars
    PROVE  PluginTypeOK'
<1>1. SettingsTypes /\ StateTypes /\ RestTypes
  BY TypesInParts
<1>2. SettingsTypes' /\ StateTypes' /\ RestTypes'
  BY <1>1, SettingsTypesStep, StateTypesStep, RestTypesStep
<1>3. PluginTypeOK' <=> SettingsTypes' /\ StateTypes' /\ RestTypes'
  BY DEF PluginTypeOK, SettingsTypes, StateTypes, RestTypes, Files
<1> QED
  BY <1>2, <1>3

-----------------------------------------------------------------------------
(* Settings. *)

LEMMA SettingsStep ==
    ASSUME PluginTypeOK, SettingsAgree, [Next]_vars
    PROVE  SettingsAgree'
<1> USE DEF SettingsAgree, UsersSettings, NextStartReadsTheSame, InUse
<1>1. CASE Start
  <2>1. /\ file.state = "whole" => file = Whole(file.dirs)
        /\ file.state = "absent" => file.dirs = NoDirs
        /\ Torn.state = "torn"
    BY FileStates DEF PluginTypeOK, Absent, Torn
  <2> QED
    BY <1>1, <2>1 DEF Start
<1>2. CASE SaveDefaults \/ Save \/ Store
  <2>1. /\ \A t : Whole(t).dirs = t /\ Whole(t).state = "whole"
        /\ Torn.state = "torn"
    BY DEF Whole, Torn
  <2> QED
    BY <1>2, <2>1 DEF SaveDefaults, Save, Store, objectVars
<1>3. CASE Connect \/ Exit
  BY <1>3 DEF Connect, Exit, settingsVars
<1>4. CASE CreateWidget \/ DestroyWidget \/ Disconnect \/ Joined
  BY <1>4 DEF CreateWidget, DestroyWidget, Disconnect, Joined, settingsVars
<1>5. CASE (\E rest \in BOOLEAN : Ask(rest)) \/ OpenDialog \/ EditDraft \/ Cancel \/ Restart
  BY <1>5 DEF Ask, OpenDialog, EditDraft, Cancel, Restart, settingsVars, objectVars
<1>6. CASE ThreadStep \/ UNCHANGED vars
  <2>1. UNCHANGED <<settingsVars, objectVars>>
    BY <1>6 DEF ThreadStep, LoopHead, BeginInitialScan, EndInitialScan, Scan, ScanThrows, Test,
                Slice, Woken, Tail, vars
  <2> QED
    BY <2>1 DEF settingsVars, objectVars
<1> QED
  BY <1>1, <1>2, <1>3, <1>4, <1>5, <1>6 DEF Next, PlayerStep, UserStep

-----------------------------------------------------------------------------
(* Objects. *)

LEMMA ObjectsStep ==
    ASSUME ObjectsInv, [Next]_vars
    PROVE  ObjectsInv'
<1> USE DEF ObjectsInv, ThreadHasItsObjects, objectVars, NotifyAll, StopThread
<1>1. CASE Start \/ SaveDefaults \/ Connect \/ Exit
  BY <1>1 DEF Start, SaveDefaults, Connect, Exit
<1>2. CASE CreateWidget \/ DestroyWidget \/ Disconnect \/ Joined
  BY <1>2 DEF CreateWidget, DestroyWidget, Disconnect, Joined
<1>3. CASE UserStep
  BY <1>3 DEF UserStep, Ask, OpenDialog, EditDraft, Cancel, Save, Store, Restart
<1>4. CASE ThreadStep
  <2>1. tpc # "none" /\ UNCHANGED objectVars
    BY <1>4 DEF ThreadStep, LoopHead, BeginInitialScan, EndInitialScan, Scan, ScanThrows, Test,
                Slice, Woken, Tail
  <2> QED
    BY <2>1
<1>5. CASE UNCHANGED vars
  BY <1>5 DEF vars
<1> QED
  BY <1>1, <1>2, <1>3, <1>4, <1>5 DEF Next, PlayerStep

-----------------------------------------------------------------------------
(* Rests. *)

LEMMA DelayStep ==
    ASSUME PluginTypeOK, ObjectsInv, DelayIsOneSlice, [Next]_vars
    PROVE  DelayIsOneSlice'
<1> USE DEF DelayIsOneSlice, shouldBreak, restVars, flagVars, NotifyAll, StopThread
<1>1. CASE Start \/ SaveDefaults \/ Connect \/ Exit
  BY <1>1 DEF Start, SaveDefaults, Connect, Exit
<1>2. CASE CreateWidget
  BY <1>2 DEF CreateWidget, ObjectsInv, ThreadHasItsObjects
<1>3. CASE DestroyWidget \/ Disconnect
  BY <1>3 DEF DestroyWidget, Disconnect
<1>4. CASE Joined
  BY <1>4 DEF Joined
<1>5. CASE UserStep
  BY <1>5 DEF UserStep, Ask, OpenDialog, EditDraft, Cancel, Save, Store, Restart
<1>6. CASE LoopHead \/ BeginInitialScan \/ EndInitialScan \/ Scan \/ ScanThrows \/ Tail
  BY <1>6 DEF LoopHead, BeginInitialScan, EndInitialScan, Scan, ScanThrows, Tail
<1>7. CASE Test
  BY <1>7 DEF Test, Rested
<1>8. CASE Slice
  <2>1. PICK passed \in {0, sleepMs} : delay' = IF shouldBreak THEN delay + passed ELSE delay
    BY <1>8 DEF Slice
  <2>2. delay = 0 /\ tpc' = "woken" /\ UNCHANGED <<stop_, restart_, continue_>>
    BY <1>8 DEF Slice
  <2> QED
    BY <2>1, <2>2, RestConstants
<1>9. CASE Woken
  BY <1>9 DEF Woken, Rested
<1>10. CASE UNCHANGED vars
  BY <1>10 DEF vars
<1> QED
  BY <1>1, <1>2, <1>3, <1>4, <1>5, <1>6, <1>7, <1>8, <1>9, <1>10 DEF Next, ThreadStep, PlayerStep

-----------------------------------------------------------------------------
LEMMA InitPluginInv == Init => PluginInv
<1> SUFFICES ASSUME Init PROVE PluginInv
  OBVIOUS
<1>1. PluginTypeOK
  BY InitTypes
<1>2. SettingsAgree
  BY DEF Init, SettingsAgree, UsersSettings, NextStartReadsTheSame, InUse
<1>3. ObjectsInv /\ DelayIsOneSlice
  BY DEF Init, ObjectsInv, ThreadHasItsObjects, DelayIsOneSlice
<1> QED
  BY <1>1, <1>2, <1>3 DEF PluginInv

\* From start to end, and over the end, the settings agree and the thread has its
\* objects.
THEOREM PluginInvariant == Spec => []PluginInv
<1>1. PluginInv /\ [Next]_vars => PluginInv'
  BY TypesStep, SettingsStep, ObjectsStep, DelayStep DEF PluginInv
<1> QED
  BY InitPluginInv, <1>1, PTL DEF Spec

\* The variables keep to their types, and the rests to their limit.
THEOREM PluginTypes == Spec => []PluginTypeOK
<1>1. PluginInv => PluginTypeOK
  BY DEF PluginInv
<1> QED
  BY <1>1, PluginInvariant, PTL

\* Wherever a save is cut off, the plugin works with settings the user has chosen
\* or does not start.
THEOREM SettingsAreTheUsers == Spec => []UsersSettings
<1>1. PluginInv => UsersSettings
  BY DEF PluginInv, SettingsAgree
<1> QED
  BY <1>1, PluginInvariant, PTL

\* The settings in force are those on disk.
THEOREM SettingsAreOnDisk == Spec => []NextStartReadsTheSame
<1>1. PluginInv => NextStartReadsTheSame
  BY DEF PluginInv, SettingsAgree
<1> QED
  BY <1>1, PluginInvariant, PTL

\* The thread never outlives what it refers to.
THEOREM ThreadIsSafe == Spec => []ThreadHasItsObjects
<1>1. PluginInv => ThreadHasItsObjects
  BY DEF PluginInv, ObjectsInv
<1> QED
  BY <1>1, PluginInvariant, PTL

\* A request is noticed after one slice at most, for any lengths of slice and rest.
THEOREM RequestsAreSoonNoticed == Spec => []RequestsAreNoticed
<1>1. PluginInv => RequestsAreNoticed
  BY RestConstants DEF PluginInv, PluginTypeOK, DelayIsOneSlice, RequestsAreNoticed
<1> QED
  BY <1>1, PluginInvariant, PTL

=============================================================================
