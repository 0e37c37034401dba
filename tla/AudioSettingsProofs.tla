------------------------ MODULE AudioSettingsProofs ------------------------
(***************************************************************************)
(* AudioSettings' safety properties, for every set of users, branches and  *)
(* vehicles, every inventory a restart may bring and every range of        *)
(* volumes.                                                                *)
(***************************************************************************)
EXTENDS AudioSettings, FiniteSetTheorems, TLAPS

(* What the bot waits for from a user is one thing or nothing, and a number  *)
(* only of a branch.                                                         *)
ModeInv(u) == /\ awaiting[u] \in {{}, {"target"}, {"branch"}, {"volume"}}
              /\ awaiting[u] = {"target"} => branch[u] # None

(* A branch is one of this run's inventory, and a target is made of what is  *)
(* kept of the user: the branch, the settings, and the inventory's address.  *)
FitInv(u) ==
    /\ branch[u] # None => branch[u] \in DOMAIN inventory
    /\ target[u] # None =>
           /\ branch[u] # None
           /\ target[u].branch = branch[u]
           /\ target[u].audio = audio[u]
           /\ target[u].ip = inventory[branch[u]][target[u].number]

(* The entry of a user in the file has what the memory has.                  *)
Filed(u) ==
    /\ branch[u] # None => saved[u] # None /\ saved[u].branch = branch[u]
    /\ audio[u] # None => saved[u] # None /\ LoadAudio(saved[u]) = audio[u]
    /\ target[u] # None => saved[u].number = target[u].number

(* TypeOK without the file: what a handler changes before it saves.          *)
MemoryOK == /\ inventory \in Inventories
            /\ branch \in [Users -> Branches \cup {None}]
            /\ audio \in [Users -> Audio \cup {None}]
            /\ target \in [Users -> Targets \cup {None}]

Fits == \A u \in Users : FitInv(u)

FileInv == /\ saved \in [Users -> Entries \cup {None}]
           /\ ahead \in BOOLEAN
           /\ ~ ahead => \A u \in Users : Filed(u)

AwaitInv == /\ awaiting \in [Users -> SUBSET {"target", "branch", "volume"}]
            /\ \A u \in Users : ModeInv(u)

Inv == MemoryOK /\ Fits /\ FileInv /\ AwaitInv

-----------------------------------------------------------------------------
(* What the operators return.                                                *)

LEMMA VolumeRange == 1 \in 1 .. MaxVolume /\ MaxVolume \in 1 .. MaxVolume
BY SettingsAssumption

LEMMA ClampRange == ASSUME NEW v \in Int PROVE Clamp(v) \in 1 .. MaxVolume
BY VolumeRange, SettingsAssumption DEF Clamp

LEMMA AudioOfType == ASSUME MemoryOK, NEW u \in Users PROVE AudioOf(u) \in Audio
BY SettingsAssumption DEF MemoryOK, AudioOf, DefaultAudio, Audio

(* Whatever was written for it, a branch is one of this run's; and its own   *)
(* name, which is what the file has, means that branch as long as there is   *)
(* one.                                                                      *)
LEMMA NamedBranch ==
    ASSUME Inv, NEW b \in Named, b # None
    PROVE  b \in DOMAIN inventory
BY DEF Named, NormalizeBranch

LEMMA OwnName ==
    ASSUME NEW inv \in Inventories, NEW b \in Branches
    PROVE  NormalizeBranch(inv, b) = IF b \in DOMAIN inv THEN b ELSE None
<1>1. Fold[b] = b /\ Alias[b] \in {b, None} BY NamesAssumption
<1>2. b # None /\ None \notin DOMAIN inv BY SettingsAssumption
<1> QED BY <1>1, <1>2 DEF NormalizeBranch

(* So does what _load_settings makes of an entry of the file.                *)
LEMMA LoadedBranch ==
    ASSUME NEW inv \in Inventories, NEW entry \in Entries \cup {None}
    PROVE  LoadBranch(inv, entry) =
               IF entry = None THEN None
               ELSE IF entry.branch \in DOMAIN inv THEN entry.branch ELSE None
<1>1. CASE entry = None BY <1>1 DEF LoadBranch
<1>2. CASE entry # None
    <2>1. entry.branch \in Branches \cup {None} BY <1>2 DEF Entries
    <2>2. NormalizeBranch(inv, None) = None /\ None \notin DOMAIN inv
        BY SettingsAssumption DEF NormalizeBranch
    <2> QED BY <1>2, <2>1, <2>2, OwnName DEF LoadBranch
<1> QED BY <1>1, <1>2

LEMMA InventoryType ==
    ASSUME NEW inv \in Inventories, NEW n \in Numbers, NEW b \in Holders(inv, n)
    PROVE  b \in DOMAIN inv /\ b \in Branches /\ inv[b][n] \in Ips
BY SettingsAssumption DEF Holders

(* A target that could be parsed is of the branch and the number it was      *)
(* parsed for, with the address of the inventory.                            *)
LEMMA ParsedTarget ==
    ASSUME NEW inv \in Inventories, NEW home, NEW n \in Numbers, NEW settings,
           ParseTarget(inv, home, n, settings) # None
    PROVE  /\ ParseTarget(inv, home, n, settings)
                  = [branch |-> home, number |-> n, ip |-> inv[home][n], audio |-> settings]
           /\ ParseTarget(inv, home, n, settings) \in Targets
           /\ home \in DOMAIN inv
           /\ home \in Branches
           /\ settings \in Audio
<1>1. home \in Holders(inv, n) /\ settings \in Audio BY DEF ParseTarget
<1>2. home \in DOMAIN inv /\ home \in Branches /\ inv[home][n] \in Ips
    BY <1>1, InventoryType
<1> QED BY <1>1, <1>2 DEF ParseTarget, Targets

(* Parsing gives every target the memory can hold back.                      *)
LEMMA ParsedAgain ==
    ASSUME MemoryOK, Fits, NEW u \in Users, target[u] # None
    PROVE  ParseTarget(inventory, branch[u], target[u].number, audio[u]) = target[u]
<1>1. /\ target[u] \in Targets
      /\ branch[u] \in DOMAIN inventory
      /\ target[u].branch = branch[u]
      /\ target[u].audio = audio[u]
      /\ target[u].ip = inventory[branch[u]][target[u].number]
    BY DEF MemoryOK, Fits, FitInv
<1>2. target[u].ip # None /\ audio[u] \in Audio
    BY <1>1, SettingsAssumption DEF Targets
<1>3. branch[u] \in Holders(inventory, target[u].number)
    BY <1>1, <1>2 DEF Holders
<1> QED BY <1>1, <1>2, <1>3 DEF ParseTarget, Targets

-----------------------------------------------------------------------------
(* The file.                                                                 *)

(* Whatever a handler has made of the memory, saving it, or failing to,      *)
(* leaves the file right: this is why every handler saves last.              *)
LEMMA SavingFiles ==
    ASSUME MemoryOK', Fits', FileInv, SaveSettings
    PROVE  FileInv'
<1>1. CASE SaveFails BY <1>1 DEF SaveFails, FileInv
<1>2. CASE Saves
    <2>1. saved' = Snapshot(branch', audio', target') /\ ahead' = FALSE BY <1>2 DEF Saves
    <2>2. ASSUME NEW u \in Users
          PROVE  saved'[u] \in Entries \cup {None} /\ Filed(u)'
        <3>1. /\ branch'[u] \in Branches \cup {None}
              /\ audio'[u] \in Audio \cup {None}
              /\ target'[u] \in Targets \cup {None}
              /\ target'[u] # None => branch'[u] # None
            BY DEF MemoryOK, Fits, FitInv
        <3>2. CASE branch'[u] = None /\ audio'[u] = None
            BY <2>1, <3>1, <3>2 DEF Snapshot, Filed
        <3>3. CASE ~ (branch'[u] = None /\ audio'[u] = None)
            <4>1. saved'[u] = [audio |-> audio'[u], branch |-> branch'[u],
                               number |-> IF target'[u] = None THEN None ELSE target'[u].number]
                BY <2>1, <3>3 DEF Snapshot
            <4>2. saved'[u] \in Entries BY <3>1, <4>1 DEF Entries, Targets
            <4>3. saved'[u] # None BY <4>2, SettingsAssumption
            <4> QED BY <3>1, <4>1, <4>2, <4>3 DEF Filed, LoadAudio
        <3> QED BY <3>2, <3>3
    <2>3. saved' \in [Users -> Entries \cup {None}] BY <2>1, <2>2 DEF Snapshot
    <2> QED BY <2>1, <2>2, <2>3 DEF FileInv
<1> QED BY <1>1, <1>2 DEF SaveSettings

(* Nothing of what the file is compared with changes.                        *)
LEMMA FileUntouched ==
    ASSUME Inv, UNCHANGED <<inventory, memory, saved, ahead>>
    PROVE  MemoryOK' /\ Fits' /\ FileInv'
<1> USE DEF memory
<1>1. MemoryOK' BY DEF Inv, MemoryOK
<1>2. Fits' BY DEF Inv, Fits, FitInv
<1>3. FileInv' BY DEF Inv, FileInv, Filed, LoadAudio
<1> QED BY <1>1, <1>2, <1>3

(* The dialogue of one user goes on; the others keep what they are asked.    *)
LEMMA Awaits ==
    ASSUME AwaitInv, NEW u \in Users, NEW modes \in {{}, {"target"}, {"branch"}, {"volume"}},
           Await(u, modes),
           modes = {"target"} => branch'[u] # None,
           \A v \in Users \ {u} : branch'[v] = branch[v]
    PROVE  AwaitInv'
<1>1. awaiting' = [awaiting EXCEPT ![u] = modes] BY DEF Await
<1>2. awaiting' \in [Users -> SUBSET {"target", "branch", "volume"}]
    BY <1>1 DEF AwaitInv
<1>3. ASSUME NEW v \in Users PROVE ModeInv(v)'
    <2>1. CASE v = u BY <1>1, <2>1 DEF AwaitInv, ModeInv
    <2>2. CASE v # u
        <3>1. awaiting'[v] = awaiting[v] /\ branch'[v] = branch[v]
            BY <1>1, <2>2 DEF AwaitInv
        <3> QED BY <3>1 DEF AwaitInv, ModeInv
    <2> QED BY <2>1, <2>2
<1> QED BY <1>2, <1>3 DEF AwaitInv

-----------------------------------------------------------------------------
(* The handlers.                                                             *)

LEMMA AskKeepsInv ==
    ASSUME Inv, NEW u \in Users,
           ShowPanel(u) \/ AskVolume(u) \/ AskBranch(u) \/ AskTarget(u) \/ UnknownBranchText(u)
    PROVE  Inv'
<1>1. UNCHANGED <<inventory, memory, saved, ahead>>
    BY DEF ShowPanel, AskVolume, AskBranch, AskTarget, UnknownBranchText
<1>2. branch' = branch BY <1>1 DEF memory
<1>3. PICK modes \in {{}, {"target"}, {"branch"}, {"volume"}} :
          Await(u, modes) /\ (modes = {"target"} => branch[u] # None)
    <2>1. CASE ShowPanel(u) \/ UnknownBranchText(u)
        BY <2>1 DEF ShowPanel, UnknownBranchText
    <2>2. CASE AskVolume(u) BY <2>2 DEF AskVolume
    <2>3. CASE AskBranch(u) BY <2>3 DEF AskBranch
    <2>4. CASE AskTarget(u) BY <2>4 DEF AskTarget
    <2> QED BY <2>1, <2>2, <2>3, <2>4
<1>4. AwaitInv' BY <1>2, <1>3, Awaits DEF Inv
<1> QED BY <1>1, <1>4, FileUntouched DEF Inv

LEMMA ChooseBranchKeepsInv ==
    ASSUME Inv, NEW u \in Users, NEW b \in Named, ChooseBranch(u, b)
    PROVE  Inv'
<1>0. b \in DOMAIN inventory BY NamedBranch DEF ChooseBranch
<1>1. /\ branch' = [branch EXCEPT ![u] = b]
      /\ target' = [target EXCEPT ![u] = None]
      /\ inventory' = inventory
      /\ audio' = audio
    BY DEF ChooseBranch
<1>2. b \in Branches /\ b # None BY <1>0, SettingsAssumption DEF Inv, MemoryOK
<1>3. MemoryOK' BY <1>1, <1>2 DEF Inv, MemoryOK
<1>4. Fits'
    <2>1. ASSUME NEW v \in Users PROVE FitInv(v)'
        <3>1. CASE v = u BY <1>0, <1>1, <1>2, <3>1 DEF Inv, MemoryOK, FitInv
        <3>2. CASE v # u
            <4>1. branch'[v] = branch[v] /\ target'[v] = target[v]
                BY <1>1, <3>2 DEF Inv, MemoryOK
            <4> QED BY <1>1, <4>1 DEF Inv, Fits, FitInv
        <3> QED BY <3>1, <3>2
    <2> QED BY <2>1 DEF Fits
<1>5. FileInv' BY <1>3, <1>4, SavingFiles DEF Inv, ChooseBranch, SaveSettings
<1>6. branch'[u] # None /\ \A v \in Users \ {u} : branch'[v] = branch[v]
    BY <1>1, <1>2 DEF Inv, MemoryOK
<1>7. PICK modes \in {{}, {"target"}, {"branch"}, {"volume"}} : Await(u, modes)
    BY DEF ChooseBranch
<1>8. AwaitInv' BY <1>6, <1>7, Awaits DEF Inv
<1> QED BY <1>3, <1>4, <1>5, <1>8 DEF Inv

LEMMA ChooseTargetKeepsInv ==
    ASSUME Inv, NEW u \in Users, NEW given, NEW n \in Numbers, NEW settings,
           ChooseTarget(u, given, n, settings)
    PROVE  Inv'
<1> DEFINE home == HomeBranch(inventory, branch[u], given, n)
           t == ParseTarget(inventory, home, n, settings)
<1>1. /\ t # None
      /\ target' = [target EXCEPT ![u] = t]
      /\ branch' = [branch EXCEPT ![u] = t.branch]
      /\ audio' = [audio EXCEPT ![u] = t.audio]
      /\ inventory' = inventory
      /\ Await(u, {})
      /\ SaveSettings
    BY DEF ChooseTarget
<1>2. /\ t = [branch |-> home, number |-> n, ip |-> inventory[home][n], audio |-> settings]
      /\ t \in Targets
      /\ home \in DOMAIN inventory
      /\ home \in Branches
      /\ settings \in Audio
    BY <1>1, ParsedTarget DEF Inv, MemoryOK
<1> HIDE DEF home, t
<1>3. t.branch = home /\ t.audio = settings /\ t.ip = inventory[home][t.number] /\ home # None
    BY <1>2, SettingsAssumption
<1>4. MemoryOK' BY <1>1, <1>2, <1>3 DEF Inv, MemoryOK
<1>5. Fits'
    <2>1. ASSUME NEW v \in Users PROVE FitInv(v)'
        <3>1. CASE v = u
            <4>1. target'[u] = t /\ branch'[u] = home /\ audio'[u] = settings
                BY <1>1, <1>3 DEF Inv, MemoryOK
            <4> QED BY <1>1, <1>2, <1>3, <3>1, <4>1 DEF FitInv
        <3>2. CASE v # u
            <4>1. branch'[v] = branch[v] /\ target'[v] = target[v] /\ audio'[v] = audio[v]
                BY <1>1, <3>2 DEF Inv, MemoryOK
            <4> QED BY <1>1, <4>1 DEF Inv, Fits, FitInv
        <3> QED BY <3>1, <3>2
    <2> QED BY <2>1 DEF Fits
<1>6. FileInv' BY <1>1, <1>4, <1>5, SavingFiles DEF Inv
<1>7. \A v \in Users \ {u} : branch'[v] = branch[v] BY <1>1 DEF Inv, MemoryOK
<1>8. AwaitInv' BY <1>1, <1>7, Awaits DEF Inv
<1> QED BY <1>4, <1>5, <1>6, <1>8 DEF Inv

LEMMA SetAudioKeepsInv ==
    ASSUME Inv, NEW u \in Users, NEW settings \in Audio, SetAudio(u, settings)
    PROVE  Inv'
<1>1. /\ audio' = [audio EXCEPT ![u] = settings]
      /\ target' = IF target[u] = None THEN target ELSE [target EXCEPT ![u].audio = settings]
      /\ Await(u, {})
      /\ inventory' = inventory
      /\ branch' = branch
      /\ SaveSettings
    BY DEF SetAudio
<1>2. target' \in [Users -> Targets \cup {None}]
    BY <1>1 DEF Inv, MemoryOK, Targets
<1>3. MemoryOK' BY <1>1, <1>2 DEF Inv, MemoryOK
<1>4. Fits'
    <2>1. ASSUME NEW v \in Users PROVE FitInv(v)'
        <3>0. FitInv(v) BY DEF Inv, Fits
        <3>1. CASE v = u /\ target[u] # None
            <4>1. target'[u] = [target[u] EXCEPT !.audio = settings] /\ target[u] \in Targets
                BY <1>1, <3>1 DEF Inv, MemoryOK
            <4>2. /\ target'[u].branch = target[u].branch
                  /\ target'[u].number = target[u].number
                  /\ target'[u].ip = target[u].ip
                  /\ target'[u].audio = settings
                BY <4>1 DEF Targets
            <4>3. audio'[u] = settings BY <1>1 DEF Inv, MemoryOK
            <4> QED BY <1>1, <3>0, <3>1, <4>2, <4>3 DEF FitInv
        <3>2. CASE v = u /\ target[u] = None BY <1>1, <3>0, <3>2 DEF FitInv
        <3>3. CASE v # u
            <4>1. target'[v] = target[v] /\ audio'[v] = audio[v]
                BY <1>1, <3>3 DEF Inv, MemoryOK
            <4> QED BY <1>1, <3>0, <4>1 DEF FitInv
        <3> QED BY <3>1, <3>2, <3>3
    <2> QED BY <2>1 DEF Fits
<1>5. FileInv' BY <1>1, <1>3, <1>4, SavingFiles DEF Inv
<1>6. AwaitInv' BY <1>1, Awaits DEF Inv
<1> QED BY <1>3, <1>4, <1>5, <1>6 DEF Inv

(* /volume, /channel and the buttons, all of them through _set_audio.        *)
LEMMA AudioButtonKeepsInv ==
    ASSUME Inv, NEW u \in Users,
           \/ \E v \in 1 .. MaxVolume : SetVolume(u, v)
           \/ \E c \in Channels : SetChannel(u, c)
           \/ Louder(u) \/ Quieter(u)
    PROVE  Inv'
<1>1. AudioOf(u) \in Audio BY AudioOfType DEF Inv
<1>2. AudioOf(u).volume \in Int /\ VolumeStep \in Int
    BY <1>1, SettingsAssumption DEF Audio
<1>3. ASSUME NEW v \in 1 .. MaxVolume, SetVolume(u, v) PROVE Inv'
    <2>1. [AudioOf(u) EXCEPT !.volume = v] \in Audio BY <1>1 DEF Audio
    <2> QED BY <1>3, <2>1, SetAudioKeepsInv DEF SetVolume
<1>4. ASSUME NEW c \in Channels, SetChannel(u, c) PROVE Inv'
    <2>1. [AudioOf(u) EXCEPT !.output = c] \in Audio BY <1>1 DEF Audio
    <2> QED BY <1>4, <2>1, SetAudioKeepsInv DEF SetChannel
<1>5. CASE Louder(u)
    <2>1. Clamp(AudioOf(u).volume + VolumeStep) \in 1 .. MaxVolume BY <1>2, ClampRange
    <2> QED BY <1>3, <1>5, <2>1 DEF Louder
<1>6. CASE Quieter(u)
    <2>1. Clamp(AudioOf(u).volume - VolumeStep) \in 1 .. MaxVolume BY <1>2, ClampRange
    <2> QED BY <1>3, <1>6, <2>1 DEF Quieter
<1> QED BY <1>3, <1>4, <1>5, <1>6

-----------------------------------------------------------------------------
(* The two kinds of restart.                                                 *)

LEMMA RestartKeepsInv ==
    ASSUME Inv, NEW inv \in Inventories, Restart(inv)
    PROVE  Inv'
<1>1. /\ inventory' = inv
      /\ audio' = [u \in Users |-> LoadAudio(saved[u])]
      /\ branch' = [u \in Users |-> LoadBranch(inv, saved[u])]
      /\ target' = [u \in Users |-> LoadTarget(inv, saved[u])]
      /\ awaiting' = [u \in Users |-> {}]
      /\ ahead' = FALSE
      /\ saved' = saved
    BY DEF Restart
<1>2. ASSUME NEW u \in Users
      PROVE  /\ LoadAudio(saved[u]) \in Audio \cup {None}
             /\ LoadBranch(inv, saved[u]) \in Branches \cup {None}
             /\ LoadTarget(inv, saved[u]) \in Targets \cup {None}
             /\ FitInv(u)'
             /\ Filed(u)'
    <2>1. saved[u] \in Entries \cup {None} BY DEF Inv, FileInv
    <2>2. /\ audio'[u] = LoadAudio(saved[u])
          /\ branch'[u] = LoadBranch(inv, saved[u])
          /\ target'[u] = LoadTarget(inv, saved[u])
          /\ saved'[u] = saved[u]
        BY <1>1
    <2>3. LoadAudio(saved[u]) \in Audio \cup {None}
        BY <2>1, SettingsAssumption DEF LoadAudio, Entries, DefaultAudio, Audio
    <2>4. LoadBranch(inv, saved[u]) # None =>
              /\ saved[u] # None
              /\ LoadBranch(inv, saved[u]) = saved[u].branch
              /\ saved[u].branch \in DOMAIN inv
              /\ saved[u].branch \in Branches
        BY <2>1, LoadedBranch, SettingsAssumption
    <2>5. audio'[u] # None => saved[u] # None BY <2>2 DEF LoadAudio
    <2>6. CASE LoadTarget(inv, saved[u]) = None
        BY <1>1, <2>2, <2>3, <2>4, <2>5, <2>6 DEF FitInv, Filed, LoadAudio
    <2>7. CASE LoadTarget(inv, saved[u]) # None
        <3>1. /\ LoadBranch(inv, saved[u]) # None
              /\ saved[u].number # None
              /\ LoadTarget(inv, saved[u])
                     = ParseTarget(inv, saved[u].branch, saved[u].number, LoadAudio(saved[u]))
            BY <2>4, <2>7, OwnName DEF LoadTarget
        <3>2. saved[u].number \in Numbers BY <2>1, <2>4, <3>1 DEF Entries
        <3>3. /\ target'[u] \in Targets
              /\ target'[u] = [branch |-> saved[u].branch, number |-> saved[u].number,
                               ip |-> inv[saved[u].branch][saved[u].number],
                               audio |-> LoadAudio(saved[u])]
            BY <2>2, <2>7, <3>1, <3>2, ParsedTarget
        <3>4. FitInv(u)' BY <1>1, <2>2, <2>4, <3>1, <3>3 DEF FitInv
        <3>5. Filed(u)' BY <2>2, <2>4, <2>5, <3>1, <3>3 DEF Filed, LoadAudio
        <3> QED BY <2>2, <2>3, <2>4, <3>1, <3>3, <3>4, <3>5
    <2> QED BY <2>6, <2>7
<1>3. MemoryOK' BY <1>1, <1>2 DEF MemoryOK
<1>4. Fits' BY <1>2 DEF Fits
<1>5. FileInv' BY <1>1, <1>2 DEF Inv, FileInv
<1>6. AwaitInv' BY <1>1 DEF AwaitInv, ModeInv
<1> QED BY <1>3, <1>4, <1>5, <1>6 DEF Inv

LEMMA RestartUnreadKeepsInv ==
    ASSUME Inv, NEW inv \in Inventories, RestartUnread(inv)
    PROVE  Inv'
<1> USE DEF RestartUnread
<1>1. MemoryOK' BY DEF MemoryOK
<1>2. Fits' BY DEF Fits, FitInv
<1>3. FileInv' BY DEF Inv, FileInv, Filed
<1>4. AwaitInv' BY DEF AwaitInv, ModeInv
<1> QED BY <1>1, <1>2, <1>3, <1>4 DEF Inv

-----------------------------------------------------------------------------
(* The invariant, and what it says.                                          *)

LEMMA InitInv == Init => Inv
<1> SUFFICES ASSUME Init PROVE Inv OBVIOUS
<1> USE DEF Init
<1>1. MemoryOK BY DEF MemoryOK
<1>2. Fits BY DEF Fits, FitInv
<1>3. FileInv BY DEF FileInv, Filed
<1>4. AwaitInv BY DEF AwaitInv, ModeInv
<1> QED BY <1>1, <1>2, <1>3, <1>4 DEF Inv

LEMMA NextInv == Inv /\ [Next]_vars => Inv'
<1> SUFFICES ASSUME Inv, [Next]_vars PROVE Inv' OBVIOUS
<1>1. ASSUME NEW u \in Users, Handle(u) PROVE Inv'
    <2>1. CASE ShowPanel(u) \/ AskVolume(u) \/ AskBranch(u) \/ AskTarget(u)
               \/ UnknownBranchText(u)
        BY <2>1, AskKeepsInv
    <2>2. CASE \E b \in Named : ChooseBranch(u, b)
        BY <2>2, ChooseBranchKeepsInv
    <2>3. CASE \E given \in Named, n \in Numbers, a \in TargetAudio :
                   ChooseTarget(u, given, n, a)
        BY <2>3, ChooseTargetKeepsInv
    <2>4. CASE \/ \E v \in 1 .. MaxVolume : SetVolume(u, v)
               \/ \E c \in Channels : SetChannel(u, c)
               \/ Louder(u) \/ Quieter(u)
        BY <2>4, AudioButtonKeepsInv
    <2> QED BY <1>1, <2>1, <2>2, <2>3, <2>4 DEF Handle
<1>2. ASSUME NEW inv \in Inventories, Restart(inv) \/ RestartUnread(inv) PROVE Inv'
    BY <1>2, RestartKeepsInv, RestartUnreadKeepsInv
<1>3. CASE UNCHANGED vars
    <2>1. UNCHANGED <<inventory, memory, saved, ahead>> /\ awaiting' = awaiting /\ branch' = branch
        BY <1>3 DEF vars, memory
    <2>2. AwaitInv' BY <2>1 DEF Inv, AwaitInv, ModeInv
    <2> QED BY <2>1, <2>2, FileUntouched DEF Inv
<1> QED BY <1>1, <1>2, <1>3 DEF Next

LEMMA InvAlways == Spec => []Inv
BY InitInv, NextInv, PTL DEF Spec

(* A user is waited for with at most one question, and with the one for a    *)
(* number only when there is a branch to look it up in.                      *)
LEMMA InvOneInputMode == Inv => OneInputMode
<1> SUFFICES ASSUME Inv, NEW u \in Users
             PROVE  /\ Cardinality(awaiting[u]) <= 1
                    /\ "target" \in awaiting[u] => branch[u] # None
    BY DEF OneInputMode
<1>1. awaiting[u] \in {{}, {"target"}, {"branch"}, {"volume"}}
    BY DEF Inv, AwaitInv, ModeInv
<1>2. awaiting[u] = {"target"} => branch[u] # None BY DEF Inv, AwaitInv, ModeInv
<1>3. Cardinality(awaiting[u]) \in {0, 1}
    BY <1>1, FS_EmptySet, FS_Singleton, Zenon
<1>4. Cardinality(awaiting[u]) <= 1 BY <1>3
<1>5. "target" \in awaiting[u] => awaiting[u] = {"target"} BY <1>1
<1> QED BY <1>2, <1>4, <1>5

(* The types of the settings, in memory and in the file: in particular no    *)
(* sequence of louder, quieter, /volume and restarts takes a volume out of   *)
(* 1 .. MaxVolume.                                                           *)
THEOREM TypesHold == Spec => []TypeOK
<1>1. Inv => TypeOK BY DEF Inv, MemoryOK, FileInv, AwaitInv, TypeOK
<1> QED BY <1>1, InvAlways, PTL

(* The next text of a user has one meaning (_clear_input), and a garage      *)
(* number is asked for only when its branch is known.                        *)
THEOREM OneQuestionAtATime == Spec => []OneInputMode
BY InvOneInputMode, InvAlways, PTL

(* What the next audio is played with is what the panel shows: _set_audio,   *)
(* _handle_branch, /target and _load_settings keep the target in step with   *)
(* branch, volume and channel, and its address with the inventory of the run.*)
THEOREM TargetsFit == Spec => []TargetFitsSettings
<1>1. Inv => TargetFitsSettings BY DEF Inv, Fits, FitInv, TargetFitsSettings
<1> QED BY <1>1, InvAlways, PTL

(* Unless the last write failed, audio-settings.json has every user's        *)
(* branch, volume, channel and vehicle (_save_settings).                     *)
THEOREM FileIsUpToDate == Spec => []FileHoldsSettings
<1>1. Inv => FileHoldsSettings BY DEF Inv, FileInv, Filed, FileHoldsSettings
<1> QED BY <1>1, InvAlways, PTL

(* A restart on the same inventory gives back what the memory held before:   *)
(* _load_settings after _save_settings is the identity on it.                *)
THEOREM RestartsGiveBack == Spec => SettingsSurviveRestart
<1> DEFINE Kept(u) == /\ branch[u] # None => branch'[u] = branch[u]
                      /\ audio[u] # None => audio'[u] = audio[u]
                      /\ target[u] # None => target'[u] = target[u]
<1>1. ASSUME Inv, Restart(inventory), ~ ahead, NEW u \in Users PROVE Kept(u)
    <2>1. Filed(u) /\ FitInv(u) /\ MemoryOK /\ Fits BY <1>1 DEF Inv, FileInv, Fits
    <2>2. /\ audio'[u] = LoadAudio(saved[u])
          /\ branch'[u] = LoadBranch(inventory, saved[u])
          /\ target'[u] = LoadTarget(inventory, saved[u])
        BY <1>1 DEF Restart
    <2>3. branch[u] # None => LoadBranch(inventory, saved[u]) = branch[u]
        BY <1>1, <2>1, LoadedBranch DEF Filed, FitInv, Inv, FileInv, MemoryOK
    <2>4. audio[u] # None => audio'[u] = audio[u] BY <2>1, <2>2 DEF Filed
    <2>5. ASSUME target[u] # None PROVE target'[u] = target[u]
        <3>1. /\ target[u] \in Targets
              /\ branch[u] # None
              /\ target[u].audio = audio[u]
              /\ saved[u].branch = branch[u]
              /\ saved[u].number = target[u].number
            BY <2>1, <2>5 DEF Filed, FitInv, MemoryOK
        <3>2. audio[u] # None /\ target[u].number # None
            BY <3>1, SettingsAssumption DEF Targets
        <3>3. LoadAudio(saved[u]) = audio[u] BY <2>1, <3>2 DEF Filed
        <3>4. target'[u] = ParseTarget(inventory, branch[u], target[u].number, audio[u])
            <4>1. branch[u] \in Branches /\ branch[u] \in DOMAIN inventory
                BY <2>1, <3>1 DEF FitInv, MemoryOK
            <4>2. NormalizeBranch(inventory, branch[u]) = branch[u]
                BY <2>1, <4>1, OwnName DEF MemoryOK
            <4> QED BY <2>2, <2>3, <3>1, <3>2, <3>3, <4>2 DEF LoadTarget
        <3> QED BY <2>1, <2>5, <3>4, ParsedAgain
    <2> QED BY <2>2, <2>3, <2>4, <2>5
<1>2. Inv => [Restart(inventory) /\ ~ ahead => \A u \in Users : Kept(u)]_vars
    BY <1>1
<1> QED BY <1>2, InvAlways, PTL DEF SettingsSurviveRestart
=============================================================================
