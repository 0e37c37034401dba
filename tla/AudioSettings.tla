--------------------------- MODULE AudioSettings ---------------------------
(***************************************************************************)
(* The dialogue of src/bo_vpn_agent/telegram_audio_bot.py and the settings *)
(* it keeps: branch, vehicle, volume and channel of each user, in memory   *)
(* and in audio-settings.json.                                             *)
(*                                                                         *)
(* The polling thread handles one update at a time and is the only one to  *)
(* write this state, so a handler is one step.  Writing the file can fail, *)
(* which ends the handler with the memory already changed; the bot can     *)
(* restart between any two handlers, with another vehicle inventory.       *)
(***************************************************************************)
EXTENDS Integers, FiniteSets

CONSTANTS
    Users,          \* allowed_users
    Branches,       \* names of branches
    Names,          \* what may be written for a branch
    Fold,           \* a name in lower case, with - for _
    Alias,          \* branch_aliases: folded name -> branch or None
    Numbers,        \* garage numbers
    Ips,            \* vehicle addresses
    Inventories,    \* what vehicle_maps may be: branch -> number -> address or None
    Channels,       \* CHANNELS
    DefaultChannel, \* "salon"
    MaxVolume,      \* 100
    VolumeStep,     \* 5
    DefaultVolume,  \* 25
    None            \* Python's None, a missing key

Audio == [volume : 1 .. MaxVolume, output : Channels]
Targets == [branch : Branches, number : Numbers, ip : Ips, audio : Audio]
Entries == [audio : Audio \cup {None}, branch : Branches \cup {None},
            number : Numbers \cup {None}]

ASSUME SettingsAssumption ==
    /\ Inventories # {}
    /\ Branches \subseteq Names /\ None \notin Names
    /\ Fold \in [Names -> Names] /\ Alias \in [Names -> Branches \cup {None}]
    /\ \A inv \in Inventories :
           /\ DOMAIN inv \subseteq Branches
           /\ \A b \in DOMAIN inv : inv[b] \in [Numbers -> Ips \cup {None}]
    /\ MaxVolume \in Nat /\ VolumeStep \in Nat /\ DefaultVolume \in 1 .. MaxVolume
    /\ DefaultChannel \in Channels
    /\ None \notin Branches \cup Numbers \cup Ips \cup Channels
    /\ None \notin Audio \cup Targets \cup Entries

(* The name of a branch means that branch: it is written folded, and no      *)
(* alias leads away from it.  True of piteravto and pat, the branches of     *)
(* docker-compose.full.yml and DEFAULT_BRANCH_ALIASES; VEHICLE_MAP_PATHS and *)
(* VEHICLE_BRANCH_ALIASES could be given values for which it is not.         *)
ASSUME NamesAssumption == \A b \in Branches : Fold[b] = b /\ Alias[b] \in {b, None}

VARIABLES
    inventory,      \* vehicle_maps, read when the bot starts
    branch,         \* user_branches
    audio,          \* user_audio
    target,         \* targets
    awaiting,       \* awaiting_target, awaiting_branch, awaiting_volume, by user
    saved,          \* audio-settings.json
    ahead           \* has the last write of the file failed?

memory == <<branch, audio, target>>
vars == <<inventory, branch, audio, target, awaiting, saved, ahead>>

DefaultAudio == [volume |-> DefaultVolume, output |-> DefaultChannel]

Init == /\ inventory \in Inventories
        /\ branch = [u \in Users |-> None]
        /\ audio = [u \in Users |-> None]
        /\ target = [u \in Users |-> None]
        /\ awaiting = [u \in Users |-> {}]
        /\ saved = [u \in Users |-> None]
        /\ ahead = FALSE

AudioOf(u) == IF audio[u] = None THEN DefaultAudio ELSE audio[u]

(* _normalize_branch: an alias goes before a branch of that very name.       *)
NormalizeBranch(inv, name) ==
    IF name = None THEN None
    ELSE IF Alias[Fold[name]] \in DOMAIN inv THEN Alias[Fold[name]]
    ELSE IF Fold[name] \in DOMAIN inv THEN Fold[name]
    ELSE None

(* The branches a user can name; None for no name, or one that is unknown.   *)
Named == {NormalizeBranch(inventory, name) : name \in Names \cup {None}}

-----------------------------------------------------------------------------
(* _save_settings: the whole file is written anew, from the memory as it is  *)
(* now, and replaces the old one at once; or OSError.                        *)
Snapshot(b, a, t) ==
    [u \in Users |->
        IF b[u] = None /\ a[u] = None THEN None
        ELSE [audio |-> a[u], branch |-> b[u],
              number |-> IF t[u] = None THEN None ELSE t[u].number]]

(* Variant for mutation: the file is written before the memory changes.      *)
SavesBefore == saved' = Snapshot(branch, audio, target) /\ ahead' = FALSE

Saves == saved' = Snapshot(branch', audio', target') /\ ahead' = FALSE
SaveFails == UNCHANGED saved /\ ahead' = TRUE
SaveSettings == Saves \/ SaveFails

(* Variant for mutation: without _clear_input.                               *)
AwaitAsWell(u, modes) == awaiting' = [awaiting EXCEPT ![u] = @ \cup modes]

(* _clear_input, and then waiting for what is in modes.                      *)
Await(u, modes) == awaiting' = [awaiting EXCEPT ![u] = modes]

-----------------------------------------------------------------------------
(* Commands and buttons that ask for something.                              *)

(* /start, /help, /status, /channel, /stop and their buttons, and a branch   *)
(* button of a panel from before the branch was closed.                      *)
ShowPanel(u) ==
    /\ Await(u, {})
    /\ UNCHANGED <<inventory, memory, saved, ahead>>

(* /volume alone or with anything but 1 .. MaxVolume.                        *)
AskVolume(u) ==
    /\ Await(u, {"volume"})
    /\ UNCHANGED <<inventory, memory, saved, ahead>>

(* /branch, and /target as long as no branch is chosen.                      *)
AskBranch(u) ==
    /\ Await(u, {"branch"})
    /\ UNCHANGED <<inventory, memory, saved, ahead>>

(* /target, and audio that comes in before there is a target.                *)
AskTarget(u) ==
    /\ Await(u, IF branch[u] = None THEN {"branch"} ELSE {"target"})
    /\ UNCHANGED <<inventory, memory, saved, ahead>>

(* Text while the bot waits for a branch, and it is not the name of one.  An *)
(* unknown name after /branch, and a /target that does not parse, change     *)
(* nothing.                                                                  *)
UnknownBranchText(u) ==
    /\ awaiting[u] = {"branch"}
    /\ Await(u, {})
    /\ UNCHANGED <<inventory, memory, saved, ahead>>

-----------------------------------------------------------------------------
(* _handle_branch with a known branch: the target goes.  The bot waits for   *)
(* the number unless the file could not be written.                          *)
ChooseBranch(u, b) ==
    /\ b # None
    /\ branch' = [branch EXCEPT ![u] = b]
    /\ target' = [target EXCEPT ![u] = None]
    /\ UNCHANGED <<inventory, audio>>
    /\ \/ Saves /\ Await(u, {"target"})
       \/ SaveFails /\ Await(u, {})

(* _parse_target: the branch given, else the chosen one, else the only one   *)
(* that has the number.  The IP comes from the inventory of this run.        *)
Holders(inv, n) == {b \in DOMAIN inv : inv[b][n] # None}

HomeBranch(inv, chosen, given, n) ==
    IF given # None THEN given
    ELSE IF chosen # None THEN chosen
    ELSE IF Cardinality(Holders(inv, n)) = 1 THEN CHOOSE b \in Holders(inv, n) : TRUE
    ELSE None

ParseTarget(inv, home, n, settings) ==
    IF home \notin Holders(inv, n) \/ settings \notin Audio THEN None
    ELSE [branch |-> home, number |-> n, ip |-> inv[home][n], audio |-> settings]

(* /target [branch] number [volume] [channel].                               *)
ChooseTarget(u, given, n, settings) ==
    LET t == ParseTarget(inventory, HomeBranch(inventory, branch[u], given, n), n, settings)
    IN /\ t # None
       /\ target' = [target EXCEPT ![u] = t]
       /\ branch' = [branch EXCEPT ![u] = t.branch]
       /\ audio' = [audio EXCEPT ![u] = t.audio]
       /\ Await(u, {})
       /\ UNCHANGED inventory
       /\ SaveSettings

(* Volume and channel of a /target: given after the number, or the user's.   *)
TargetAudio == [volume : 0 .. MaxVolume + 1, output : Channels]

(* Variant for mutation: the target keeps its volume and channel.            *)
SetAudioOnly(u, settings) ==
    /\ audio' = [audio EXCEPT ![u] = settings]
    /\ Await(u, {})
    /\ UNCHANGED <<inventory, branch, target>>
    /\ SaveSettings

(* _set_audio: the target of the next audio changes with the settings.       *)
SetAudio(u, settings) ==
    /\ audio' = [audio EXCEPT ![u] = settings]
    /\ target' = IF target[u] = None THEN target ELSE [target EXCEPT ![u].audio = settings]
    /\ Await(u, {})
    /\ UNCHANGED <<inventory, branch>>
    /\ SaveSettings

SetVolume(u, v) == SetAudio(u, [AudioOf(u) EXCEPT !.volume = v])

SetChannel(u, c) == SetAudio(u, [AudioOf(u) EXCEPT !.output = c])

Clamp(v) == IF v > MaxVolume THEN MaxVolume ELSE IF v < 1 THEN 1 ELSE v

Louder(u) == SetVolume(u, Clamp(AudioOf(u).volume + VolumeStep))
Quieter(u) == SetVolume(u, Clamp(AudioOf(u).volume - VolumeStep))

Handle(u) == \/ ShowPanel(u) \/ AskVolume(u) \/ AskBranch(u) \/ AskTarget(u)
             \/ UnknownBranchText(u)
             \/ \E b \in Named : ChooseBranch(u, b)
             \/ \E given \in Named, n \in Numbers, a \in TargetAudio :
                    ChooseTarget(u, given, n, a)
             \/ \E v \in 1 .. MaxVolume : SetVolume(u, v)
             \/ \E c \in Channels : SetChannel(u, c)
             \/ Louder(u) \/ Quieter(u)

-----------------------------------------------------------------------------
(* _load_settings.                                                           *)
LoadAudio(entry) == IF entry = None THEN None
                    ELSE IF entry.audio = None THEN DefaultAudio ELSE entry.audio

LoadBranch(inv, entry) ==
    IF entry = None THEN None ELSE NormalizeBranch(inv, entry.branch)

(* Variant for mutation: the target is made before user_audio is filled in.  *)
LoadTargetFirst(inv, entry) ==
    IF LoadBranch(inv, entry) = None \/ entry.number = None THEN None
    ELSE ParseTarget(inv, LoadBranch(inv, entry), entry.number, DefaultAudio)

(* The number is looked up again, in the inventory of now; the parser takes  *)
(* the branch that was loaded for a name again.                              *)
LoadTarget(inv, entry) ==
    IF LoadBranch(inv, entry) = None \/ entry.number = None THEN None
    ELSE ParseTarget(inv, NormalizeBranch(inv, LoadBranch(inv, entry)),
                     entry.number, LoadAudio(entry))

Restart(inv) ==
    /\ inventory' = inv
    /\ audio' = [u \in Users |-> LoadAudio(saved[u])]
    /\ branch' = [u \in Users |-> LoadBranch(inv, saved[u])]
    /\ target' = [u \in Users |-> LoadTarget(inv, saved[u])]
    /\ awaiting' = [u \in Users |-> {}]
    /\ ahead' = FALSE
    /\ UNCHANGED saved

(* The file cannot be read: the bot starts with defaults.                    *)
RestartUnread(inv) ==
    /\ inventory' = inv
    /\ audio' = [u \in Users |-> None]
    /\ branch' = [u \in Users |-> None]
    /\ target' = [u \in Users |-> None]
    /\ awaiting' = [u \in Users |-> {}]
    /\ ahead' = FALSE
    /\ UNCHANGED saved

Next == \/ \E u \in Users : Handle(u)
        \/ \E inv \in Inventories : Restart(inv) \/ RestartUnread(inv)

Spec == Init /\ [][Next]_vars

-----------------------------------------------------------------------------
(* Properties.                                                               *)

(* Every variable holds a value of its kind; volumes stay in 1 .. MaxVolume. *)
TypeOK ==
    /\ inventory \in Inventories
    /\ branch \in [Users -> Branches \cup {None}]
    /\ audio \in [Users -> Audio \cup {None}]
    /\ target \in [Users -> Targets \cup {None}]
    /\ awaiting \in [Users -> SUBSET {"target", "branch", "volume"}]
    /\ saved \in [Users -> Entries \cup {None}]
    /\ ahead \in BOOLEAN

(* telegram_audio_bot.py:197-208 and 384-387: the next text of a user has    *)
(* one meaning, and a number is only asked for when its branch is known.     *)
OneInputMode ==
    \A u \in Users : /\ Cardinality(awaiting[u]) <= 1
                     /\ "target" \in awaiting[u] => branch[u] # None

(* telegram_audio_bot.py:302-307, 331-336, 389-396 and 511-517: what the     *)
(* next audio is played with is what the panel shows, and the address is the *)
(* one this run's inventory has for the vehicle.                             *)
TargetFitsSettings ==
    \A u \in Users :
        target[u] # None =>
            /\ target[u].branch = branch[u]
            /\ target[u].audio = audio[u]
            /\ target[u].ip = inventory[branch[u]][target[u].number]

(* telegram_audio_bot.py:473-490: unless writing has just failed, the file   *)
(* has all that the memory has.                                              *)
FileHoldsSettings ==
    ~ ahead => \A u \in Users :
        /\ branch[u] # None => saved[u] # None /\ saved[u].branch = branch[u]
        /\ audio[u] # None => saved[u] # None /\ LoadAudio(saved[u]) = audio[u]
        /\ target[u] # None => saved[u].number = target[u].number

(* telegram_audio_bot.py:492-519, docs/audio_bot_usage.md "Saved settings":  *)
(* a restart on the same inventory gives every user back the branch, the     *)
(* volume, the channel and the vehicle, unless writing them had failed.      *)
SettingsSurviveRestart ==
    [][Restart(inventory) /\ ~ ahead =>
           \A u \in Users :
               /\ branch[u] # None => branch'[u] = branch[u]
               /\ audio[u] # None => audio'[u] = audio[u]
               /\ target[u] # None => target'[u] = target[u]]_vars
=============================================================================
